------------------------------ MODULE MCWgQuick -----------------------------
(* Two interfaces and a run of wg-quick for each.                          *)
EXTENDS WgQuick, TLC

CONSTANTS r0, r1, wg0, wg1, all4, all6, lan, n51820, n7, v4, v6

MCOnOf     == (r0 :> wg0) @@ (r1 :> wg1)
MCFamilyOf == (all4 :> v4) @@ (all6 :> v6) @@ (lan :> v4)
MCCovers   == {<<lan, lan>>}

File(t, m, s, n, x) ==
  [table |-> t, mark |-> m, routes |-> s, nets |-> n, dns |-> x]

MCConfs == {File(AutoTable, NoMark, <<all4, lan>>, {}, TRUE),
            File(AutoTable, n7, <<all4, all6, lan>>, {lan}, FALSE),
            File(n7, NoMark, <<lan, all4>>, {}, FALSE),
            File(OffTable, NoMark, <<all4>>, {lan}, FALSE)}

MCWeathers == {{"hook", "link", "device", "address", "route", "save"},
               {"rule", "dns"},
               {"set"},
               {"kill", "unlink", "dns"},
               {"stray"}}
MCSetAndSave == {{"set", "save"}}
=============================================================================
