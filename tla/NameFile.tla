----------------------------- MODULE NameFile ------------------------------
(***************************************************************************)
(* The data of internal/wgmeta: what a names file can hold, how Store.read *)
(* and decodeNames understand it, and the calls a Store answers.  A map of *)
(* names is opaque here; ConfApply gives it keys and names.                *)
(***************************************************************************)

CONSTANTS
  Process,    \* operating-system processes (wgd, each run of wg)
  Task,       \* goroutines that call the store
  ProcOf,     \* the process of each goroutine
  File,       \* paths that ResolveFile can return
  NameMap,    \* maps from public keys to friendly names
  EmptyMap,   \* the map without entries
  Updates,    \* callbacks an Update may be given, as functions on maps
  Absent,     \* content of a path with no file
  Bad,        \* content that does not decode (syntax, version, key)
  Torn,       \* content of a file that was not written out in full
  NoCall,     \* a goroutine outside the store
  NoResult,   \* nothing returned yet
  Ok,         \* Update succeeded
  Error       \* the error result

ASSUME ProcOfType  == ProcOf \in [Task -> Process]
ASSUME UpdatesType == /\ EmptyMap \in NameMap
                      /\ Updates \subseteq [NameMap -> NameMap]
ASSUME Sentinels   == /\ {Absent, Bad, Torn} \cap NameMap = {}
                      /\ Torn \notin {Absent, Bad}
                      /\ Bad # Absent

(* The content a path can have. *)
Content == NameMap \cup {Absent, Bad, Torn}

(* Store.read followed by decodeNames: a missing file is an empty map,     *)
(* anything that does not parse is an error.                               *)
Readable(c) == c \in NameMap \cup {Absent}
Decode(c)   == IF c = Absent THEN EmptyMap ELSE c

UpdateCall == [op : {"update"}, file : File, fn : Updates]
LookupCall == [op : {"names"}, file : File]
Call       == UpdateCall \cup LookupCall

Result == NameMap \cup {NoResult, Error, Ok}
=============================================================================
