----------------------------- MODULE QuickSave -----------------------------
(***************************************************************************)
(* Runs of `wg-quick save` for one file.  Each reads the file and then the *)
(* device, writes a temporary file, always of the same name and line by    *)
(* line, and renames it.  Runs may overlap, be killed or fail, and the     *)
(* power may go: nothing asks the system to put the file on the disk       *)
(* before it is renamed.                                                   *)
(***************************************************************************)
EXTENDS QuickText

CONSTANTS
  Saver,     \* runs of wg-quick save
  Original,  \* files to begin with, or NoText
  DeviceNow, \* what the device may have
  MaxSaves,  \* bound on the runs that begin
  NoText     \* there is no file

ASSUME SaveTypes ==
  /\ DeviceNow \subseteq [wg : Device, iface : Setting \cup {Default}]
  /\ Original \subseteq Seq(QuickLine) \cup {NoText}
  /\ IsFiniteSet(Key) /\ IsFiniteSet(IP)

VARIABLES
  wg,         \* the device
  content,    \* every file that was ever created: its lines, whether on the disk
  path, tmp,  \* the files that the two names stand for, 0 for none
  saver,      \* the runs
  begun,      \* how many have begun
  first,      \* what the file said in the beginning
  published,  \* the device as the file has it, according to who renamed last
  overlapped, \* two runs have had the temporary file at one time
  powerless   \* the power has gone before the file was on the disk

names   == <<path, tmp>>
saves == <<begun, first, published, overlapped, powerless>>
qvars == <<wg, content, names, saver, saves, source>>

Resting == [at |-> "idle", file |-> NewFile, dev |-> Nil, fd |-> 0, done |-> 0]
Writing(s) == saver[s].at \in {"write", "rename"}

SaveInit ==
  /\ wg \in DeviceNow
  /\ \/ /\ NoText \in Original
        /\ content = <<>> /\ path = 0 /\ first = NewFile
     \/ /\ \E t \in Original \ {NoText} :
             content = <<[lines |-> t, safe |-> TRUE]>> /\ first = QuickParse(t)
        /\ path = 1
  /\ tmp = 0
  /\ saver = [s \in Saver |-> Resting] /\ begun = 0
  /\ published = Nil /\ overlapped = FALSE /\ powerless = FALSE

Steps(s, from, r) == saver[s].at = from /\ saver' = [saver EXCEPT ![s] = r]

FileNow == IF path = 0 THEN NewFile ELSE QuickParse(content[path].lines)

(* Save begins with Parse; a file that it cannot read ends it, no file is  *)
(* an empty one.                                                           *)
ReadFile(s) ==
  LET c == FileNow
  IN  /\ c # Bad /\ begun < MaxSaves
      /\ begun' = begun + 1
      /\ Steps(s, "idle", [Resting EXCEPT !.at = "device", !.file = c])
      /\ UNCHANGED <<wg, content, names, first, published, overlapped, powerless, source>>

ReadDevice1(s) ==
  /\ Steps(s, "device", [saver[s] EXCEPT !.at = "open", !.dev = wg,
                                         !.file = ApplyDevice(@, wg)])
  /\ UNCHANGED <<wg, content, names, saves, source>>

(* A slip to exclude: what an earlier run has left is written over.        *)
OpenTmpKept(s) ==
  /\ IF tmp = 0
       THEN /\ content' = Append(content, [lines |-> <<>>, safe |-> FALSE])
            /\ tmp' = Len(content) + 1
       ELSE UNCHANGED <<content, tmp>>
  /\ Steps(s, "open", [saver[s] EXCEPT !.at = "write", !.fd = tmp'])
  /\ overlapped' = (overlapped \/ \E o \in Saver : Writing(o))
  /\ UNCHANGED <<wg, path, begun, first, published, powerless, source>>

(* O_CREATE|O_TRUNC                                                        *)
OpenTmp(s) ==
  /\ IF tmp = 0
       THEN /\ content' = Append(content, [lines |-> <<>>, safe |-> FALSE])
            /\ tmp' = Len(content) + 1
       ELSE /\ content' = [content EXCEPT ![tmp] = [lines |-> <<>>, safe |-> FALSE]]
            /\ UNCHANGED tmp
  /\ Steps(s, "open", [saver[s] EXCEPT !.at = "write", !.fd = tmp'])
  /\ overlapped' = (overlapped \/ \E o \in Saver : Writing(o))
  /\ UNCHANGED <<wg, path, begun, first, published, powerless, source>>

(* A line is written where this run has got to, whatever others write; a   *)
(* gap before it is no text.                                               *)
Overwritten(lines, n, l) ==
  [i \in 1..(IF Len(lines) < n THEN n ELSE Len(lines)) |->
     IF i = n THEN l ELSE IF i \in DOMAIN lines THEN lines[i] ELSE L("junk", Nil)]

WriteLine(s) ==
  LET r == saver[s]
      all == QuickEncode(r.file)
  IN  /\ r.done < Len(all)
      /\ Steps(s, "write", [r EXCEPT !.done = @ + 1])
      /\ content' = [content EXCEPT ![r.fd].lines = Overwritten(@, r.done + 1, all[r.done + 1]),
                                    ![r.fd].safe = FALSE]
      /\ UNCHANGED <<wg, names, saves, source>>

CloseTmp(s) ==
  /\ saver[s].done = Len(QuickEncode(saver[s].file))
  /\ Steps(s, "write", [saver[s] EXCEPT !.at = "rename"])
  /\ UNCHANGED <<wg, content, names, saves, source>>

(* The disk is full: whatever has the temporary name is removed.           *)
WriteFails(s) ==
  /\ Steps(s, "write", Resting)
  /\ tmp' = 0
  /\ UNCHANGED <<wg, content, path, saves, source>>

Rename(s) ==
  /\ Steps(s, "rename", Resting)
  /\ IF tmp = 0 THEN UNCHANGED <<names, published>>
     ELSE path' = tmp /\ tmp' = 0 /\ published' = saver[s].dev
  /\ UNCHANGED <<wg, content, begun, first, overlapped, powerless, source>>

(* A run is killed, or its device is not there: it leaves what there is.   *)
SaverEnds(s) ==
  /\ saver[s].at # "idle"
  /\ saver' = [saver EXCEPT ![s] = Resting]
  /\ UNCHANGED <<wg, content, names, saves, source>>
-----------------------------------------------------------------------------
(* `wg set`, or a peer that roams.                                         *)
DeviceChanges ==
  /\ wg' \in DeviceNow
  /\ UNCHANGED <<content, names, saver, saves, source>>

(* The system writes the file to the disk in its own time.                 *)
Flush ==
  /\ path # 0 /\ ~content[path].safe
  /\ content' = [content EXCEPT ![path].safe = TRUE]
  /\ UNCHANGED <<wg, names, saver, saves, source>>

(* A file that was not on the disk is cut off somewhere.                   *)
PowerFails ==
  /\ path # 0
  /\ saver' = [s \in Saver |-> Resting]
  /\ \E n \in 0..Len(content[path].lines) :
       content' = IF content[path].safe THEN content
                  ELSE [content EXCEPT ![path].lines = SubSeq(@, 1, n)]
  /\ powerless' = (powerless \/ ~content[path].safe)
  /\ UNCHANGED <<wg, names, begun, first, published, overlapped, source>>

SaveNext ==
  \/ \E s \in Saver : \/ ReadFile(s) \/ ReadDevice1(s) \/ OpenTmp(s) \/ WriteLine(s)
                      \/ CloseTmp(s) \/ WriteFails(s) \/ Rename(s) \/ SaverEnds(s)
  \/ DeviceChanges \/ Flush \/ PowerFails

SaveSpec == SaveInit /\ [][SaveNext]_qvars
-----------------------------------------------------------------------------
(* "First written to a temporary file, then renamed atomically"            *)
(* (save.go:104): whichever save fails, is killed or is slow, the file is  *)
(* whole.  It has the network fields it had in the beginning, after any    *)
(* number of saves, and the keys and peers that the device had at one      *)
(* moment, when the run that renamed last looked.  Not so when two runs    *)
(* had the temporary file at one time, or when the power went before the   *)
(* file was on the disk: both can leave half a file.                       *)
SavedWhole ==
  ~overlapped /\ ~powerless /\ published # Nil =>
    LET saved == ApplyDevice(first, published)
    IN  Usable(saved) => FileNow = saved
=============================================================================
