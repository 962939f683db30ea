------------------------------- MODULE Update -------------------------------
(***************************************************************************)
(* `sshgo update' (internal/update/update.go): look up the latest release, *)
(* download it beside, and put it in the place of the running binary by a  *)
(* rename, else by a copy over it, else by `sudo mv'.  Any step may fail,  *)
(* the process may be killed between any two, and releases are published   *)
(* meanwhile.  Once it is over it may be run again.                        *)
(***************************************************************************)
EXTENDS Versions

CONSTANTS
  Releases,  \* the versions that may be published
  Builds     \* the versions sshgo may have been built with at the start

Dev == [core |-> <<0>>, pre |-> 0]   \* the build that carries no version
Cut == [core |-> <<>>, pre |-> 0]    \* a binary with a part of its bytes
Binaries == Releases \cup Builds \cup {Cut}

ASSUME ReleaseAssumption ==
  Releases \subseteq Version /\ Builds \subseteq Version /\ Dev \notin Releases

VARIABLES
  latest,     \* the latest published release
  silent,     \* whether the update server has stopped answering
  place,      \* what the file system allows where the binary is
  installed,  \* the binary, Cut while it is incomplete
  current,    \* the version compiled into the process
  tag,        \* the release it found
  tmp,        \* the downloaded file: "none", "partial" or "whole"
  pc,         \* where the process is, "end" when there is none
  said,       \* how it ended
  exposed,    \* history: it has left the binary incomplete at some moment
  unflushed   \* history: a file that it wrote lost bytes when it was closed

environment == <<latest, silent, place>>
vars == <<latest, silent, place, installed, current, tag, tmp, pc, said,
          exposed, unflushed>>

Place == [sameFilesystem : BOOLEAN, directoryWritable : BOOLEAN, fileWritable : BOOLEAN]
Endings == {"nothing", "upToDate", "updated", "failed", "manual", "killed"}
Steps == {"check", "create", "download", "rename", "open", "copy", "sudo", "end"}

Init ==
  /\ latest \in Releases
  /\ silent = FALSE
  /\ place \in Place
  /\ installed \in Builds
  /\ current = installed
  /\ tag = latest
  /\ tmp = "none"
  /\ pc = "check"
  /\ said = "nothing"
  /\ exposed = FALSE
  /\ unflushed = FALSE

-----------------------------------------------------------------------------
Goto(step) == pc' = step /\ UNCHANGED <<said, tmp>>

\* Returning runs the deferred Remove of the downloaded file.
Return(result) == pc' = "end" /\ said' = result /\ tmp' = "none"

\* Defect: an update to the version that runs already.
ProceedsOnEqual == current = Dev \/ SemverCompare(current, latest) <= 0

\* announceVersion: a build without a version always takes the latest.
Proceeds == current = Dev \/ SemverCompare(current, latest) < 0

CheckLatest ==
  /\ pc = "check" /\ ~silent
  /\ tag' = latest
  /\ IF Proceeds THEN Goto("create") ELSE Return("upToDate")
  /\ UNCHANGED <<environment, installed, current, exposed, unflushed>>

\* Defect: the file that was being downloaded is left behind.
FailKeepingFile ==
  /\ pc = "create" \/ (pc \in {"check", "download"} /\ ~silent)
  /\ pc' = "end" /\ said' = "failed" /\ UNCHANGED tmp
  /\ UNCHANGED <<environment, installed, current, tag, exposed, unflushed>>

\* No usable redirect, no temporary file, no complete download, no permission
\* to mark it executable, or no path of the running binary.  Of a server that
\* is silent nothing is heard, not even that: the requests have no timeout.
Fail ==
  /\ pc = "create" \/ (pc \in {"check", "download"} /\ ~silent)
  /\ Return("failed")
  /\ UNCHANGED <<environment, installed, current, tag, exposed, unflushed>>

CreateTemp ==
  /\ pc = "create"
  /\ tmp' = "partial"
  /\ pc' = "download"
  /\ UNCHANGED <<environment, installed, current, tag, said, exposed, unflushed>>

\* Nobody looks whether closing the file succeeds, with what was written to it.
Download ==
  /\ pc = "download" /\ ~silent
  /\ tmp' \in {"partial", "whole"}
  /\ unflushed' = (tmp' = "partial")
  /\ pc' = "rename"
  /\ UNCHANGED <<environment, installed, current, tag, said, exposed>>

\* What the downloaded file holds.
Payload == IF tmp = "whole" THEN tag ELSE Cut

\* replaceBinary returns no error: `binary' is what is in place.
Install(binary) ==
  /\ installed' = binary
  /\ exposed' = (exposed \/ binary = Cut)
  /\ Return("updated")
  /\ UNCHANGED <<environment, current, tag>>

Rename ==
  /\ pc = "rename"
  /\ place.sameFilesystem /\ place.directoryWritable
  /\ Install(Payload)
  /\ UNCHANGED unflushed

RenameRefused ==
  /\ pc = "rename"
  /\ Goto("open")
  /\ UNCHANGED <<environment, installed, current, tag, exposed, unflushed>>

\* The downloaded file cannot be opened for the copy: sudo is not tried.
DownloadUnreadable ==
  /\ pc = "rename"
  /\ Return("manual")
  /\ UNCHANGED <<environment, installed, current, tag, exposed, unflushed>>

\* Defect: the binary is removed first, and there is no binary for a moment.
OpenTargetRemoved ==
  /\ pc = "open" /\ place.fileWritable
  /\ installed' = [core |-> <<>>, pre |-> 1]
  /\ exposed' = TRUE
  /\ Goto("copy")
  /\ UNCHANGED <<environment, current, tag, unflushed>>

\* Opening the binary for writing empties it.
OpenTarget ==
  /\ pc = "open" /\ place.fileWritable
  /\ installed' = Cut
  /\ exposed' = TRUE
  /\ Goto("copy")
  /\ UNCHANGED <<environment, current, tag, unflushed>>

\* Not writable, or the system keeps running programs from being written.
OpenRefused ==
  /\ pc = "open"
  /\ Goto("sudo")
  /\ UNCHANGED <<environment, installed, current, tag, exposed, unflushed>>

\* The copy is complete, but nobody looks whether closing the binary succeeds.
Copy ==
  /\ pc = "copy"
  /\ \/ Install(Payload) /\ UNCHANGED unflushed
     \/ Install(Cut) /\ unflushed' = TRUE

\* Defect: a copy that failed half-way is taken for a complete one.
CopyFailsUnnoticed ==
  /\ pc = "copy"
  /\ Return("updated")
  /\ UNCHANGED <<environment, installed, current, tag, exposed, unflushed>>

CopyFails ==
  /\ pc = "copy"
  /\ Goto("sudo")
  /\ UNCHANGED <<environment, installed, current, tag, exposed, unflushed>>

SudoMove ==
  /\ pc = "sudo"
  /\ Install(Payload)
  /\ UNCHANGED unflushed

\* Defect: a refused sudo is followed by another attempt.
SudoFailsRetrying ==
  /\ pc = "sudo"
  /\ Goto("rename")
  /\ UNCHANGED <<environment, installed, current, tag, exposed, unflushed>>

\* Across filesystems mv copies too, and may leave what it copied so far.
SudoFails ==
  /\ pc = "sudo"
  /\ \/ UNCHANGED <<installed, exposed>>
     \/ ~place.sameFilesystem /\ installed' = Cut /\ exposed' = TRUE
  /\ Return("manual")
  /\ UNCHANGED <<environment, current, tag, unflushed>>

Kill ==
  /\ pc # "end"
  /\ pc' = "end" /\ said' = "killed"
  /\ UNCHANGED <<environment, installed, current, tag, tmp, exposed, unflushed>>

-----------------------------------------------------------------------------
\* The binary that is there, if it runs, looks for an update another time.
RunAgain ==
  /\ pc = "end" /\ installed # Cut
  /\ current' = installed
  /\ tmp' = "none" /\ pc' = "check" /\ said' = "nothing" /\ exposed' = FALSE
  /\ unflushed' = FALSE
  /\ UNCHANGED <<environment, installed, tag>>

Publish ==
  /\ \E v \in Releases : Precedes(latest, v) /\ latest' = v
  /\ UNCHANGED <<silent, place, installed, current, tag, tmp, pc, said, exposed,
                 unflushed>>

FallSilent ==
  /\ ~silent
  /\ silent' = TRUE
  /\ UNCHANGED <<latest, place, installed, current, tag, tmp, pc, said, exposed,
                 unflushed>>

Terminating == pc = "end" /\ installed = Cut /\ UNCHANGED vars

Step ==
  \/ CheckLatest \/ Fail \/ CreateTemp \/ Download \/ Rename \/ RenameRefused
  \/ DownloadUnreadable \/ OpenTarget \/ OpenRefused \/ Copy \/ CopyFails
  \/ SudoMove \/ SudoFails

Next == Step \/ Kill \/ RunAgain \/ Publish \/ FallSilent \/ Terminating

Spec == Init /\ [][Next]_vars
\* The process takes its steps; nobody has to publish, kill or run again.
FairSpec == Spec /\ WF_vars(Step)

-----------------------------------------------------------------------------
TypeOK ==
  /\ latest \in Releases /\ tag \in Releases
  /\ silent \in BOOLEAN /\ place \in Place
  /\ installed \in Binaries /\ current \in Releases \cup Builds
  /\ tmp \in {"none", "partial", "whole"}
  /\ pc \in Steps /\ said \in Endings
  /\ exposed \in BOOLEAN /\ unflushed \in BOOLEAN

(***************************************************************************)
(* What the user is told is what happened to the binary: it is the new     *)
(* release after a success, unless closing a file lost what was written to *)
(* it, which the code does not notice; it is untouched when the update was *)
(* found unnecessary or failed before it reached the binary; when the user *)
(* is left to finish by hand it is the old one, or incomplete after a copy *)
(* over it was begun.                                                      *)
(***************************************************************************)
ReportIsTrue ==
  /\ said = "updated" => installed = IF unflushed THEN Cut ELSE tag
  /\ said \in {"upToDate", "failed"} => installed = current /\ ~exposed
  /\ said = "manual" => installed = IF exposed THEN Cut ELSE current

(***************************************************************************)
(* An update never puts an older release, or the same one, in the place of *)
(* what was running, pre-releases and tags of different length included,   *)
(* and however releases are published between its steps.                   *)
(***************************************************************************)
NeverDowngrades ==
  [][installed' \notin {installed, Cut} =>
       current = Dev \/ Precedes(current, installed')]_vars

(***************************************************************************)
(* An update that succeeds, fails or was unnecessary leaves no downloaded  *)
(* file behind, whichever step it stopped at.  One that is killed may, and *)
(* one that tells the user to finish by hand should: see ManualFileIsThere.*)
(***************************************************************************)
NoFileLeft == pc = "end" /\ said \notin {"killed", "manual"} => tmp = "none"

(***************************************************************************)
(* The binary is replaced if there is a newer one: a run that answers that *)
(* it is up to date has seen no newer release, whatever the lengths of the *)
(* two tags.  That holds among tags made of numbers; the comparison stops  *)
(* at a part that is no number, and takes v1.1-rc1 for no newer than v1.   *)
(***************************************************************************)
UpToDateMeansNewest ==
  said = "upToDate" /\ current.pre = 0 /\ tag.pre = 0 => ~Precedes(current, tag)

(***************************************************************************)
(* printManualInstall: the download is saved where it says, to be moved.   *)
(***************************************************************************)
ManualFileIsThere == said = "manual" => tmp = "whole"

(***************************************************************************)
(* An update ends, unless the server accepts a request and is silent.      *)
(***************************************************************************)
EndsIfServed == pc = "check" ~> (pc = "end" \/ silent)

-----------------------------------------------------------------------------
(***************************************************************************)
(* The inductive invariant: what the binary and the downloaded file are at *)
(* each step, and once the update has ended.                               *)
(***************************************************************************)
BinaryTracked ==
  /\ pc \in {"check", "create", "download", "rename", "open"} =>
       installed = current /\ ~exposed
  /\ pc = "copy" => installed = Cut /\ exposed
  /\ pc = "sudo" => installed = IF exposed THEN Cut ELSE current
FileTracked ==
  /\ pc \in {"check", "create"} => tmp = "none"
  /\ pc \in {"check", "create", "download"} => ~unflushed
  /\ pc \in {"rename", "open", "copy", "sudo"} =>
       tmp = IF unflushed THEN "partial" ELSE "whole"
SaidTracked == said = "nothing" <=> pc # "end"

IInv == TypeOK /\ BinaryTracked /\ FileTracked /\ SaidTracked /\ ReportIsTrue /\ NoFileLeft

(***************************************************************************)
(* And the decision: the release found is the one the process decided on,  *)
(* for as long as it may still be put in place, and once it was refused.   *)
(***************************************************************************)
Newer(v) == current = Dev \/ SemverCompare(current, v) < 0

DecisionTracked ==
  /\ pc \in Steps \ {"check", "end"} => Newer(tag)
  /\ said = "upToDate" => ~Newer(tag)
=============================================================================
