----------------------------- MODULE SelfUpdate -----------------------------
(* The updater: every copy of the program that runs looks for a newer release,
   fetches and verifies it, and puts it in the place of the program's file in
   steps that another copy, a failing call or the end of the process may come
   between.  A bundle of macOS is replaced by the same two renames.

   The file being written by a copy that overwrites it in place is the one it
   opened, wherever that file has been moved since.                         *)
EXTENDS Naturals, FiniteSets

CONSTANTS
  Copies,       \* processes that run the program
  MaxVersion,   \* the last release
  MaxFaults     \* how often a step fails or a process ends at work, together

SelfUpdateAssumption == MaxVersion \in Nat \ {0} /\ MaxFaults \in Nat

VARIABLES
  platform,   \* GOOS
  install,    \* whose copy this is: "own", of a package "manager", a "temporary" build
  signing,    \* a key to verify releases with is embedded
  latest,     \* the latest release: its version and what has been uploaded of it
  target,     \* the program's file
  old,        \* the file set aside, next to it
  at,         \* Copies -> the step its updater is at
  image,      \* Copies -> the file it was started from
  found,      \* Copies -> the release it found
  tmp,        \* Copies -> the temporary file it wrote, or Absent
  faults,
  updaters    \* history: the copies that came to replace the program

vars == <<platform, install, signing, latest, target, old, at, image, found, tmp, faults,
          updaters>>

Absent == [version |-> 0, whole |-> FALSE, by |-> 0]
Parts == {"binary", "sums", "sig"}
File == [version : 1 .. MaxVersion, whole : BOOLEAN, by : Copies \cup {0}] \cup {Absent}
Release == [version : 1 .. MaxVersion, parts : SUBSET Parts]

Init ==
  /\ platform \in {"linux", "windows", "darwin"}
  /\ install \in {"own", "manager", "temporary"}
  /\ signing \in BOOLEAN
  /\ latest = [version |-> 1, parts |-> Parts]
  /\ target = [version |-> 1, whole |-> TRUE, by |-> 0] /\ old = Absent
  /\ at = [c \in Copies |-> "off"] /\ image = [c \in Copies |-> Absent]
  /\ found = [c \in Copies |-> latest] /\ tmp = [c \in Copies |-> Absent]
  /\ faults = 0 /\ updaters = {}

Run(c, step) == at' = [at EXCEPT ![c] = step]
Fault == faults < MaxFaults /\ faults' = faults + 1
Disk == <<target, old, tmp>>
Fixed == <<platform, install, signing>>

\* A file of a running program cannot be removed, replaced or written on Windows.
InUse(f) == platform = "windows" /\ \E c \in Copies : at[c] # "off" /\ image[c] = f

\* A release appears, and its files are uploaded one after another.
Publish ==
  /\ latest.version < MaxVersion
  /\ latest' = [version |-> latest.version + 1, parts |-> {}]
  /\ UNCHANGED <<Fixed, Disk, at, image, found, faults, updaters>>

Upload ==
  /\ \E p \in Parts \ latest.parts : latest' = [latest EXCEPT !.parts = @ \cup {p}]
  /\ UNCHANGED <<Fixed, Disk, at, image, found, faults, updaters>>

\* The user starts the program; what cannot be run does not start.
Launch(c) ==
  /\ at[c] = "off" /\ target.whole
  /\ Run(c, "asleep") /\ image' = [image EXCEPT ![c] = target]
  /\ UNCHANGED <<Fixed, latest, Disk, found, faults, updaters>>

\* CheckAndUpdateAsync: the latest release, if it is newer than this program.  What a
\* package manager owns and what go run built is only told of it.
CheckAndUpdateAsync(c) ==
  /\ at[c] = "asleep"
  /\ found' = [found EXCEPT ![c] = latest]
  /\ Run(c, IF latest.version > image[c].version /\ install = "own" THEN "found" ELSE "done")
  /\ UNCHANGED <<Fixed, latest, Disk, image, faults, updaters>>

\* DownloadAndApplyUpdate refuses what it cannot verify.
Refused(r) ==
  \/ ~({"binary", "sums"} \subseteq r.parts)
  \/ signing /\ "sig" \notin r.parts

\* VerifyAssetChecksum: what was not received as it was published does not pass.
Verified_Unchecked(intact) == TRUE
Verified(intact) == intact

Download(c) ==
  \E intact \in BOOLEAN :
    /\ at[c] = "found"
    /\ IF Refused(found[c]) \/ ~Verified(intact)
       THEN Run(c, "done") /\ UNCHANGED tmp
       ELSE /\ Run(c, "fetched")
            /\ tmp' = [tmp EXCEPT ![c] =
                         [version |-> found[c].version, whole |-> intact, by |-> c]]
    /\ UNCHANGED <<Fixed, latest, target, old, image, found, faults, updaters>>

\* What is left of a call that failed: the deferred removal of the temporary file.
Give(c) == Run(c, "done") /\ tmp' = [tmp EXCEPT ![c] = Absent]

\* replaceExecutable, replaceAppBundle: an older file set aside goes first
RemoveOld(c) ==
  /\ at[c] = "fetched"
  /\ old' = IF InUse(old) THEN old ELSE Absent
  /\ Run(c, "cleared") /\ updaters' = updaters \cup {c}
  /\ UNCHANGED <<Fixed, latest, target, tmp, image, found, faults>>

\* the program's file is set aside.  When that fails it is overwritten, but for macOS.
MoveAside(c) ==
  /\ at[c] = "cleared"
  /\ target # Absent /\ ~InUse(old)
  /\ old' = target /\ target' = Absent
  /\ Run(c, "aside")
  /\ UNCHANGED <<Fixed, latest, tmp, image, found, faults, updaters>>

CannotMoveAside(c) ==
  /\ at[c] = "cleared"
  /\ Fault \/ ((target = Absent \/ InUse(old)) /\ UNCHANGED faults)
  /\ IF platform = "darwin" THEN Give(c) ELSE Run(c, "direct") /\ UNCHANGED tmp
  /\ UNCHANGED <<Fixed, latest, target, old, image, found, updaters>>

\* os.WriteFile truncates the file, then writes it
Overwrite(c) ==
  /\ at[c] = "direct"
  /\ IF InUse(target)
     THEN Give(c) /\ UNCHANGED target
     ELSE /\ target' = [version |-> found[c].version, whole |-> FALSE, by |-> c]
          /\ Run(c, "writing") /\ UNCHANGED tmp
  /\ UNCHANGED <<Fixed, latest, old, image, found, faults, updaters>>

Written(c, f) == IF f.by = c /\ f # Absent THEN [f EXCEPT !.whole = tmp[c].whole] ELSE f

FinishOverwrite(c) ==
  /\ at[c] = "writing"
  /\ target' = Written(c, target) /\ old' = Written(c, old)
  /\ Give(c)
  /\ UNCHANGED <<Fixed, latest, image, found, faults, updaters>>

\* the new file takes the place of the program's
Install(c) ==
  /\ at[c] = "aside" /\ ~InUse(target)
  /\ target' = tmp[c] /\ tmp' = [tmp EXCEPT ![c] = Absent]
  /\ Run(c, "installed")
  /\ UNCHANGED <<Fixed, latest, old, image, found, faults, updaters>>

\* or the old one goes back there, if it is still where it was put
PutBack(c) ==
  IF old # Absent /\ ~InUse(target)
  THEN target' = old /\ old' = Absent
  ELSE UNCHANGED <<target, old>>

CannotInstall(c) ==
  /\ at[c] = "aside"
  /\ Fault \/ (InUse(target) /\ UNCHANGED faults)
  /\ PutBack(c) /\ Give(c)
  /\ UNCHANGED <<Fixed, latest, image, found, updaters>>

Clean(c) ==
  /\ at[c] = "installed"
  /\ old' = IF InUse(old) THEN old ELSE Absent
  /\ Run(c, "done")
  /\ UNCHANGED <<Fixed, latest, target, tmp, image, found, faults, updaters>>

Working(c) == at[c] \notin {"off", "asleep", "done"}

\* Writing the temporary file, or the program's, fails.
WriteFails(c) ==
  /\ at[c] \in {"fetched", "writing"} /\ Fault
  /\ Give(c)
  /\ UNCHANGED <<Fixed, latest, target, old, image, found, updaters>>

\* The user ends the program; its updater stops where it is, and nothing is tidied up.
Quit(c) ==
  /\ at[c] # "off"
  /\ IF Working(c) THEN Fault ELSE UNCHANGED faults
  /\ Run(c, "off")
  /\ UNCHANGED <<Fixed, latest, Disk, image, found, updaters>>

Next ==
  \/ Publish \/ Upload
  \/ \E c \in Copies :
       \/ Launch(c) \/ CheckAndUpdateAsync(c) \/ Download(c)
       \/ RemoveOld(c) \/ MoveAside(c) \/ CannotMoveAside(c)
       \/ Overwrite(c) \/ FinishOverwrite(c)
       \/ Install(c) \/ CannotInstall(c) \/ Clean(c) \/ WriteFails(c) \/ Quit(c)

Spec == Init /\ [][Next]_vars

-----------------------------------------------------------------------------
\* Types.
TypeOK ==
  /\ target \in File /\ old \in File
  /\ latest \in Release /\ found \in [Copies -> Release]
  /\ image \in [Copies -> File] /\ tmp \in [Copies -> File]
  /\ at \in [Copies -> {"off", "asleep", "found", "fetched", "cleared", "aside", "direct",
                        "writing", "installed", "done"}]

\* A program is left to start.  When every updater has ended, the program's file is whole if
\* nothing failed, however many copies updated at once; if a step of the only copy that
\* updated failed, or that copy ended on its way, it or the file set aside is.  (Two copies
\* and one fault can leave neither: the second removes what the first has set aside.  So can
\* two faults of one copy: the file cannot be set aside, and overwriting it breaks off.)
ProgramSurvives ==
  (\A c \in Copies : ~Working(c)) =>
    \/ target.whole
    \/ faults > 0 /\ old.whole
    \/ faults > 1 /\ target # Absent
    \/ faults > 0 /\ Cardinality(updaters) > 1
=============================================================================
