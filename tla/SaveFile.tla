------------------------------ MODULE SaveFile ------------------------------
(***************************************************************************)
(* How Database.Close writes the database back: into a temporary file of   *)
(* its own, which replaces the file at the path only when it is complete.  *)
(* Several processes may have a database open on the same path, any step   *)
(* may fail, a process may be killed and the machine may lose its power.   *)
(*                                                                         *)
(* A file's content is the number of the session that wrote it, or Partial *)
(* while it is not all there.  The file system shows programs its cache.   *)
(* What a power failure leaves of a file that was not synced is Partial,   *)
(* and a rename that was not yet written is undone.                        *)
(***************************************************************************)
EXTENDS Naturals, FiniteSets

CONSTANTS
    Procs,
    Names,          \* the names of temporary files
    NoName,         \* stands for no temporary file
    MaxSessions     \* bound: databases opened

ASSUME SaveFileAssumption ==
    IsFiniteSet(Procs) /\ NoName \notin Names /\ MaxSessions \in Nat

VARIABLES
    path,           \* the content of the file at the path
    onDisk,         \* the contents it may have after a power failure
    temps,          \* the temporary files that exist
    orphans,        \* those left by killed processes and failed removals
    sessions,       \* how many databases were opened
    proc            \* each process's database, and where its Close is

vars == <<path, onDisk, temps, orphans, sessions, proc>>

-----------------------------------------------------------------------------
Absent == 0
Initial == 1
Partial == 2
Complete(content) == content \notin {Absent, Partial}

\* The content that the n-th session writes.
Version(n) == 2 + n

Idle == [at |-> "idle", n |-> 0, sink |-> "path", dirty |-> FALSE, cfb |-> FALSE,
         tmp |-> NoName, written |-> Absent, installed |-> FALSE, result |-> "none"]

Init ==
    /\ path \in {Absent, Initial}
    /\ onDisk = {path}
    /\ temps = [x \in {} |-> [data |-> Partial, synced |-> FALSE]]
    /\ orphans = {}
    /\ sessions = 0
    /\ proc = [p \in Procs |-> Idle]

Begin(p, sink, dirty, cfb) ==
    /\ proc[p].at = "idle"
    /\ sessions < MaxSessions
    /\ sessions' = sessions + 1
    /\ proc' = [proc EXCEPT ![p] =
            [Idle EXCEPT !.at = "open", !.n = sessions + 1, !.sink = sink,
                         !.dirty = dirty, !.cfb = cfb]]
    /\ UNCHANGED <<path, onDisk, temps, orphans>>

\* Open decodes the file, which must be complete, and keeps it open.
Open(p) == Complete(path) /\ Begin(p, "path", FALSE, TRUE)

\* Create writes to the path whatever is there, New to the caller's writer.
Create(p) == Begin(p, "path", TRUE, FALSE)
New(p) == Begin(p, "writer", TRUE, FALSE)

Edit(p) ==
    /\ proc[p].at = "open"
    /\ proc' = [proc EXCEPT ![p].dirty = TRUE]
    /\ UNCHANGED <<path, onDisk, temps, orphans, sessions>>

-----------------------------------------------------------------------------
(***************************************************************************)
(* Close, step by step.  Goes moves on, Fails ends in the deferred removal *)
(* of the temporary file, Ends returns.                                    *)
(***************************************************************************)

Goes(p, from, to) == proc[p].at = from /\ proc' = [proc EXCEPT ![p].at = to]

Ends(p, result) ==
    proc' = [proc EXCEPT ![p] = [@ EXCEPT !.at = "idle", !.cfb = FALSE, !.result = result]]

\* A database without changes is not written.
CloseClean(p) ==
    /\ proc[p].at = "open"
    /\ ~proc[p].dirty
    /\ Ends(p, "ok")
    /\ UNCHANGED <<path, onDisk, temps, orphans, sessions>>

CloseDirty(p) ==
    /\ proc[p].dirty
    /\ Goes(p, "open", IF proc[p].sink = "path" THEN "create" ELSE "encode")
    /\ UNCHANGED <<path, onDisk, temps, orphans, sessions>>

\* Mutant of CreateTemp: a name that is taken is opened all the same.
CreateTempMutant(p) ==
    /\ proc[p].at = "create"
    /\ \E x \in Names :
        /\ temps' = [y \in DOMAIN temps \cup {x} |->
                IF y = x THEN [data |-> Partial, synced |-> FALSE] ELSE temps[y]]
        /\ proc' = [proc EXCEPT ![p].at = "chmod", ![p].tmp = x]
    /\ UNCHANGED <<path, onDisk, orphans, sessions>>

\* A name that is taken is not opened but tried again, up to a limit.
CreateTemp(p) ==
    /\ proc[p].at = "create"
    /\ \E x \in Names \ DOMAIN temps :
        /\ temps' = [y \in DOMAIN temps \cup {x} |->
                IF y = x THEN [data |-> Partial, synced |-> FALSE] ELSE temps[y]]
        /\ proc' = [proc EXCEPT ![p].at = "chmod", ![p].tmp = x]
    /\ UNCHANGED <<path, onDisk, orphans, sessions>>

CreateTempFails(p) ==
    /\ proc[p].at = "create"
    /\ Ends(p, "error")
    /\ UNCHANGED <<path, onDisk, temps, orphans, sessions>>

\* The mode of the file at the path is copied if there is one.
Chmod(p) ==
    /\ Goes(p, "chmod", "encode")
    /\ UNCHANGED <<path, onDisk, temps, orphans, sessions>>

\* Encode writes to the temporary file, or to the writer itself.
Encode(p) ==
    /\ proc[p].at = "encode"
    /\ IF proc[p].sink = "path"
       THEN /\ temps' = [temps EXCEPT ![proc[p].tmp].data = Version(proc[p].n)]
            /\ proc' = [proc EXCEPT ![p].at = "sync"]
       ELSE /\ proc' = [proc EXCEPT ![p] =
                [@ EXCEPT !.at = "idle", !.written = Version(proc[p].n), !.result = "ok"]]
            /\ UNCHANGED temps
    /\ UNCHANGED <<path, onDisk, orphans, sessions>>

EncodeToWriterFails(p) ==
    /\ proc[p].at = "encode"
    /\ proc[p].sink = "writer"
    /\ \E data \in {Absent, Partial} :
        proc' = [proc EXCEPT ![p] =
            [@ EXCEPT !.at = "idle", !.written = data, !.result = "error"]]
    /\ UNCHANGED <<path, onDisk, temps, orphans, sessions>>

\* Mutant of Sync: the file is not synced.
SyncMutant(p) ==
    /\ Goes(p, "sync", "close")
    /\ UNCHANGED <<path, onDisk, temps, orphans, sessions>>

Sync(p) ==
    /\ Goes(p, "sync", "close")
    /\ temps' = [temps EXCEPT ![proc[p].tmp].synced = TRUE]
    /\ UNCHANGED <<path, onDisk, orphans, sessions>>

CloseTemp(p) ==
    /\ Goes(p, "close", IF proc[p].cfb THEN "closecfb" ELSE "rename")
    /\ UNCHANGED <<path, onDisk, temps, orphans, sessions>>

CloseCFB(p) ==
    /\ proc[p].at = "closecfb"
    /\ proc' = [proc EXCEPT ![p].at = "rename", ![p].cfb = FALSE]
    /\ UNCHANGED <<path, onDisk, temps, orphans, sessions>>

\* What a power failure makes of a temporary file.
Survives(x) == IF temps[x].synced THEN temps[x].data ELSE Partial

\* Programs see the new file at once.  Until the directory is written, a power
\* failure may bring the old one back.
Rename(p) ==
    LET x == proc[p].tmp IN
    /\ proc[p].at = "rename"
    /\ path' = temps[x].data
    /\ onDisk' = onDisk \cup {Survives(x)}
    /\ temps' = [y \in DOMAIN temps \ {x} |-> temps[y]]
    /\ proc' = [proc EXCEPT ![p] =
            [@ EXCEPT !.at = "idle", !.tmp = NoName, !.installed = TRUE, !.result = "ok"]]
    /\ UNCHANGED <<orphans, sessions>>

\* Any step after CreateTemp may fail.
StepFails(p) ==
    /\ proc[p].at \in {"chmod", "encode", "sync", "close", "closecfb", "rename"}
    /\ proc[p].sink = "path"
    /\ Goes(p, proc[p].at, "remove")
    /\ UNCHANGED <<path, onDisk, temps, orphans, sessions>>

\* Mutant of RemoveTemp: the temporary file is left behind.
RemoveTempMutant(p) ==
    /\ proc[p].at = "remove"
    /\ Ends(p, "error")
    /\ UNCHANGED <<path, onDisk, temps, orphans, sessions>>

\* Mutant of RemoveTemp: the result of the removal replaces the error.
RemoveTempOverwritesError(p) ==
    /\ proc[p].at = "remove"
    /\ temps' = [y \in DOMAIN temps \ {proc[p].tmp} |-> temps[y]]
    /\ proc' = [proc EXCEPT ![p] =
            [@ EXCEPT !.at = "idle", !.tmp = NoName, !.cfb = FALSE, !.result = "ok"]]
    /\ UNCHANGED <<path, onDisk, orphans, sessions>>

\* The deferred function closes and removes the file and keeps the error.
RemoveTemp(p) ==
    /\ proc[p].at = "remove"
    /\ temps' = [y \in DOMAIN temps \ {proc[p].tmp} |-> temps[y]]
    /\ proc' = [proc EXCEPT ![p] =
            [@ EXCEPT !.at = "idle", !.tmp = NoName, !.cfb = FALSE, !.result = "error"]]
    /\ UNCHANGED <<path, onDisk, orphans, sessions>>

\* The error of the removal is ignored: the file stays.
RemoveTempFails(p) ==
    /\ proc[p].at = "remove"
    /\ orphans' = orphans \cup {proc[p].tmp}
    /\ proc' = [proc EXCEPT ![p] =
            [@ EXCEPT !.at = "idle", !.tmp = NoName, !.cfb = FALSE, !.result = "error"]]
    /\ UNCHANGED <<path, onDisk, temps, sessions>>

-----------------------------------------------------------------------------
(***************************************************************************)
(* The world around it.                                                    *)
(***************************************************************************)

\* A killed process leaves its temporary file.
Kill(p) ==
    /\ proc[p].at # "idle"
    /\ orphans' = orphans \cup ({proc[p].tmp} \ {NoName})
    /\ proc' = [proc EXCEPT ![p] = Idle]
    /\ UNCHANGED <<path, onDisk, temps, sessions>>

\* The directory with the last rename reaches the disk.
DirectoryWritten ==
    /\ path \in onDisk
    /\ onDisk' = {path}
    /\ UNCHANGED <<path, temps, orphans, sessions, proc>>

PowerFails ==
    /\ \E content \in onDisk :
        /\ path' = content
        /\ onDisk' = {content}
    /\ temps' = [x \in DOMAIN temps |-> [data |-> Survives(x), synced |-> TRUE]]
    /\ orphans' = DOMAIN temps
    /\ proc' = [p \in Procs |-> Idle]
    /\ UNCHANGED sessions

Next ==
    \/ \E p \in Procs :
        \/ Open(p) \/ Create(p) \/ New(p) \/ Edit(p)
        \/ CloseClean(p) \/ CloseDirty(p)
        \/ CreateTemp(p) \/ CreateTempFails(p) \/ Chmod(p)
        \/ Encode(p) \/ EncodeToWriterFails(p)
        \/ Sync(p) \/ CloseTemp(p) \/ CloseCFB(p) \/ Rename(p)
        \/ StepFails(p) \/ RemoveTemp(p) \/ RemoveTempFails(p) \/ Kill(p)
    \/ DirectoryWritten
    \/ PowerFails

Spec == Init /\ [][Next]_vars

-----------------------------------------------------------------------------
(***************************************************************************)
(* Properties.                                                             *)
(***************************************************************************)

\* The types; the temporary file of a Close in progress exists.
TypeOK ==
    /\ path \in Nat
    /\ onDisk \subseteq Nat /\ onDisk # {}
    /\ orphans \subseteq DOMAIN temps /\ DOMAIN temps \subseteq Names
    /\ \A p \in Procs : proc[p].tmp \in DOMAIN temps \cup {NoName}

\* At every moment, whatever failed, was killed or lost its power, the path
\* holds nothing (if it never did) or a complete database: the old one or a
\* new one, of one process.
PathIsComplete == \A content \in onDisk \cup {path} : content # Partial

\* A Close that returns without an error has written the session's changes in
\* full; one that returns an error has left the path alone.
ResultIsTrue ==
    \A p \in Procs : proc[p].at = "idle" =>
        /\ proc[p].result = "ok" /\ proc[p].dirty =>
            IF proc[p].sink = "path" THEN proc[p].installed
                                     ELSE proc[p].written = Version(proc[p].n)
        /\ proc[p].result = "error" => ~proc[p].installed

\* Every temporary file belongs to one Close in progress, was left by a killed
\* process or could not be removed: no two processes write to the same one, and
\* a Close that returns, with or without an error, leaves none unless the system
\* refused to remove it.
TempsArePrivate ==
    \A x \in DOMAIN temps \ orphans :
        /\ \E p \in Procs : proc[p].tmp = x /\ proc[p].at # "idle"
        /\ \A p, q \in Procs : proc[p].tmp = x /\ proc[q].tmp = x => p = q

\* The path changes only by a finished Close of a session with changes, or by
\* a power failure that brings back what it held before.
PathChangesByClose ==
    [][path' # path =>
        \/ path' \in onDisk
        \/ \E p \in Procs : proc[p].dirty /\ path' = Version(proc[p].n)
                            /\ proc'[p].result = "ok"]_vars
=============================================================================
