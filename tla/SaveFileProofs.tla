--------------------------- MODULE SaveFileProofs ----------------------------
(***************************************************************************)
(* Saving, for any number of processes, sessions and temporary names.  One *)
(* inductive invariant: while a Close writes, its temporary file is there, *)
(* is its own and holds what the step it has reached says.                 *)
(***************************************************************************)
EXTENDS SaveFile, TLAPS

\* The steps of a save to the path at which there is a temporary file.
AfterSync == {"close", "closecfb", "rename"}
Writing == {"chmod", "encode", "sync", "remove"} \cup AfterSync

Session ==
    [at: {"idle", "open", "create"} \cup Writing, n: Nat, sink: {"path", "writer"},
     dirty: BOOLEAN, cfb: BOOLEAN, tmp: Names \cup {NoName}, written: Nat,
     installed: BOOLEAN, result: {"none", "ok", "error"}]

PathTypes == path \in Nat /\ onDisk \subseteq Nat /\ onDisk # {} /\ sessions \in Nat

File == [data: Nat, synced: BOOLEAN]

TempTypes ==
    /\ orphans \subseteq DOMAIN temps /\ DOMAIN temps \subseteq Names
    /\ temps \in [DOMAIN temps -> File]

\* The temporary files of sessions in progress.
Live == DOMAIN temps \ orphans

\* A session has a temporary file exactly while it writes one.
HasTemp(s) ==
    /\ s.tmp # NoName <=> s.at \in Writing /\ s.sink = "path"
    /\ s.at \in {"create"} \cup (Writing \ {"encode"}) => s.sink = "path"
    /\ s.tmp # NoName => s.tmp \in Live

\* A save in progress has something to save and has not yet saved it.
NotYetInstalled(s) ==
    /\ s.at # "idle" => ~s.installed /\ s.n # 0
    /\ s.at \notin {"idle", "open"} => s.dirty

\* What is renamed was written in full and synced before.
WrittenInOrder(s) ==
    /\ s.at \in {"sync"} \cup AfterSync => temps[s.tmp].data = Version(s.n)
    /\ s.at \in AfterSync => temps[s.tmp].synced

Truthful(s) ==
    s.at = "idle" =>
        /\ s.result = "ok" /\ s.dirty =>
            IF s.sink = "path" THEN s.installed ELSE s.written = Version(s.n)
        /\ s.result = "error" => ~s.installed

SessionInv(s) == HasTemp(s) /\ NotYetInstalled(s) /\ WrittenInOrder(s) /\ Truthful(s)

\* No two sessions share a temporary file, and none is nobody's.
OwnTemps ==
    /\ \A p, q \in Procs : proc[p].tmp = proc[q].tmp /\ proc[p].tmp # NoName => p = q
    /\ \A x \in Live : \E p \in Procs : proc[p].tmp = x

SaveInv ==
    /\ PathTypes /\ TempTypes /\ proc \in [Procs -> Session]
    /\ \A p \in Procs : SessionInv(proc[p])
    /\ OwnTemps
    /\ PathIsComplete

\* A session that saves nothing is in order.
LEMMA IdleSession ==
    /\ Idle \in Session
    /\ Idle.at = "idle" /\ Idle.tmp = NoName /\ Idle.result = "none"
    /\ Idle.installed = FALSE
    /\ SessionInv(Idle) /\ SessionInv(Idle)'
BY DEF Idle, Session, SessionInv, HasTemp, NotYetInstalled, WrittenInOrder, Truthful,
       Writing, AfterSync, Absent

\* The file is complete at first.
LEMMA SaveInit == Init => SaveInv
<1> SUFFICES ASSUME Init PROVE SaveInv
  OBVIOUS
<1>1. /\ path \in {0, 1} /\ onDisk = {path} /\ DOMAIN temps = {} /\ orphans = {}
      /\ temps \in [{} -> File]
      /\ sessions = 0
      /\ proc \in [Procs -> Session]
      /\ \A p \in Procs : proc[p] = Idle
  BY IdleSession DEF Init, Absent, Initial, File
<1>2. PathTypes /\ TempTypes /\ PathIsComplete
  BY <1>1 DEF PathTypes, TempTypes, PathIsComplete, Partial
<1>3. \A p \in Procs : SessionInv(proc[p])
  BY <1>1, IdleSession
<1>4. OwnTemps
  BY <1>1, IdleSession DEF OwnTemps, Live
<1>. QED  BY <1>1, <1>2, <1>3, <1>4 DEF SaveInv

-----------------------------------------------------------------------------
\* A step of one process keeps the invariant if it leaves the others' files
\* alone, and its own session is sound where it ends.
LEMMA ProcessStep ==
    ASSUME SaveInv, NEW p \in Procs, NEW s \in Session, proc' = [proc EXCEPT ![p] = s],
           PathTypes', TempTypes', PathIsComplete', SessionInv(s)',
           \A x \in Live : x # proc[p].tmp => x \in Live' /\ temps'[x] = temps[x],
           \A x \in Live' : x # s.tmp => x \in Live /\ x # proc[p].tmp,
           s.tmp \in {NoName, proc[p].tmp} \/ s.tmp \notin Live
    PROVE  SaveInv'
<1>1. /\ proc' \in [Procs -> Session]
      /\ proc'[p] = s
      /\ \A q \in Procs : q # p => proc'[q] = proc[q]
  BY DEF SaveInv
<1>2. \A q \in Procs : q # p /\ proc[q].tmp # NoName =>
        proc[q].tmp \in Live /\ proc[q].tmp # proc[p].tmp
  BY DEF SaveInv, OwnTemps, SessionInv, HasTemp
<1>3. ASSUME NEW q \in Procs, q # p PROVE SessionInv(proc[q])'
  <2>1. SessionInv(proc[q]) /\ proc'[q] = proc[q] /\ proc[q] \in Session
    BY <1>1, <1>3 DEF SaveInv
  <2>2. proc[q].tmp # NoName =>
            proc[q].tmp \in Live' /\ temps'[proc[q].tmp] = temps[proc[q].tmp]
    BY <1>2, <1>3
  <2>3. proc[q].at \in {"sync"} \cup AfterSync => proc[q].tmp # NoName
    BY <2>1 DEF SessionInv, HasTemp, Writing, AfterSync
  <2>. QED
    BY <2>1, <2>2, <2>3
       DEF SessionInv, HasTemp, NotYetInstalled, WrittenInOrder, Truthful, AfterSync
<1>4. OwnTemps'
  <2>1. \A q \in Procs : q # p /\ proc[q].tmp # NoName => proc[q].tmp # s.tmp
    BY <1>2
  <2>2. \A q, r \in Procs : proc'[q].tmp = proc'[r].tmp /\ proc'[q].tmp # NoName => q = r
    BY <1>1, <2>1 DEF SaveInv, OwnTemps
  <2>3. ASSUME NEW x \in Live' PROVE \E q \in Procs : proc'[q].tmp = x
    <3>1. CASE x = s.tmp
      BY <1>1, <3>1
    <3>2. CASE x # s.tmp
      BY <1>1, <3>2 DEF SaveInv, OwnTemps
    <3>. QED  BY <3>1, <3>2
  <2>. QED  BY <2>2, <2>3 DEF OwnTemps
<1>. QED  BY <1>1, <1>3, <1>4 DEF SaveInv

\* A step that touches no file and no path.
LEMMA QuietStep ==
    ASSUME SaveInv, NEW p \in Procs, NEW s \in Session, proc' = [proc EXCEPT ![p] = s],
           UNCHANGED <<path, onDisk, temps, orphans>>, sessions' \in Nat,
           s.tmp = proc[p].tmp, SessionInv(s)
    PROVE  SaveInv'
<1>1. PathTypes' /\ TempTypes' /\ PathIsComplete'
  BY DEF SaveInv, PathTypes, TempTypes, PathIsComplete
<1>2. Live' = Live /\ SessionInv(s)'
  BY DEF Live, SessionInv, HasTemp, NotYetInstalled, WrittenInOrder, Truthful
<1>. QED  BY <1>1, <1>2, ProcessStep

\* A session that begins changes no file.
LEMMA BeginStep ==
    ASSUME SaveInv, NEW p \in Procs, NEW sink \in {"path", "writer"},
           NEW dirty \in BOOLEAN, NEW cfb \in BOOLEAN, Begin(p, sink, dirty, cfb)
    PROVE  SaveInv'
<1>1. sessions \in Nat /\ proc[p] \in Session /\ HasTemp(proc[p])
  BY DEF SaveInv, PathTypes, SessionInv
<1> DEFINE q == [Idle EXCEPT !.at = "open"]
           r == [q EXCEPT !.n = sessions + 1]
           s == [r EXCEPT !.sink = sink, !.dirty = dirty, !.cfb = cfb]
<1>2. r \in Session /\ r.at = "open" /\ r.tmp = NoName /\ ~r.installed /\ r.n # 0
  <2>1. Idle \in Session /\ Idle.tmp = NoName /\ Idle.installed = FALSE
    BY IdleSession
  <2>2. q \in Session /\ q.at = "open" /\ q.tmp = NoName /\ q.installed = FALSE
    BY <2>1 DEF Session
  <2> HIDE DEF q
  <2>. QED  BY <1>1, <2>2 DEF Session
<1>3. [Idle EXCEPT !.at = "open", !.n = sessions + 1, !.sink = sink, !.dirty = dirty,
                   !.cfb = cfb] = s
  OBVIOUS
<1>4. proc' = [proc EXCEPT ![p] = s] /\ sessions' \in Nat
      /\ UNCHANGED <<path, onDisk, temps, orphans>>
  BY <1>1, <1>3 DEF Begin
<1> HIDE DEF q, r
<1>5. s \in Session /\ s.at = "open" /\ s.tmp = NoName /\ ~s.installed /\ s.n # 0
  BY <1>2 DEF Session
<1> HIDE DEF s
<1>6. SessionInv(s)
  BY <1>5 DEF SessionInv, HasTemp, NotYetInstalled, WrittenInOrder, Truthful, Writing, AfterSync
<1>7. proc[p].tmp = NoName
  BY <1>1 DEF Begin, HasTemp, Writing, AfterSync
<1>. QED  BY <1>4, <1>5, <1>6, <1>7, QuietStep

\* The steps that change nothing but where the session is.
LEMMA SessionStep ==
    ASSUME SaveInv, NEW p \in Procs,
           \/ Edit(p) \/ CloseClean(p) \/ CloseDirty(p) \/ CreateTempFails(p) \/ Chmod(p)
           \/ EncodeToWriterFails(p) \/ CloseTemp(p) \/ CloseCFB(p) \/ StepFails(p)
    PROVE  SaveInv'
<1>0. proc[p] \in Session /\ SessionInv(proc[p]) /\ sessions \in Nat
  BY DEF SaveInv, PathTypes
<1> USE DEF Session, SessionInv, HasTemp, NotYetInstalled, WrittenInOrder, Truthful,
            Writing, AfterSync
<1>1. CASE Edit(p)
  <2> DEFINE s == [proc[p] EXCEPT !.dirty = TRUE]
  <2>1. proc' = [proc EXCEPT ![p] = s] /\ UNCHANGED <<path, onDisk, temps, orphans, sessions>>
    BY <1>1 DEF Edit
  <2>2. s \in Session /\ s.tmp = proc[p].tmp /\ SessionInv(s)
    BY <1>0, <1>1 DEF Edit
  <2>. QED  BY <1>0, <2>1, <2>2, QuietStep
<1>2. CASE CloseClean(p)
  <2> DEFINE s == [proc[p] EXCEPT !.at = "idle", !.cfb = FALSE, !.result = "ok"]
  <2>1. proc' = [proc EXCEPT ![p] = s] /\ UNCHANGED <<path, onDisk, temps, orphans, sessions>>
    BY <1>2 DEF CloseClean, Ends
  <2>2. s \in Session /\ s.tmp = proc[p].tmp /\ SessionInv(s)
    BY <1>0, <1>2 DEF CloseClean, Ends
  <2>. QED  BY <1>0, <2>1, <2>2, QuietStep
<1>3. CASE CloseDirty(p)
  <2> DEFINE s == [proc[p] EXCEPT !.at = IF proc[p].sink = "path" THEN "create" ELSE "encode"]
  <2>1. proc' = [proc EXCEPT ![p] = s] /\ UNCHANGED <<path, onDisk, temps, orphans, sessions>>
    BY <1>3 DEF CloseDirty, Goes
  <2>2. s \in Session /\ s.tmp = proc[p].tmp /\ SessionInv(s)
    BY <1>0, <1>3 DEF CloseDirty, Goes
  <2>. QED  BY <1>0, <2>1, <2>2, QuietStep, ZenonT(30)
<1>4. CASE CreateTempFails(p)
  <2> DEFINE s == [proc[p] EXCEPT !.at = "idle", !.cfb = FALSE, !.result = "error"]
  <2>1. proc' = [proc EXCEPT ![p] = s] /\ UNCHANGED <<path, onDisk, temps, orphans, sessions>>
    BY <1>4 DEF CreateTempFails, Ends
  <2>2. s \in Session /\ s.tmp = proc[p].tmp /\ SessionInv(s)
    BY <1>0, <1>4 DEF CreateTempFails, Ends
  <2>. QED  BY <1>0, <2>1, <2>2, QuietStep
<1>5. CASE Chmod(p)
  <2> DEFINE s == [proc[p] EXCEPT !.at = "encode"]
  <2>1. proc' = [proc EXCEPT ![p] = s] /\ UNCHANGED <<path, onDisk, temps, orphans, sessions>>
    BY <1>5 DEF Chmod, Goes
  <2>2. s \in Session /\ s.tmp = proc[p].tmp /\ SessionInv(s)
    BY <1>0, <1>5 DEF Chmod, Goes
  <2>. QED  BY <1>0, <2>1, <2>2, QuietStep
<1>6. CASE CloseTemp(p)
  <2> DEFINE s == [proc[p] EXCEPT !.at = IF proc[p].cfb THEN "closecfb" ELSE "rename"]
  <2>1. proc' = [proc EXCEPT ![p] = s] /\ UNCHANGED <<path, onDisk, temps, orphans, sessions>>
    BY <1>6 DEF CloseTemp, Goes
  <2>2. s \in Session /\ s.tmp = proc[p].tmp /\ SessionInv(s)
    BY <1>0, <1>6 DEF CloseTemp, Goes
  <2>. QED  BY <1>0, <2>1, <2>2, QuietStep
<1>7. CASE CloseCFB(p)
  <2> DEFINE s == [proc[p] EXCEPT !.at = "rename", !.cfb = FALSE]
  <2>1. proc' = [proc EXCEPT ![p] = s] /\ UNCHANGED <<path, onDisk, temps, orphans, sessions>>
    BY <1>7 DEF CloseCFB
  <2>2. s \in Session /\ s.tmp = proc[p].tmp /\ SessionInv(s)
    BY <1>0, <1>7 DEF CloseCFB
  <2>. QED  BY <1>0, <2>1, <2>2, QuietStep
<1>8. CASE StepFails(p)
  <2> DEFINE s == [proc[p] EXCEPT !.at = "remove"]
  <2>1. proc' = [proc EXCEPT ![p] = s] /\ UNCHANGED <<path, onDisk, temps, orphans, sessions>>
    BY <1>8 DEF StepFails, Goes
  <2>2. s \in Session /\ s.tmp = proc[p].tmp /\ SessionInv(s)
    BY <1>0, <1>8 DEF StepFails, Goes
  <2>. QED  BY <1>0, <2>1, <2>2, QuietStep
<1>9. CASE EncodeToWriterFails(p)
  <2>1. PICK data \in {Absent, Partial} : proc' = [proc EXCEPT ![p] =
            [proc[p] EXCEPT !.at = "idle", !.written = data, !.result = "error"]]
    BY <1>9 DEF EncodeToWriterFails
  <2> DEFINE s == [proc[p] EXCEPT !.at = "idle", !.written = data, !.result = "error"]
  <2>2. proc[p].at = "encode" /\ proc[p].sink = "writer"
    BY <1>9 DEF EncodeToWriterFails
  <2>6. data \in Nat
    BY DEF Absent, Partial
  <2>4. s \in Session /\ s.at = "idle" /\ s.tmp = proc[p].tmp /\ s.result = "error"
        /\ s.installed = proc[p].installed /\ s.sink = "writer"
    BY <1>0, <2>2, <2>6
  <2>5. SessionInv(s)
    BY <1>0, <2>2, <2>4
  <2>3. UNCHANGED <<path, onDisk, temps, orphans, sessions>>
    BY <1>9 DEF EncodeToWriterFails
  <2>. QED  BY <1>0, <2>1, <2>3, <2>4, <2>5, QuietStep
<1>. QED  BY <1>1, <1>2, <1>3, <1>4, <1>5, <1>6, <1>7, <1>8, <1>9

-----------------------------------------------------------------------------
(***************************************************************************)
(* The steps on files.                                                     *)
(***************************************************************************)

\* A temporary file is created under a name of its own.
LEMMA CreateTempStep == ASSUME SaveInv, NEW p \in Procs, CreateTemp(p) PROVE SaveInv'
<1>1. /\ proc[p] \in Session /\ SessionInv(proc[p]) /\ PathTypes /\ TempTypes
      /\ PathIsComplete
  BY DEF SaveInv
<1>2. proc[p].at = "create" /\ UNCHANGED <<path, onDisk, orphans, sessions>>
  BY DEF CreateTemp
<1>3. PICK x \in Names \ DOMAIN temps :
        /\ temps' = [y \in DOMAIN temps \cup {x} |->
                IF y = x THEN [data |-> Partial, synced |-> FALSE] ELSE temps[y]]
        /\ proc' = [proc EXCEPT ![p].at = "chmod", ![p].tmp = x]
  BY DEF CreateTemp
<1>4. PICK s \in Session : s = [proc[p] EXCEPT !.at = "chmod", !.tmp = x]
  BY <1>1 DEF Session, Writing
<1>5. proc' = [proc EXCEPT ![p] = s]
  BY <1>3, <1>4
<1>6. /\ s.at = "chmod" /\ s.tmp = x /\ s.sink = "path" /\ s.n # 0 /\ s.dirty /\ ~s.installed
      /\ proc[p].tmp = NoName
  BY <1>1, <1>2, <1>4
     DEF Session, SessionInv, HasTemp, NotYetInstalled, Writing, AfterSync, CreateTemp
<1>7. /\ DOMAIN temps' = DOMAIN temps \cup {x}
      /\ temps' \in [DOMAIN temps' -> File]
      /\ \A y \in DOMAIN temps : temps'[y] = temps[y]
  <2>1. DOMAIN temps' = DOMAIN temps \cup {x} /\ \A y \in DOMAIN temps : temps'[y] = temps[y]
    BY <1>3
  <2>2. [data |-> Partial, synced |-> FALSE] \in File
    BY DEF Partial, File
  <2>3. \A y \in DOMAIN temps : temps[y] \in File
    BY <1>1 DEF TempTypes
  <2>. QED  BY <1>3, <2>1, <2>2, <2>3
<1>8. Live' = Live \cup {x} /\ x \notin Live /\ x # NoName
  BY <1>1, <1>2, <1>7, SaveFileAssumption DEF Live, TempTypes
<1>9. PathTypes' /\ PathIsComplete'
  BY <1>1, <1>2 DEF PathTypes, PathIsComplete
<1>10. TempTypes'
  BY <1>1, <1>2, <1>7 DEF TempTypes
<1>11. /\ \A y \in Live : y \in Live' /\ temps'[y] = temps[y]
       /\ \A y \in Live' : y # x => y \in Live
       /\ NoName \notin Live
  BY <1>1, <1>7, <1>8, SaveFileAssumption DEF Live, TempTypes
<1>12. SessionInv(s)'
  BY <1>6, <1>8
     DEF SessionInv, HasTemp, NotYetInstalled, WrittenInOrder, Truthful, Writing, AfterSync
<1>. QED  BY <1>5, <1>6, <1>8, <1>9, <1>10, <1>11, <1>12, ProcessStep, ZenonT(30)


\* A step that writes the session's own temporary file.
LEMMA WriteStep ==
    ASSUME SaveInv, NEW p \in Procs, NEW s \in Session, NEW x \in Live, NEW f \in File,
           proc' = [proc EXCEPT ![p] = s], temps' = [temps EXCEPT ![x] = f],
           UNCHANGED <<path, onDisk, orphans, sessions>>,
           proc[p].tmp = x, s.tmp = x, SessionInv(s)'
    PROVE  SaveInv'
<1>1. PathTypes /\ TempTypes /\ PathIsComplete /\ x \in DOMAIN temps
  BY DEF SaveInv, Live
<1>2. /\ DOMAIN temps' = DOMAIN temps /\ Live' = Live
      /\ \A y \in DOMAIN temps : y # x => temps'[y] = temps[y]
  BY DEF Live
<1>3. PathTypes' /\ TempTypes' /\ PathIsComplete'
  BY <1>1 DEF PathTypes, TempTypes, PathIsComplete
<1>4. /\ \A y \in Live : y # x => y \in Live' /\ temps'[y] = temps[y]
      /\ \A y \in Live' : y # x => y \in Live
  BY <1>2 DEF Live
<1>. QED  BY <1>3, <1>4, ProcessStep

\* A step after which the session has no temporary file any more.
LEMMA UnlinkStep ==
    ASSUME SaveInv, NEW p \in Procs, NEW s \in Session, NEW x \in Live,
           proc' = [proc EXCEPT ![p] = s],
           temps' = [y \in DOMAIN temps \ {x} |-> temps[y]], UNCHANGED orphans,
           PathTypes', PathIsComplete',
           proc[p].tmp = x, s.tmp = NoName, SessionInv(s)'
    PROVE  SaveInv'
<1>1. TempTypes /\ x \in DOMAIN temps /\ x \notin orphans
  BY DEF SaveInv, Live
<1>2. /\ DOMAIN temps' = DOMAIN temps \ {x} /\ Live' = Live \ {x}
      /\ \A y \in Live : y # x => temps'[y] = temps[y]
  BY DEF Live
<1>3. TempTypes'
  BY <1>1 DEF TempTypes
<1>. QED  BY <1>2, <1>3, ProcessStep

\* Encoding writes only to the temporary file or to the caller's writer.
LEMMA EncodeStep == ASSUME SaveInv, NEW p \in Procs, Encode(p) PROVE SaveInv'
<1>1. /\ proc[p] \in Session /\ SessionInv(proc[p]) /\ PathTypes /\ TempTypes
      /\ PathIsComplete
  BY DEF SaveInv
<1>2. /\ proc[p].at = "encode" /\ Version(proc[p].n) \in Nat
      /\ UNCHANGED <<path, onDisk, orphans, sessions>>
  BY <1>1 DEF Encode, Version, Session
<1>3. CASE proc[p].sink = "path"
  <2> DEFINE x == proc[p].tmp
  <2>1. x \in Live /\ x # NoName /\ proc[p].n # 0 /\ proc[p].dirty
        /\ proc[p].installed = FALSE
    BY <1>1, <1>2, <1>3 DEF SessionInv, HasTemp, NotYetInstalled, Writing, Session
  <2>2. /\ temps' = [temps EXCEPT ![x].data = Version(proc[p].n)]
        /\ proc' = [proc EXCEPT ![p].at = "sync"]
    BY <1>3 DEF Encode
  <2>3. PICK s \in Session : s = [proc[p] EXCEPT !.at = "sync"]
    BY <1>1 DEF Session, Writing
  <2>4. proc' = [proc EXCEPT ![p] = s]
    BY <2>2, <2>3
  <2>5. /\ s.at = "sync" /\ s.tmp = x /\ s.sink = "path" /\ s.n = proc[p].n /\ s.dirty
        /\ ~s.installed
    BY <1>1, <1>3, <2>1, <2>3 DEF Session
  <2>6. PICK y \in Live : y = x
    BY <2>1
  <2>7. PICK f \in File : f = [temps[y] EXCEPT !.data = Version(s.n)]
    BY <1>1, <1>2, <2>5 DEF TempTypes, Live, File
  <2>8. temps' = [temps EXCEPT ![y] = f] /\ f.data = Version(s.n) /\ y \in Live'
    BY <1>1, <1>2, <2>2, <2>5, <2>6, <2>7 DEF Live, TempTypes, File
  <2>9. SessionInv(s)'
    BY <2>1, <2>5, <2>6, <2>8, <1>1
       DEF SessionInv, HasTemp, NotYetInstalled, WrittenInOrder, Truthful, Writing, AfterSync,
           Live
  <2>. QED  BY <1>2, <2>4, <2>5, <2>6, <2>8, <2>9, WriteStep
<1>4. CASE proc[p].sink = "writer"
  <2>1. proc' = [proc EXCEPT ![p] = [proc[p] EXCEPT !.at = "idle",
                    !.written = Version(proc[p].n), !.result = "ok"]]
    BY <1>2, <1>4 DEF Encode
  <2>2. UNCHANGED temps
    BY <1>4 DEF Encode
  <2>3. PICK s \in Session : s = [proc[p] EXCEPT !.at = "idle",
                    !.written = Version(proc[p].n), !.result = "ok"]
    BY <1>1, <1>2 DEF Session
  <2>4. /\ s.at = "idle" /\ s.tmp = proc[p].tmp /\ s.sink = "writer" /\ s.result = "ok"
        /\ s.written = Version(s.n)
    BY <1>1, <1>4, <2>3 DEF Session
  <2>5. SessionInv(s)
    BY <1>1, <1>2, <1>4, <2>4
       DEF SessionInv, HasTemp, NotYetInstalled, WrittenInOrder, Truthful, Writing, AfterSync
  <2>. QED  BY <1>1, <1>2, <2>1, <2>2, <2>3, <2>4, <2>5, QuietStep DEF PathTypes
<1>. QED  BY <1>1, <1>3, <1>4 DEF Session


\* Syncing makes the temporary file durable.
LEMMA SyncStep == ASSUME SaveInv, NEW p \in Procs, Sync(p) PROVE SaveInv'
<1>1. proc[p] \in Session /\ SessionInv(proc[p]) /\ TempTypes
  BY DEF SaveInv
<1>2. /\ proc[p].at = "sync" /\ UNCHANGED <<path, onDisk, orphans, sessions>>
      /\ temps' = [temps EXCEPT ![proc[p].tmp].synced = TRUE]
      /\ proc' = [proc EXCEPT ![p].at = "close"]
  BY DEF Sync, Goes
<1>3. PICK x \in Live : x = proc[p].tmp
  BY <1>1, <1>2 DEF SessionInv, HasTemp, Writing
<1>4. /\ x # NoName /\ proc[p].sink = "path" /\ proc[p].n # 0 /\ proc[p].dirty
      /\ ~proc[p].installed /\ temps[x].data = Version(proc[p].n)
  BY <1>1, <1>2, <1>3
     DEF SessionInv, HasTemp, NotYetInstalled, WrittenInOrder, Writing, Session
<1>5. PICK s \in Session : s = [proc[p] EXCEPT !.at = "close"]
  BY <1>1 DEF Session, Writing, AfterSync
<1>6. /\ proc' = [proc EXCEPT ![p] = s]
      /\ s.at = "close" /\ s.tmp = x /\ s.sink = "path" /\ s.n # 0 /\ s.dirty
      /\ ~s.installed /\ temps[x].data = Version(s.n)
  BY <1>1, <1>2, <1>3, <1>4, <1>5 DEF Session
<1>7. temps[x] \in File
  BY <1>1 DEF TempTypes, Live
<1>8. PICK f \in File : f = [temps[x] EXCEPT !.synced = TRUE]
  BY <1>7 DEF File
<1>9. temps' = [temps EXCEPT ![x] = f] /\ f.data = Version(s.n) /\ f.synced
  BY <1>2, <1>3, <1>6, <1>7, <1>8 DEF File
<1>10. x \in Live' /\ temps'[x] = f
  BY <1>2, <1>9 DEF Live
<1>11. SessionInv(s)'
  BY <1>4, <1>6, <1>9, <1>10
     DEF SessionInv, HasTemp, NotYetInstalled, WrittenInOrder, Truthful, Writing, AfterSync
<1>12. UNCHANGED <<path, onDisk, orphans, sessions>> /\ proc[p].tmp = x
  BY <1>2, <1>3
<1>. QED  BY <1>6, <1>9, <1>11, <1>12, WriteStep

\* The file that replaces the one at the path is complete and synced.
LEMMA RenameEffect ==
    ASSUME SaveInv, NEW p \in Procs, Rename(p)
    PROVE  /\ proc[p].tmp \in Live
           /\ proc[p].n # 0 /\ proc[p].dirty /\ proc[p].sink = "path"
           /\ path' = Version(proc[p].n)
           /\ onDisk' = onDisk \cup {Version(proc[p].n)}
           /\ proc'[p].result = "ok"
<1>1. proc[p] \in Session /\ SessionInv(proc[p])
  BY DEF SaveInv
<1>2. /\ proc[p].at = "rename" /\ path' = temps[proc[p].tmp].data
      /\ onDisk' = onDisk \cup {Survives(proc[p].tmp)}
      /\ proc' = [proc EXCEPT ![p] = [proc[p] EXCEPT !.at = "idle", !.tmp = NoName,
                                          !.installed = TRUE, !.result = "ok"]]
  BY DEF Rename
<1>3. /\ proc[p].tmp \in Live /\ proc[p].n # 0 /\ proc[p].dirty /\ proc[p].sink = "path"
      /\ temps[proc[p].tmp].data = Version(proc[p].n) /\ temps[proc[p].tmp].synced
  BY <1>1, <1>2 DEF SessionInv, HasTemp, NotYetInstalled, WrittenInOrder, Writing, AfterSync
<1>4. proc'[p].result = "ok"
  BY <1>1, <1>2 DEF Session, SaveInv
<1>. QED  BY <1>2, <1>3, <1>4 DEF Survives

\* The rename installs a complete file.
LEMMA RenameStep == ASSUME SaveInv, NEW p \in Procs, Rename(p) PROVE SaveInv'
<1>1. proc[p] \in Session /\ PathTypes /\ PathIsComplete
  BY DEF SaveInv
<1>2. PICK x \in Live : x = proc[p].tmp
  BY RenameEffect
<1>3. PICK s \in Session : s = [proc[p] EXCEPT !.at = "idle", !.tmp = NoName,
                                    !.installed = TRUE, !.result = "ok"]
  <2> DEFINE r == [proc[p] EXCEPT !.at = "idle", !.tmp = NoName]
             s == [r EXCEPT !.installed = TRUE, !.result = "ok"]
  <2>1. r \in Session
    BY <1>1 DEF Session
  <2>2. [proc[p] EXCEPT !.at = "idle", !.tmp = NoName, !.installed = TRUE,
                        !.result = "ok"] = s
    OBVIOUS
  <2> HIDE DEF r
  <2>3. s \in Session
    BY <2>1 DEF Session
  <2>. QED  BY <2>2, <2>3
<1>4. /\ proc' = [proc EXCEPT ![p] = s]
      /\ temps' = [y \in DOMAIN temps \ {x} |-> temps[y]]
      /\ UNCHANGED <<orphans, sessions>>
  BY <1>2, <1>3 DEF Rename
<1>5. /\ s.at = "idle" /\ s.tmp = NoName /\ s.sink = "path" /\ s.installed
      /\ s.result = "ok"
  BY <1>1, <1>3, RenameEffect DEF Session
<1>6. Version(proc[p].n) \in Nat /\ Version(proc[p].n) # Partial
  BY <1>1, RenameEffect DEF Session, Version, Partial
<1>7. PathTypes' /\ PathIsComplete'
  BY <1>1, <1>4, <1>6, RenameEffect DEF PathTypes, PathIsComplete
<1>8. SessionInv(s)'
  BY <1>5
     DEF SessionInv, HasTemp, NotYetInstalled, WrittenInOrder, Truthful, Writing, AfterSync
<1>. QED  BY <1>2, <1>4, <1>5, <1>7, <1>8, UnlinkStep

\* A temporary file is removed by the one that made it.
LEMMA RemoveTempStep == ASSUME SaveInv, NEW p \in Procs, RemoveTemp(p) PROVE SaveInv'
<1>1. /\ proc[p] \in Session /\ SessionInv(proc[p]) /\ PathTypes /\ PathIsComplete
  BY DEF SaveInv
<1>2. /\ proc[p].at = "remove" /\ UNCHANGED <<path, onDisk, orphans, sessions>>
      /\ temps' = [y \in DOMAIN temps \ {proc[p].tmp} |-> temps[y]]
      /\ proc' = [proc EXCEPT ![p] = [proc[p] EXCEPT !.at = "idle", !.tmp = NoName,
                                          !.cfb = FALSE, !.result = "error"]]
  BY DEF RemoveTemp
<1>3. PICK x \in Live : x = proc[p].tmp
  BY <1>1, <1>2 DEF SessionInv, HasTemp, Writing
<1>4. ~proc[p].installed
  BY <1>1, <1>2 DEF SessionInv, NotYetInstalled
<1>5. PICK s \in Session : s = [proc[p] EXCEPT !.at = "idle", !.tmp = NoName,
                                    !.cfb = FALSE, !.result = "error"]
  <2> DEFINE r == [proc[p] EXCEPT !.at = "idle", !.tmp = NoName]
             s == [r EXCEPT !.cfb = FALSE, !.result = "error"]
  <2>1. r \in Session
    BY <1>1 DEF Session
  <2>2. [proc[p] EXCEPT !.at = "idle", !.tmp = NoName, !.cfb = FALSE,
                        !.result = "error"] = s
    OBVIOUS
  <2> HIDE DEF r
  <2>3. s \in Session
    BY <2>1 DEF Session
  <2>. QED  BY <2>2, <2>3
<1>6. /\ s.at = "idle" /\ s.tmp = NoName /\ ~s.installed /\ s.result = "error"
  BY <1>1, <1>4, <1>5 DEF Session
<1>7. PathTypes' /\ PathIsComplete'
  BY <1>1, <1>2 DEF PathTypes, PathIsComplete
<1>8. SessionInv(s)'
  BY <1>6
     DEF SessionInv, HasTemp, NotYetInstalled, WrittenInOrder, Truthful, Writing, AfterSync
<1>. QED  BY <1>2, <1>3, <1>5, <1>6, <1>7, <1>8, UnlinkStep

\* A temporary file that cannot be removed is nobody's any more.
LEMMA RemoveTempFailsStep ==
    ASSUME SaveInv, NEW p \in Procs, RemoveTempFails(p) PROVE SaveInv'
<1>1. /\ proc[p] \in Session /\ SessionInv(proc[p]) /\ PathTypes /\ TempTypes
      /\ PathIsComplete
  BY DEF SaveInv
<1>2. /\ proc[p].at = "remove" /\ UNCHANGED <<path, onDisk, temps, sessions>>
      /\ orphans' = orphans \cup {proc[p].tmp}
      /\ proc' = [proc EXCEPT ![p] = [proc[p] EXCEPT !.at = "idle", !.tmp = NoName,
                                          !.cfb = FALSE, !.result = "error"]]
  BY DEF RemoveTempFails
<1>3. PICK x \in Live : x = proc[p].tmp
  BY <1>1, <1>2 DEF SessionInv, HasTemp, Writing
<1>4. ~proc[p].installed
  BY <1>1, <1>2 DEF SessionInv, NotYetInstalled
<1>5. PICK s \in Session : s = [proc[p] EXCEPT !.at = "idle", !.tmp = NoName,
                                    !.cfb = FALSE, !.result = "error"]
  <2> DEFINE r == [proc[p] EXCEPT !.at = "idle", !.tmp = NoName]
             s == [r EXCEPT !.cfb = FALSE, !.result = "error"]
  <2>1. r \in Session
    BY <1>1 DEF Session
  <2>2. [proc[p] EXCEPT !.at = "idle", !.tmp = NoName, !.cfb = FALSE,
                        !.result = "error"] = s
    OBVIOUS
  <2> HIDE DEF r
  <2>3. s \in Session
    BY <2>1 DEF Session
  <2>. QED  BY <2>2, <2>3
<1>6. /\ s.at = "idle" /\ s.tmp = NoName /\ ~s.installed /\ s.result = "error"
  BY <1>1, <1>4, <1>5 DEF Session
<1>7. PathTypes' /\ PathIsComplete'
  BY <1>1, <1>2 DEF PathTypes, PathIsComplete
<1>8. TempTypes'
  BY <1>1, <1>2, <1>3 DEF TempTypes, Live
<1>9. Live' = Live \ {x}
  BY <1>2, <1>3 DEF Live
<1>10. SessionInv(s)'
  BY <1>6
     DEF SessionInv, HasTemp, NotYetInstalled, WrittenInOrder, Truthful, Writing, AfterSync
<1>. QED  BY <1>2, <1>3, <1>5, <1>6, <1>7, <1>8, <1>9, <1>10, ProcessStep

\* A process that is killed leaves its temporary file, and the path complete.
LEMMA KillStep == ASSUME SaveInv, NEW p \in Procs, Kill(p) PROVE SaveInv'
<1>1. /\ proc[p] \in Session /\ SessionInv(proc[p]) /\ PathTypes /\ TempTypes
      /\ PathIsComplete
  BY DEF SaveInv
<1>2. /\ orphans' = orphans \cup ({proc[p].tmp} \ {NoName})
      /\ proc' = [proc EXCEPT ![p] = Idle]
      /\ UNCHANGED <<path, onDisk, temps, sessions>>
  BY DEF Kill
<1>3. proc[p].tmp # NoName => proc[p].tmp \in DOMAIN temps
  BY <1>1 DEF SessionInv, HasTemp, Live
<1>4. PathTypes' /\ PathIsComplete'
  BY <1>1, <1>2 DEF PathTypes, PathIsComplete
<1>5. TempTypes'
  BY <1>1, <1>2, <1>3 DEF TempTypes
<1>6. \A x : x \in Live' <=> x \in Live /\ (x = proc[p].tmp => x = NoName)
  BY <1>2 DEF Live
<1>7. NoName \notin Live
  BY <1>1, SaveFileAssumption DEF Live, TempTypes
<1>. QED  BY <1>2, <1>4, <1>5, <1>6, <1>7, IdleSession, ProcessStep

-----------------------------------------------------------------------------

\* The directory reaches the disk with the file that is installed.
LEMMA DirectoryStep == ASSUME SaveInv, DirectoryWritten PROVE SaveInv'
<1>1. /\ path \in onDisk /\ onDisk' = {path}
      /\ UNCHANGED <<path, temps, orphans, sessions, proc>>
  BY DEF DirectoryWritten
<1>2. PathTypes' /\ PathIsComplete'
  BY <1>1 DEF SaveInv, PathTypes, PathIsComplete
<1>3. TempTypes' /\ OwnTemps' /\ \A p \in Procs : SessionInv(proc[p])'
  BY <1>1
     DEF SaveInv, TempTypes, OwnTemps, Live, SessionInv, HasTemp, NotYetInstalled,
         WrittenInOrder, Truthful
<1>. QED  BY <1>1, <1>2, <1>3 DEF SaveInv

\* A power failure leaves one of the files that were installed.
LEMMA PowerStep == ASSUME SaveInv, PowerFails PROVE SaveInv'
<1>1. PICK content \in onDisk : path' = content /\ onDisk' = {content}
  BY DEF PowerFails
<1>2. /\ temps' = [x \in DOMAIN temps |-> [data |-> Survives(x), synced |-> TRUE]]
      /\ orphans' = DOMAIN temps
      /\ proc' = [p \in Procs |-> Idle]
      /\ UNCHANGED sessions
  BY DEF PowerFails
<1>3. PathTypes' /\ PathIsComplete'
  BY <1>1, <1>2 DEF SaveInv, PathTypes, PathIsComplete
<1>4. TempTypes'
  <2>1. \A x \in DOMAIN temps : [data |-> Survives(x), synced |-> TRUE] \in File
    BY DEF SaveInv, TempTypes, Survives, Partial, File
  <2>. QED  BY <1>2, <2>1 DEF SaveInv, TempTypes
<1>5. Live' = {}
  BY <1>2 DEF Live
<1>6. proc' \in [Procs -> Session] /\ \A p \in Procs : proc'[p] = Idle
  BY <1>2, IdleSession
<1>7. OwnTemps'
  BY <1>5, <1>6, IdleSession DEF OwnTemps
<1>8. \A p \in Procs : SessionInv(proc[p])'
  BY <1>6, IdleSession
<1>. QED  BY <1>3, <1>4, <1>6, <1>7, <1>8 DEF SaveInv

\* Every step keeps the invariant.
LEMMA SaveStep == SaveInv /\ [Next]_vars => SaveInv'
<1> SUFFICES ASSUME SaveInv, [Next]_vars PROVE SaveInv'
  OBVIOUS
<1>1. ASSUME NEW p \in Procs, Open(p) \/ Create(p) \/ New(p) PROVE SaveInv'
  BY <1>1, BeginStep DEF Open, Create, New
<1>2. ASSUME NEW p \in Procs,
             \/ Edit(p) \/ CloseClean(p) \/ CloseDirty(p) \/ CreateTempFails(p)
             \/ Chmod(p) \/ EncodeToWriterFails(p) \/ CloseTemp(p) \/ CloseCFB(p)
             \/ StepFails(p)
      PROVE  SaveInv'
  BY <1>2, SessionStep
<1>3. ASSUME NEW p \in Procs,
             \/ CreateTemp(p) \/ Encode(p) \/ Sync(p) \/ Rename(p) \/ RemoveTemp(p)
             \/ RemoveTempFails(p) \/ Kill(p)
      PROVE  SaveInv'
  BY <1>3, CreateTempStep, EncodeStep, SyncStep, RenameStep, RemoveTempStep,
     RemoveTempFailsStep, KillStep
<1>4. CASE UNCHANGED vars
  BY <1>4
     DEF vars, SaveInv, PathTypes, TempTypes, PathIsComplete, OwnTemps, Live, SessionInv,
         HasTemp, NotYetInstalled, WrittenInOrder, Truthful
<1>. QED  BY <1>1, <1>2, <1>3, <1>4, DirectoryStep, PowerStep DEF Next

-----------------------------------------------------------------------------
(***************************************************************************)
(* The theorems.                                                           *)
(***************************************************************************)

\* What Close keeps in every state, whatever fails and whoever is killed.
THEOREM SaveSound == Spec => []SaveInv
BY SaveInit, SaveStep, PTL DEF Spec

\* The temporary file of a Close in progress exists.
THEOREM SaveTypes == Spec => []TypeOK
<1>1. SaveInv => TypeOK
  BY DEF SaveInv, PathTypes, TempTypes, SessionInv, HasTemp, Live, TypeOK
<1>. QED  BY <1>1, SaveSound, PTL

\* For any number of processes and saves: the path never holds a part of a
\* database, not even after a power failure.
THEOREM NeverHalfWritten == Spec => []PathIsComplete
<1>1. SaveInv => PathIsComplete
  BY DEF SaveInv
<1>. QED  BY <1>1, SaveSound, PTL

\* A Close without an error has saved the changes; one with an error has not.
THEOREM CloseTellsTheTruth == Spec => []ResultIsTrue
<1>1. SaveInv => ResultIsTrue
  BY DEF SaveInv, SessionInv, Truthful, ResultIsTrue
<1>. QED  BY <1>1, SaveSound, PTL

\* A temporary file is written by one process, and none is left by a Close that
\* returned, unless it could not be removed.
THEOREM NoTempIsLeft == Spec => []TempsArePrivate
<1>1. SaveInv => TempsArePrivate
  <2> SUFFICES ASSUME SaveInv, NEW x \in Live
               PROVE  /\ \E p \in Procs : proc[p].tmp = x /\ proc[p].at # "idle"
                      /\ \A p, q \in Procs : proc[p].tmp = x /\ proc[q].tmp = x => p = q
    BY DEF TempsArePrivate, Live
  <2>1. x # NoName
    BY SaveFileAssumption DEF SaveInv, TempTypes, Live
  <2>. QED
    BY <2>1 DEF SaveInv, OwnTemps, SessionInv, HasTemp, Writing, AfterSync
<1>. QED  BY <1>1, SaveSound, PTL

\* The path takes the version of a session with changes whose Close returns
\* without an error, or, when the power fails, one it had.
THEOREM OnlyCloseInstalls == Spec => PathChangesByClose
<1> DEFINE Installs == path' # path =>
              \/ path' \in onDisk
              \/ \E p \in Procs : proc[p].dirty /\ path' = Version(proc[p].n)
                                  /\ proc'[p].result = "ok"
<1>1. ASSUME SaveInv, [Next]_vars PROVE [Installs]_vars
  <2>1. ASSUME NEW p \in Procs, Rename(p) PROVE Installs
    BY <1>1, <2>1, RenameEffect
  <2>2. CASE PowerFails
    BY <2>2 DEF PowerFails
  <2>3. ASSUME NEW p \in Procs,
               \/ Open(p) \/ Create(p) \/ New(p) \/ Edit(p) \/ CloseClean(p)
               \/ CloseDirty(p) \/ CreateTemp(p) \/ CreateTempFails(p) \/ Chmod(p)
               \/ Encode(p) \/ EncodeToWriterFails(p) \/ Sync(p) \/ CloseTemp(p)
               \/ CloseCFB(p) \/ StepFails(p) \/ RemoveTemp(p) \/ RemoveTempFails(p) \/ Kill(p)
        PROVE  UNCHANGED path
    BY <2>3
       DEF Open, Create, New, Begin, Edit, CloseClean, CloseDirty, CreateTemp,
           CreateTempFails, Chmod, Encode, EncodeToWriterFails, Sync, CloseTemp,
           CloseCFB, StepFails, RemoveTemp, RemoveTempFails, Kill
  <2>4. CASE DirectoryWritten
    BY <2>4 DEF DirectoryWritten
  <2>. QED  BY <1>1, <2>1, <2>2, <2>3, <2>4 DEF Next, vars
<1>. QED  BY <1>1, SaveSound, PTL DEF Spec, PathChangesByClose

=============================================================================
