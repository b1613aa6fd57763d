-------------------------- MODULE DeploymentProofs --------------------------
(***************************************************************************)
(* Proofs about the two ends of a deployment: what Session runs when the   *)
(* bridge is there, and what Installer does to UU's files to get it there  *)
(* and away again.  The two share no state.                                *)
(***************************************************************************)
EXTENDS Session, Installer, SequenceTheorems, TLAPS

(***************************************************************************)
(* Session: its types, and the two action properties that do not depend on *)
(* fairness.  The helper's start and the guard share no variable, so that  *)
(* each has an invariant of its own: where the good token is while a start *)
(* can do without the user, and that a client which was there when the     *)
(* scan began is still to be looked at or has been seen.                   *)
(***************************************************************************)

\* At every point of a start the token that the portal would take is where the
\* helper looks for it next, and a user is not asked who has approved already.
TokenKept ==
    trusted =>
        /\ at \in {"down", "inhibit", "create", "select", "open", "up"} => file = "good"
        /\ at \in {"select", "start"} => sent = "good"
        /\ at = "save" => next_token = "good"
        /\ at # "asking"

\* The scan does not lose a client that was there when it began.
ClientSeen ==
    /\ loop = "scan" /\ "client" \in since => "client" \in listed \cup seen
    /\ loop = "stop" => "client" \notin since

-----------------------------------------------------------------------------

\* Types: every step of the helper's start.
LEMMA StartTyped ==
    ASSUME StartTypeOK, StartNext
    PROVE  StartTypeOK'
<1> USE DEF StartTypeOK, Tokens, Goto
<1>1. CASE HelperStarts
  BY <1>1 DEF HelperStarts
<1>2. CASE Listen
  BY <1>2 DEF Listen
<1>3. CASE HelperEnds
  BY <1>3 DEF HelperEnds
<1>4. CASE Inhibit
  BY <1>4 DEF Inhibit
<1>5. CASE CreateSession
  BY <1>5 DEF CreateSession
<1>6. CASE SelectSources
  BY <1>6 DEF SelectSources
<1>7. CASE Restored
  BY <1>7 DEF Restored
<1>8. CASE Ask
  BY <1>8 DEF Ask
<1>9. CASE Approve
  BY <1>9 DEF Approve
<1>10. CASE Save
  BY <1>10 DEF Save
<1>11. CASE Open
  BY <1>11 DEF Open
<1>12. CASE Lock
  BY <1>12 DEF Lock
<1>13. CASE Revoke
  BY <1>13 DEF Revoke
<1> QED
  BY <1>1, <1>2, <1>3, <1>4, <1>5, <1>6, <1>7, <1>8, <1>9, <1>10, <1>11, <1>12, <1>13 DEF StartNext

\* Types: every step of UU's processes and of the guard.
LEMMA GuardTyped ==
    ASSUME GuardTypeOK, GuardNext
    PROVE  GuardTypeOK'
<1> USE DEF GuardTypeOK, Processes
<1>1. CASE StartClient
  BY <1>1 DEF StartClient
<1>2. ASSUME NEW p \in Processes, ClientStarts(p)
      PROVE  GuardTypeOK'
  BY <1>2 DEF ClientStarts
<1>3. ASSUME NEW p \in Processes, End(p)
      PROVE  GuardTypeOK'
  BY <1>3 DEF End
<1>4. CASE Scan
  BY <1>4 DEF Scan
<1>5. CASE Decide
  BY <1>5 DEF Decide
<1>6. CASE StopPrefix
  BY <1>6 DEF StopPrefix
<1>7. CASE KillWebviews
  BY <1>7 DEF KillWebviews
<1>8. CASE Maintain
  BY <1>8 DEF Maintain
<1>9. ASSUME NEW p \in Processes, Visit(p)
      PROVE  GuardTypeOK'
  BY <1>9 DEF Visit
<1> QED
  BY <1>1, <1>2, <1>3, <1>4, <1>5, <1>6, <1>7, <1>8, <1>9 DEF GuardNext, GuardLoop

-----------------------------------------------------------------------------

\* The token stays where it will be looked for.
LEMMA TokenStaysKept ==
    ASSUME StartTypeOK, TokenKept, StartNext
    PROVE  TokenKept'
<1> USE DEF StartTypeOK, TokenKept, Goto
<1>1. CASE HelperStarts
  BY <1>1 DEF HelperStarts
<1>2. CASE Listen
  BY <1>2 DEF Listen
<1>3. CASE HelperEnds
  BY <1>3 DEF HelperEnds
<1>4. CASE Inhibit
  BY <1>4 DEF Inhibit
<1>5. CASE CreateSession
  BY <1>5 DEF CreateSession
<1>6. CASE SelectSources
  BY <1>6 DEF SelectSources
<1>7. CASE Restored
  BY <1>7 DEF Restored
<1>8. CASE Ask
  BY <1>8 DEF Ask
<1>9. CASE Approve
  BY <1>9 DEF Approve
<1>10. CASE Save
  BY <1>10 DEF Save
<1>11. CASE Open
  BY <1>11 DEF Open
<1>12. CASE Lock
  BY <1>12 DEF Lock
<1>13. CASE Revoke
  BY <1>13 DEF Revoke
<1> QED
  BY <1>1, <1>2, <1>3, <1>4, <1>5, <1>6, <1>7, <1>8, <1>9, <1>10, <1>11, <1>12, <1>13 DEF StartNext

\* A scan keeps in sight the client that was there when it began.
LEMMA ClientStaysSeen ==
    ASSUME ClientSeen, GuardNext
    PROVE  ClientSeen'
<1> USE DEF ClientSeen
<1>1. CASE StartClient
  BY <1>1 DEF StartClient
<1>2. ASSUME NEW p \in Processes, ClientStarts(p)
      PROVE  ClientSeen'
  BY <1>2 DEF ClientStarts
<1>3. ASSUME NEW p \in Processes, End(p)
      PROVE  ClientSeen'
  BY <1>3 DEF End
<1>4. CASE Scan
  BY <1>4 DEF Scan
<1>5. CASE Decide
  BY <1>5 DEF Decide
<1>6. CASE StopPrefix
  BY <1>6 DEF StopPrefix
<1>7. CASE KillWebviews
  BY <1>7 DEF KillWebviews
<1>8. CASE Maintain
  BY <1>8 DEF Maintain
<1>9. ASSUME NEW p \in Processes, Visit(p)
      PROVE  ClientSeen'
  BY <1>9 DEF Visit
<1> QED
  BY <1>1, <1>2, <1>3, <1>4, <1>5, <1>6, <1>7, <1>8, <1>9 DEF GuardNext, GuardLoop

-----------------------------------------------------------------------------

\* The units' steps leave the helper's start alone, and the guard's what matters.
LEMMA UnitsTyped ==
    ASSUME TypeOK, StartRemote \/ ListenerFound \/ WaitExpires \/ StartUu \/ StopRemote
    PROVE  TypeOK'
<1> USE DEF TypeOK, StartTypeOK, GuardTypeOK, startVars, guardVars, Processes
<1>1. CASE StartRemote
  BY <1>1 DEF StartRemote
<1>2. CASE ListenerFound
  BY <1>2 DEF ListenerFound
<1>3. CASE WaitExpires
  BY <1>3 DEF WaitExpires
<1>4. CASE StartUu
  BY <1>4 DEF StartUu
<1>5. CASE StopRemote
  BY <1>5 DEF StopRemote
<1> QED
  BY <1>1, <1>2, <1>3, <1>4, <1>5

LEMMA UnitsKeep ==
    ASSUME TokenKept, ClientSeen,
           StartRemote \/ ListenerFound \/ WaitExpires \/ StartUu \/ StopRemote
    PROVE  TokenKept' /\ ClientSeen'
  BY DEF TokenKept, ClientSeen, startVars, guardVars,
         StartRemote, ListenerFound, WaitExpires, StartUu, StopRemote

\* What a step of the one part leaves unchanged stays true of the other.
LEMMA StartUntouched ==
    ASSUME UNCHANGED startVars
    PROVE  /\ StartTypeOK => StartTypeOK'
           /\ TokenKept => TokenKept'
  BY DEF startVars, StartTypeOK, TokenKept

LEMMA GuardUntouched ==
    ASSUME UNCHANGED guardVars
    PROVE  /\ GuardTypeOK => GuardTypeOK'
           /\ ClientSeen => ClientSeen'
  BY DEF guardVars, GuardTypeOK, ClientSeen

-----------------------------------------------------------------------------

\* The helper, the guard and the units keep their types, whatever runs beside a
\* client (wayland_capture_helper.cpp:386-461, uu-session-guard.sh:103-220).
THEOREM TypeCorrect == Spec => []TypeOK
<1>1. Init => TypeOK
  BY DEF Init, StartInit, GuardInit, TypeOK, StartTypeOK, GuardTypeOK, Tokens
<1>2. TypeOK /\ [Next]_vars => TypeOK'
  <2> SUFFICES ASSUME TypeOK, [Next]_vars
               PROVE  TypeOK'
    OBVIOUS
  <2>1. CASE StartNext /\ UNCHANGED <<guardVars, remote>>
    BY <2>1, StartTyped, GuardUntouched DEF TypeOK
  <2>2. CASE GuardNext /\ UNCHANGED <<startVars, remote>>
    BY <2>2, GuardTyped, StartUntouched DEF TypeOK
  <2>3. CASE StartRemote \/ ListenerFound \/ WaitExpires \/ StartUu \/ StopRemote
    BY <2>3, UnitsTyped
  <2>4. CASE UNCHANGED vars
    BY <2>4, StartUntouched, GuardUntouched DEF vars, TypeOK
  <2> QED
    BY <2>1, <2>2, <2>3, <2>4 DEF Next
<1> QED
  BY <1>1, <1>2, PTL DEF Spec

\* The strengthening of both action properties.
THEOREM Invariance == Spec => [](TokenKept /\ ClientSeen)
<1>1. Init => TokenKept /\ ClientSeen
  BY DEF Init, StartInit, GuardInit, TokenKept, ClientSeen
<1>2. TypeOK /\ TokenKept /\ ClientSeen /\ [Next]_vars => (TokenKept /\ ClientSeen)'
  <2> SUFFICES ASSUME TypeOK, TokenKept, ClientSeen, [Next]_vars
               PROVE  TokenKept' /\ ClientSeen'
    OBVIOUS
  <2>1. CASE StartNext /\ UNCHANGED <<guardVars, remote>>
    BY <2>1, TokenStaysKept, GuardUntouched DEF TypeOK
  <2>2. CASE GuardNext /\ UNCHANGED <<startVars, remote>>
    BY <2>2, ClientStaysSeen, StartUntouched
  <2>3. CASE StartRemote \/ ListenerFound \/ WaitExpires \/ StartUu \/ StopRemote
    BY <2>3, UnitsKeep
  <2>4. CASE UNCHANGED vars
    BY <2>4, StartUntouched, GuardUntouched DEF vars
  <2> QED
    BY <2>1, <2>2, <2>3, <2>4 DEF Next
<1> QED
  BY <1>1, <1>2, TypeCorrect, PTL DEF Spec

\* The user is asked only when the permission is gone or a start was cut between
\* the request and the file (wayland_capture_helper.cpp:408-439).
THEOREM UserAskedOnce == Spec => AskedOnce
<1>1. TokenKept /\ [Next]_vars => [at' = "asking" /\ at # "asking" => ~trusted]_startVars
  <2> SUFFICES ASSUME TokenKept, [Next]_vars, at' = "asking", at # "asking"
               PROVE  ~trusted
    OBVIOUS
  <2>1. ~UNCHANGED startVars
    BY DEF startVars
  <2>2. StartNext
    BY <2>1 DEF Next, vars, startVars, StartRemote, ListenerFound, WaitExpires, StartUu, StopRemote
  <2>3. Ask
    BY <2>2 DEF StartNext, HelperStarts, Listen, HelperEnds, Inhibit, CreateSession, SelectSources,
                Restored, Approve, Save, Open, Lock, Revoke, Goto
  <2> QED
    BY <2>3 DEF Ask, Goto, TokenKept
<1> QED
  BY <1>1, Invariance, PTL DEF Spec, AskedOnce

\* The guard stops the prefix only when a client that was there when the scan
\* began has ended since (uu-session-guard.sh:103-124, 174-196).
THEOREM ClientSpared == Spec => StopSparesClient
<1>1. ClientSeen =>
        [loop = "stop" /\ loop' = "kill" => ~("client" \in since /\ "client" \notin processes')]_guardVars
  BY DEF ClientSeen
<1> QED
  BY <1>1, Invariance, PTL DEF StopSparesClient

(***************************************************************************)
(* Installer: its types, what uninstall.sh restores, and where UU's server *)
(* is.  What a step may rely on is what the steps before it have done, and *)
(* what is left to do makes up for what is not done yet: the invariant is  *)
(* stated over the steps that are ahead (Ahead, AheadFor), and what is     *)
(* left of a script is Orderly, whatever the names of DLLs and values are. *)
(* Kept says what a state file is worth, Prepared what the next step finds,*)
(* Marked that no DLL is replaced before its marker is written, Removing   *)
(* and AfterRemoval what uninstall.sh has done so far and in the end,      *)
(* Driver and ServerSafe where the two programs of UU are that are moved.  *)
(* A guard that was not stopped takes its steps between those of a script. *)
(***************************************************************************)

InstallActs   == {"save", "mark", "server", "launcher", "compat", "record", "set", "dll", "enable"}
UninstallActs == {"restore", "restore server", "remove compat", "restore devcon", "reset", "finish"}

Targets       == Items \cup {"server", "units"}
StepsOf(acts) == [do : acts, on : Targets]

\* What is true of the steps of both scripts and of whatever is left of them.
Orderly(a) ==
    /\ a \in Seq(StepsOf(InstallActs)) \cup Seq(StepsOf(UninstallActs))
    /\ \A k \in 1..Len(a) :
          /\ a[k].do \in {"save", "mark", "dll", "restore"} => a[k].on \in Range(Dlls)
          /\ a[k].do \in {"record", "set", "reset"} => a[k].on \in Range(Values)
          /\ a[k].do = "save" => k < Len(a) /\ a[k + 1] = [do |-> "mark", on |-> a[k].on]
          /\ a[k].do = "finish" => k = Len(a)
    /\ \A k \in 2..Len(a) :
          /\ a[k].do = "mark" => a[k - 1] = [do |-> "save", on |-> a[k].on]
          /\ a[k].do = "launcher" => a[k - 1].do = "server"
          /\ a[k].do = "set" => a[k - 1] = [do |-> "record", on |-> a[k].on]
    /\ \A k, l \in 1..Len(a) : a[k].do = "dll" /\ a[l].do = "mark" => l < k

Ahead(act)       == \E k \in 1..Len(agenda) : agenda[k].do = act
AheadFor(act, i) == \E k \in 1..Len(agenda) : agenda[k] = [do |-> act, on |-> i]

Installing   == ~Idle /\ Head(agenda).do \in InstallActs
Uninstalling == ~Idle /\ Head(agenda).do \in UninstallActs

DiskTypes ==
    /\ DOMAIN disk = Places \cup States
    /\ \A p \in Places : disk[p] \in Contents
    /\ \A s \in States : disk[s] \in {Missing, Torn, Present, Absent}

OtherTypes ==
    /\ writing \in BOOLEAN /\ enabled \in BOOLEAN
    /\ guard \in {"none", "idle", "copy", "remove"}
    /\ version \in Versions /\ package \in Versions
    /\ original \in [Items -> Contents]
    /\ misread \subseteq Range(Values) /\ undeleted \subseteq Range(Values)
    /\ outlived \in BOOLEAN /\ removed \in BOOLEAN
    /\ excuses \subseteq {"cut", "package", "upgrade"}

Types == Orderly(agenda) /\ DiskTypes /\ OtherTypes

\* What the state file of an item says of its backup, and its absence of the place itself.
Kept(i) ==
    /\ disk[State(i)] = Missing => disk[Bin(i)] = original[i]
    /\ disk[State(i)] = Present => disk[Backup(i)] = original[i]
    /\ disk[State(i)] = Absent  => original[i] = Missing \/ i \in misread
    /\ i \in Range(Dlls) =>
          /\ disk[State(i)] = Missing /\ disk[Bin(i)] = Missing => disk[Backup(i)] = Missing
          /\ disk[State(i)] = Torn => disk[Backup(i)] = original[i]

\* What the step that comes next relies on.
Prepared ==
    /\ Doing("mark") => /\ disk[State(Item)] = IF writing THEN Torn ELSE Missing
                        /\ disk[Bin(Item)] = original[Item]
                        /\ disk[Backup(Item)] = original[Item]
    /\ Doing("set") => disk[State(Item)] # Missing
    /\ writing =>
          /\ ~Idle
          /\ Head(agenda).do \in {"save", "mark", "launcher", "compat", "dll", "record", "restore"}
          /\ Doing("save")    => disk[State(Item)] = Missing /\ disk[Bin(Item)] # Missing
          /\ Doing("record")  => disk[State(Item)] = Torn /\ disk[Bin(Item)] = original[Item]
          /\ Doing("restore") => disk[State(Item)] = Present

\* No DLL is replaced before its marker is written.
Marked == Installing => \A i \in Range(Dlls) : disk[State(i)] # Missing \/ AheadFor("mark", i)

\* What uninstall.sh gives back of an item, and what keeps it from doing so.
PutBack(i) == disk[Bin(i)] = original[i] \/ i \in misread \cup undeleted \/ disk[State(i)] = Torn

DriverThere == disk[Devcon].by \in {"uu", "crash"}

Stopped == ~enabled /\ guard = "none"

Removed ==
    /\ \A i \in Items : PutBack(i)
    /\ disk[Real] = Missing /\ disk[Compat] = Missing
    /\ outlived \/ DriverThere

\* uninstall.sh has done with everything that is not ahead.
Removing ==
    Uninstalling =>
      /\ outlived \/ Stopped
      /\ \A i \in Items : PutBack(i) \/ AheadFor("restore", i) \/ AheadFor("reset", i)
      /\ disk[Real] = Missing \/ Ahead("restore server")
      /\ disk[Compat] = Missing \/ Ahead("remove compat")
      /\ outlived \/ DriverThere \/ Ahead("restore devcon")

\* The driver installer's two places hold nothing else, and one of them has it
\* unless a guard has outlived uninstall.sh; cut short, if the guard was.
DriverPlaced ==
    /\ DriverThere \/ (disk[Devcon] = Missing /\ disk[Disabled] # Missing)
    /\ guard = "copy"   => DriverThere /\ disk[Disabled] # Missing
    /\ guard = "remove" => disk[Disabled] # Missing

Driver ==
    /\ disk[Devcon] = Missing \/ DriverThere
    /\ disk[Disabled] = Missing \/ disk[Disabled].by \in {"uu", "crash"}
    /\ outlived \/ DriverPlaced

AfterRemoval == removed => Idle /\ ~enabled /\ (outlived \/ Stopped) /\ Removed

\* Where UU's newest server is, while nothing has happened that excuses its loss.
SetAside ==
    /\ disk[Real] = Uu(version)
    /\ \/ disk[Server] \in {Bridge(package), Missing}
       \/ disk[Server] = Torn /\ Doing("launcher") /\ writing
ServerSafe ==
    excuses = {} =>
      /\ disk[Server] = Uu(version) \/ SetAside
      /\ Doing("launcher") => SetAside
      /\ Ahead("restore server") => disk[Server] # Uu(version) \/ disk[Real] = Missing

KeptAll == \A i \in Items : Kept(i)

IInv == /\ Types /\ KeptAll /\ Prepared /\ Marked
        /\ Removing /\ Driver /\ AfterRemoval /\ ServerSafe

-----------------------------------------------------------------------------

\* The names and what is told apart by them.
LEMMA Names ==
    /\ \A i \in Range(Dlls) : i \in Items /\ i \notin Range(Values)
    /\ \A i \in Range(Values) : i \in Items /\ i \notin Range(Dlls)
    /\ \A i \in Items : i \in Range(Dlls) \/ i \in Range(Values)
    /\ \A i \in Items : i \notin Fixed
  BY NamesAssumption DEF Items

\* A place is one of its kind and of its name.
LEMMA PlacesApart ==
    /\ \A i, j : /\ Bin(i) # Backup(j) /\ Bin(i) # State(j) /\ Backup(i) # State(j)
                 /\ Bin(i) = Bin(j) => i = j
                 /\ Backup(i) = Backup(j) => i = j
                 /\ State(i) = State(j) => i = j
    /\ \A i, j : /\ Backup(j) # Bin(i) /\ State(j) # Bin(i) /\ State(j) # Backup(i)
  BY DEF Bin, Backup, State

\* The places that the scripts know by name are apart, and no item has one of them.
LEMMA FixedApart ==
    /\ Server # Real /\ Server # Compat /\ Server # Devcon /\ Server # Disabled
    /\ Real # Compat /\ Real # Devcon /\ Real # Disabled
    /\ Compat # Devcon /\ Compat # Disabled /\ Devcon # Disabled
    /\ \A i \in Items : /\ Bin(i) # Server /\ Bin(i) # Real /\ Bin(i) # Compat
                        /\ Bin(i) # Devcon /\ Bin(i) # Disabled
    /\ \A i \in Items : /\ Backup(i) # Server /\ Backup(i) # Real /\ Backup(i) # Compat
                        /\ Backup(i) # Devcon /\ Backup(i) # Disabled
    /\ \A i \in Items : /\ State(i) # Server /\ State(i) # Real /\ State(i) # Compat
                        /\ State(i) # Devcon /\ State(i) # Disabled
<1>1. \A i \in Items : i \notin Fixed
  BY Names
<1> QED
  BY <1>1 DEF Server, Real, Compat, Devcon, Disabled, Bin, Backup, State, Fixed

\* What the actions write to is on the disk.
LEMMA PlacesThere ==
    /\ \A i \in Items : Bin(i) \in Places /\ Backup(i) \in Places /\ State(i) \in States
    /\ {Server, Real, Compat, Devcon, Disabled} \subseteq Places
    /\ \A p \in Places : p \notin States
<1>1. \A p \in Places : p \notin States
  BY PlacesApart DEF Places, States
<1>2. {Server, Real, Compat, Devcon, Disabled} \subseteq Places
  BY DEF Places, Fixed, Server, Real, Compat, Devcon, Disabled
<1> QED
  BY <1>1, <1>2 DEF Places, States

\* What is told apart of the contents.
LEMMA ContentsApart ==
    /\ Missing # Torn /\ Missing # Present /\ Missing # Absent /\ Missing # Artifact
    /\ Torn # Present /\ Torn # Absent /\ Present # Absent /\ Torn # Artifact
    /\ \A v : Uu(v) # Missing /\ Uu(v) # Torn /\ Uu(v).by = "uu"
    /\ \A p : Bridge(p) # Missing /\ Bridge(p) # Torn /\ Bridge(p).by = "bridge"
    /\ \A v, p : Uu(v) # Bridge(p)
    /\ Missing.by = "nobody" /\ Torn.by = "crash"
  BY DEF Missing, Torn, Present, Absent, Uu, Bridge, Artifact

\* The contents that the actions write.
LEMMA ContentsThere ==
    /\ Missing \in Contents /\ Torn \in Contents /\ Artifact \in Contents
    /\ \A v \in Versions : Uu(v) \in Contents /\ Bridge(v) \in Contents
  BY DEF Contents

\* Versions are counted from 1, and there is room for one more while the bound
\* allows an upgrade.
LEMMA VersionsThere ==
    /\ 1 \in Versions
    /\ \A v, p \in Versions : v + p < MaxUpgrades + 2 => v + 1 \in Versions /\ p + 1 \in Versions
  BY BoundAssumption DEF Versions

-----------------------------------------------------------------------------
(* Writing *)

\* What Put and Move leave, place by place, and that both keep the types.
LEMMA PutIs ==
    ASSUME NEW p, NEW c
    PROVE  /\ DOMAIN Put(p, c) = DOMAIN disk
           /\ \A q \in DOMAIN disk : Put(p, c)[q] = IF q = p THEN c ELSE disk[q]
  BY DEF Put

LEMMA MoveIs ==
    ASSUME NEW from, NEW to
    PROVE  /\ DOMAIN Move(from, to) = DOMAIN disk
           /\ \A q \in DOMAIN disk :
                Move(from, to)[q] = IF q = from THEN Missing ELSE IF q = to THEN disk[from] ELSE disk[q]
  BY DEF Move

LEMMA PutTyped ==
    ASSUME DiskTypes, NEW p, NEW c, disk' = Put(p, c),
           \/ p \in Places /\ c \in Contents
           \/ p \in States /\ c \in {Missing, Torn, Present, Absent}
    PROVE  DiskTypes'
  BY PutIs, PlacesThere DEF DiskTypes

LEMMA MoveTyped ==
    ASSUME DiskTypes, NEW from \in Places, NEW to \in Places, disk' = Move(from, to)
    PROVE  DiskTypes'
  BY MoveIs, PlacesThere, ContentsThere DEF DiskTypes

\* What a place of an item that was not written says is as true as it was.
LEMMA KeptElsewhere ==
    ASSUME NEW i \in Items, Kept(i), UNCHANGED <<disk[State(i)], disk[Bin(i)], disk[Backup(i)]>>,
           UNCHANGED original[i], i \in misread => i \in misread'
    PROVE  Kept(i)'
  BY DEF Kept

-----------------------------------------------------------------------------
(* The agenda *)

\* What is left of an orderly list of steps is orderly.
LEMMA RestOrderly ==
    ASSUME Orderly(agenda), NEW n \in 1..Len(agenda), Skip(n)
    PROVE  /\ Orderly(agenda')
           /\ Len(agenda') = Len(agenda) - n
           /\ \A k \in 1..Len(agenda') : agenda'[k] = agenda[k + n]
<1> DEFINE rest == SubSeq(agenda, n + 1, Len(agenda))
<1>1. /\ Len(agenda) \in Nat
      /\ \A k \in 1..Len(agenda) : agenda \in Seq(StepsOf(InstallActs)) => agenda[k] \in StepsOf(InstallActs)
      /\ \A k \in 1..Len(agenda) : agenda \in Seq(StepsOf(UninstallActs)) => agenda[k] \in StepsOf(UninstallActs)
  BY DEF Orderly
<1>2. /\ Len(rest) = Len(agenda) - n
      /\ \A k \in 1..Len(rest) : rest[k] = agenda[k + n]
      /\ agenda \in Seq(StepsOf(InstallActs)) => rest \in Seq(StepsOf(InstallActs))
      /\ agenda \in Seq(StepsOf(UninstallActs)) => rest \in Seq(StepsOf(UninstallActs))
  <2>1. CASE agenda \in Seq(StepsOf(InstallActs))
    <3>1. \A k \in (n + 1)..Len(agenda) : agenda[k] \in StepsOf(InstallActs)
      BY <1>1, <2>1
    <3>2. /\ rest \in Seq(StepsOf(InstallActs))
          /\ Len(rest) = IF n + 1 <= Len(agenda) THEN Len(agenda) - (n + 1) + 1 ELSE 0
          /\ \A k \in 1..(Len(agenda) - (n + 1) + 1) : rest[k] = agenda[(n + 1) + k - 1]
      BY <1>1, <3>1, SubSeqProperties
    <3> QED
      BY <1>1, <3>2 DEF Orderly
  <2>2. CASE agenda \in Seq(StepsOf(UninstallActs))
    <3>1. \A k \in (n + 1)..Len(agenda) : agenda[k] \in StepsOf(UninstallActs)
      BY <1>1, <2>2
    <3>2. /\ rest \in Seq(StepsOf(UninstallActs))
          /\ Len(rest) = IF n + 1 <= Len(agenda) THEN Len(agenda) - (n + 1) + 1 ELSE 0
          /\ \A k \in 1..(Len(agenda) - (n + 1) + 1) : rest[k] = agenda[(n + 1) + k - 1]
      BY <1>1, <3>1, SubSeqProperties
    <3> QED
      BY <1>1, <3>2 DEF Orderly
  <2> QED
    BY <2>1, <2>2 DEF Orderly
<1>3. agenda' = rest
  BY DEF Skip
<1> HIDE DEF rest
<1>4. Len(rest) \in Nat /\ \A k \in 1..Len(rest) : k + n \in 1..Len(agenda)
  BY <1>1, <1>2
<1>5. \A k \in 1..Len(rest) :
          /\ rest[k].do \in {"save", "mark", "dll", "restore"} => rest[k].on \in Range(Dlls)
          /\ rest[k].do \in {"record", "set", "reset"} => rest[k].on \in Range(Values)
          /\ rest[k].do = "save" => k < Len(rest) /\ rest[k + 1] = [do |-> "mark", on |-> rest[k].on]
          /\ rest[k].do = "finish" => k = Len(rest)
  <2> TAKE k \in 1..Len(rest)
  <2>1. rest[k] = agenda[k + n] /\ k + n \in 1..Len(agenda)
    BY <1>2, <1>4
  <2>2. k < Len(rest) => rest[k + 1] = agenda[(k + n) + 1]
    BY <1>2, <1>4
  <2> QED
    BY <1>1, <1>2, <2>1, <2>2 DEF Orderly
<1>6. \A k \in 2..Len(rest) :
          /\ rest[k].do = "mark" => rest[k - 1] = [do |-> "save", on |-> rest[k].on]
          /\ rest[k].do = "launcher" => rest[k - 1].do = "server"
          /\ rest[k].do = "set" => rest[k - 1] = [do |-> "record", on |-> rest[k].on]
  <2> TAKE k \in 2..Len(rest)
  <2>1. rest[k] = agenda[k + n] /\ k + n \in 2..Len(agenda)
    BY <1>2, <1>4
  <2>2. rest[k - 1] = agenda[(k + n) - 1]
    BY <1>2, <1>4
  <2> QED
    BY <2>1, <2>2 DEF Orderly
<1>7. \A k, l \in 1..Len(rest) : rest[k].do = "dll" /\ rest[l].do = "mark" => l < k
  <2> TAKE k, l \in 1..Len(rest)
  <2>1. rest[k] = agenda[k + n] /\ rest[l] = agenda[l + n]
    BY <1>2, <1>4
  <2>2. rest[k].do = "dll" /\ rest[l].do = "mark" => l + n < k + n
    BY <1>4, <2>1 DEF Orderly
  <2> QED
    BY <1>4, <2>2
<1>8. Orderly(rest)
  BY <1>2, <1>5, <1>6, <1>7 DEF Orderly
<1> QED
  BY <1>2, <1>3, <1>8

\* The step that comes next.
LEMMA HeadIs ==
    ASSUME Orderly(agenda), ~Idle
    PROVE  /\ Len(agenda) \in Nat /\ Len(agenda) >= 1
           /\ Head(agenda) = agenda[1]
           /\ Head(agenda) \in StepsOf(InstallActs) \cup StepsOf(UninstallActs)
  BY HeadTailProperties, EmptySeq DEF Orderly, Idle

\* What the next step but one is to the next one, and what is no longer ahead.
LEMMA NextStep ==
    ASSUME Orderly(agenda), ~Idle, Skip(1)
    PROVE  /\ Orderly(agenda')
           /\ Doing("mark")' => Doing("save") /\ Item' = Item
           /\ Doing("launcher")' => Doing("server")
           /\ Doing("set")' => Doing("record") /\ Item' = Item
           /\ Doing("finish") => Idle'
           /\ Installing' => Installing
           /\ Uninstalling' => Uninstalling
           /\ \A act : Ahead(act)' => Ahead(act)
           /\ \A act : Ahead(act) => Ahead(act)' \/ Doing(act)
           /\ \A act, i : AheadFor(act, i) => AheadFor(act, i)' \/ (Doing(act) /\ Item = i)
<1>1. Len(agenda) \in Nat /\ Len(agenda) >= 1 /\ Head(agenda) = agenda[1]
  BY HeadIs
<1>2. /\ Orderly(agenda')
      /\ Len(agenda') = Len(agenda) - 1
      /\ \A k \in 1..Len(agenda') : agenda'[k] = agenda[k + 1]
  BY <1>1, RestOrderly
<1>3. ~Idle' => Len(agenda') >= 1 /\ Head(agenda') = agenda'[1] /\ agenda'[1] = agenda[2] /\ 2 \in 1..Len(agenda)
  BY <1>1, <1>2, HeadTailProperties, EmptySeq DEF Orderly, Idle
<1>13. ~Idle' =>
         /\ agenda[2].do = "mark" => agenda[1] = [do |-> "save", on |-> agenda[2].on]
         /\ agenda[2].do = "launcher" => agenda[1].do = "server"
         /\ agenda[2].do = "set" => agenda[1] = [do |-> "record", on |-> agenda[2].on]
  <2>1. \A k \in 2..Len(agenda) :
          /\ agenda[k].do = "mark" => agenda[k - 1] = [do |-> "save", on |-> agenda[k].on]
          /\ agenda[k].do = "launcher" => agenda[k - 1].do = "server"
          /\ agenda[k].do = "set" => agenda[k - 1] = [do |-> "record", on |-> agenda[k].on]
    BY DEF Orderly
  <2>2. ~Idle' => 2 \in 2..Len(agenda) /\ 2 - 1 = 1
    BY <1>1, <1>3
  <2> QED
    BY <2>1, <2>2
<1>14. agenda[1].do = "finish" => Len(agenda) = 1
  <2>1. \A k \in 1..Len(agenda) : agenda[k].do = "finish" => k = Len(agenda)
    BY DEF Orderly
  <2>2. 1 \in 1..Len(agenda)
    BY <1>1
  <2> QED
    BY <2>1, <2>2
<1>4. Doing("mark")' => Doing("save") /\ Item' = Item
  BY <1>1, <1>3, <1>13 DEF Doing, Item, Idle
<1>5. Doing("launcher")' => Doing("server")
  BY <1>1, <1>3, <1>13 DEF Doing, Item, Idle
<1>6. Doing("set")' => Doing("record") /\ Item' = Item
  BY <1>1, <1>3, <1>13 DEF Doing, Item, Idle
<1>7. Doing("finish") => Idle'
  BY <1>1, <1>3, <1>14 DEF Doing, Idle
<1>8. (Installing' => Installing) /\ (Uninstalling' => Uninstalling)
  <2>1. \/ agenda[1] \in StepsOf(InstallActs) /\ (~Idle' => agenda[2] \in StepsOf(InstallActs))
        \/ agenda[1] \in StepsOf(UninstallActs) /\ (~Idle' => agenda[2] \in StepsOf(UninstallActs))
    BY <1>1, <1>3 DEF Orderly
  <2> QED
    BY <1>1, <1>3, <2>1 DEF Installing, Uninstalling, Idle, StepsOf, InstallActs, UninstallActs
<1>9. \A act : Ahead(act)' => Ahead(act)
  BY <1>1, <1>2 DEF Ahead
<1>10. \A k \in 1..Len(agenda) : k = 1 \/ (k - 1 \in 1..Len(agenda') /\ agenda'[k - 1] = agenda[k])
  BY <1>1, <1>2
<1>11. \A act : Ahead(act) => Ahead(act)' \/ Doing(act)
  BY <1>1, <1>10 DEF Ahead, Doing, Idle
<1>12. \A act, i : AheadFor(act, i) => AheadFor(act, i)' \/ (Doing(act) /\ Item = i)
  BY <1>1, <1>10 DEF AheadFor, Doing, Item, Idle
<1> QED
  BY <1>2, <1>4, <1>5, <1>6, <1>7, <1>8, <1>9, <1>11, <1>12

\* A step is one of the running script's.
LEMMA StepIs ==
    ASSUME Orderly(agenda), NEW act, Doing(act)
    PROVE  /\ ~Idle
           /\ act \in InstallActs => Installing /\ ~Uninstalling
           /\ act \in UninstallActs => Uninstalling /\ ~Installing
           /\ act \in {"save", "mark", "dll", "restore"} => Item \in Range(Dlls)
           /\ act \in {"record", "set", "reset"} => Item \in Range(Values)
           /\ Ahead(act)
<1>1. ~Idle
  BY DEF Doing, Idle
<1>2. Len(agenda) \in Nat /\ Len(agenda) >= 1 /\ Head(agenda) = agenda[1]
  BY <1>1, HeadIs
<1>3. Ahead(act)
  BY <1>2 DEF Ahead, Doing
<1>4. /\ act \in {"save", "mark", "dll", "restore"} => Item \in Range(Dlls)
      /\ act \in {"record", "set", "reset"} => Item \in Range(Values)
  <2>1. \A k \in 1..Len(agenda) :
          /\ agenda[k].do \in {"save", "mark", "dll", "restore"} => agenda[k].on \in Range(Dlls)
          /\ agenda[k].do \in {"record", "set", "reset"} => agenda[k].on \in Range(Values)
    BY DEF Orderly
  <2>2. 1 \in 1..Len(agenda)
    BY <1>2
  <2> QED
    BY <1>2, <2>1, <2>2 DEF Doing, Item
<1>5. /\ act \in InstallActs => Installing /\ ~Uninstalling
      /\ act \in UninstallActs => Uninstalling /\ ~Installing
  BY <1>1 DEF Doing, Installing, Uninstalling, InstallActs, UninstallActs
<1> QED
  BY <1>1, <1>3, <1>4, <1>5

\* The next step is still ahead.
LEMMA HeadAhead ==
    ASSUME Orderly(agenda), NEW act, Doing(act), NEW i, Item = i
    PROVE  AheadFor(act, i)
<1>1. Len(agenda) \in Nat /\ Len(agenda) >= 1 /\ Head(agenda) = agenda[1]
      /\ Head(agenda) \in StepsOf(InstallActs) \cup StepsOf(UninstallActs)
  BY HeadIs DEF Doing, Idle
<1>2. agenda[1] = [do |-> act, on |-> i]
  BY <1>1 DEF StepsOf, Doing, Item
<1> QED
  BY <1>1, <1>2 DEF AheadFor

\* A step that is done is a change.
LEMMA SkipMoves ==
    ASSUME Orderly(agenda), ~Idle, Skip(1)
    PROVE  agenda' # agenda
<1>1. Len(agenda) \in Nat /\ Len(agenda) >= 1
  BY HeadIs
<1>2. Len(agenda') = Len(agenda) - 1
  BY <1>1, RestOrderly
<1> QED
  BY <1>1, <1>2

\* Nothing comes after "finish".
LEMMA LastStep ==
    ASSUME Orderly(agenda), Doing("finish")
    PROVE  Len(agenda) = 1
<1>1. Len(agenda) \in Nat /\ Len(agenda) >= 1 /\ Head(agenda) = agenda[1] /\ agenda[1].do = "finish"
  BY HeadIs DEF Doing, Idle
<1>2. \A k \in 1..Len(agenda) : agenda[k].do = "finish" => k = Len(agenda)
  BY DEF Orderly
<1>3. 1 \in 1..Len(agenda)
  BY <1>1
<1> QED
  BY <1>1, <1>2, <1>3

\* All DLLs are marked before the first one is replaced.
LEMMA DllsAfterMarks ==
    ASSUME Orderly(agenda), Doing("dll"), NEW i
    PROVE  ~AheadFor("mark", i)
<1>1. Len(agenda) \in Nat /\ Len(agenda) >= 1 /\ Head(agenda) = agenda[1] /\ agenda[1].do = "dll"
  BY HeadIs DEF Doing, Idle
<1>2. \A k, l \in 1..Len(agenda) : agenda[k].do = "dll" /\ agenda[l].do = "mark" => l < k
  BY DEF Orderly
<1>3. 1 \in 1..Len(agenda)
  BY <1>1
<1>4. \A l \in 1..Len(agenda) : agenda[l].do # "mark"
  BY <1>1, <1>2, <1>3
<1> QED
  BY <1>4 DEF AheadFor

\* A DLL that is on record already is passed over, and so is its marker.
LEMMA NextButOne ==
    ASSUME Orderly(agenda), Doing("save"), Skip(2)
    PROVE  /\ Orderly(agenda')
           /\ ~Doing("mark")' /\ ~Doing("set")' /\ ~Doing("launcher")'
           /\ \A act : Ahead(act)' => Ahead(act)
           /\ \A i : AheadFor("mark", i) => AheadFor("mark", i)' \/ Item = i
           /\ ~Uninstalling'
<1>1. ~Idle /\ Installing
  BY StepIs DEF InstallActs
<1>2. Len(agenda) \in Nat /\ Len(agenda) >= 1 /\ Head(agenda) = agenda[1] /\ agenda[1].do = "save"
  BY <1>1, HeadIs DEF Doing
<1>3. Len(agenda) >= 2 /\ agenda[2] = [do |-> "mark", on |-> agenda[1].on]
  <2>1. \A k \in 1..Len(agenda) :
          agenda[k].do = "save" => k < Len(agenda) /\ agenda[k + 1] = [do |-> "mark", on |-> agenda[k].on]
    BY DEF Orderly
  <2>2. 1 \in 1..Len(agenda) /\ 1 + 1 = 2
    BY <1>2
  <2> QED
    BY <1>2, <2>1, <2>2
<1>4. /\ Orderly(agenda')
      /\ Len(agenda') = Len(agenda) - 2
      /\ \A k \in 1..Len(agenda') : agenda'[k] = agenda[k + 2]
  BY <1>2, <1>3, RestOrderly
<1>5. ~Idle' => Len(agenda') >= 1 /\ Head(agenda') = agenda'[1] /\ agenda'[1] = agenda[3] /\ 3 \in 1..Len(agenda)
  BY <1>2, <1>3, <1>4, HeadTailProperties, EmptySeq DEF Orderly, Idle
<1>6. ~Idle' => agenda[3].do \notin {"mark", "set", "launcher"}
  <2> SUFFICES ASSUME ~Idle'
               PROVE  agenda[3].do \notin {"mark", "set", "launcher"}
    OBVIOUS
  <2>1. \A k \in 2..Len(agenda) :
          /\ agenda[k].do = "mark" => agenda[k - 1] = [do |-> "save", on |-> agenda[k].on]
          /\ agenda[k].do = "launcher" => agenda[k - 1].do = "server"
          /\ agenda[k].do = "set" => agenda[k - 1] = [do |-> "record", on |-> agenda[k].on]
    BY DEF Orderly
  <2>2. 3 \in 2..Len(agenda) /\ 3 - 1 = 2
    BY <1>2, <1>5
  <2>3. /\ agenda[3].do = "mark" => agenda[3 - 1] = [do |-> "save", on |-> agenda[3].on]
        /\ agenda[3].do = "launcher" => agenda[3 - 1].do = "server"
        /\ agenda[3].do = "set" => agenda[3 - 1] = [do |-> "record", on |-> agenda[3].on]
    BY <2>1, <2>2
  <2>4. agenda[3 - 1] = agenda[2]
    BY <2>2
  <2> QED
    BY <1>3, <2>3, <2>4
<1>7. ~Doing("mark")' /\ ~Doing("set")' /\ ~Doing("launcher")'
  BY <1>5, <1>6 DEF Doing, Idle
<1>8. \A act : Ahead(act)' => Ahead(act)
  BY <1>2, <1>4 DEF Ahead
<1>9. \A i : AheadFor("mark", i) => AheadFor("mark", i)' \/ Item = i
  <2>1. \A k \in 1..Len(agenda) :
          k = 1 \/ k = 2 \/ (k - 2 \in 1..Len(agenda') /\ agenda'[k - 2] = agenda[k])
    BY <1>2, <1>3, <1>4
  <2> QED
    BY <1>2, <1>3, <2>1 DEF AheadFor, Item
<1>10. ~Uninstalling'
  <2>1. \/ agenda[1] \in StepsOf(InstallActs) /\ (~Idle' => agenda[3] \in StepsOf(InstallActs))
        \/ agenda[1] \in StepsOf(UninstallActs)
    BY <1>2, <1>5 DEF Orderly
  <2> QED
    BY <1>2, <1>5, <2>1 DEF Uninstalling, Idle, StepsOf, InstallActs, UninstallActs
<1> QED
  BY <1>4, <1>7, <1>8, <1>9, <1>10

-----------------------------------------------------------------------------
(* What a step does not touch *)

\* What keeps a part of the invariant, for the steps that are not about it.
LEMMA ServerFrame ==
    ASSUME Orderly(agenda), ~Idle, ServerSafe, UNCHANGED agenda \/ Skip(1),
           ~Doing("server"), ~Doing("launcher"),
           UNCHANGED <<disk[Server], disk[Real], version, package, excuses>>
    PROVE  ServerSafe'
<1>1. ~Doing("launcher")'
  BY NextStep DEF Doing
<1>2. Ahead("restore server")' => Ahead("restore server")
  BY NextStep DEF Ahead
<1> QED
  BY <1>1, <1>2 DEF ServerSafe, SetAside

LEMMA InstallFrame ==
    ASSUME Orderly(agenda), Installing, ~Uninstalling, Driver, AfterRemoval, UNCHANGED agenda \/ Skip(1),
           guard' \in {"none", guard}, UNCHANGED <<outlived, removed, disk[Devcon], disk[Disabled]>>
    PROVE  Driver' /\ Removing' /\ AfterRemoval'
<1>1. ~Idle /\ ~Uninstalling'
  BY NextStep DEF Installing, Uninstalling, Idle
<1> QED
  BY <1>1 DEF Driver, DriverPlaced, DriverThere, Removing, AfterRemoval

LEMMA MarkedFrame ==
    ASSUME Orderly(agenda), Installing, Marked, UNCHANGED agenda \/ Skip(1),
           \A i \in Range(Dlls) : disk[State(i)] # Missing => disk'[State(i)] # Missing,
           Doing("mark") => UNCHANGED agenda \/ disk'[State(Item)] # Missing
    PROVE  Marked'
<1>1. ~Idle
  BY DEF Installing
<1>2. \A i \in Range(Dlls) : AheadFor("mark", i) => AheadFor("mark", i)' \/ disk'[State(i)] # Missing
  BY <1>1, NextStep DEF AheadFor
<1> QED
  BY <1>2 DEF Marked

LEMMA PreparedFrame ==
    ASSUME Orderly(agenda), ~Idle, Skip(1), ~writing', ~Doing("save"), ~Doing("record")
    PROVE  Prepared'
  BY NextStep DEF Prepared

LEMMA UninstallFrame ==
    ASSUME Orderly(agenda), Uninstalling, ~Installing, AfterRemoval, UNCHANGED agenda \/ Skip(1), UNCHANGED removed
    PROVE  Marked' /\ AfterRemoval'
<1>1. ~Idle /\ ~Installing'
  BY NextStep DEF Installing, Uninstalling, Idle
<1> QED
  BY <1>1 DEF Marked, AfterRemoval

\* What the two halves of a Write have in common, and what each does.
LEMMA WriteIs ==
    ASSUME DiskTypes, OtherTypes, NEW p, NEW content, Write(p, content),
           \/ p \in Places /\ content \in Contents
           \/ p \in States /\ content \in {Missing, Torn, Present, Absent}
    PROVE  /\ DiskTypes' /\ OtherTypes' /\ writing' = ~writing
           /\ UNCHANGED <<enabled, guard, version, package, original, misread, undeleted, outlived, removed, excuses>>
           /\ \A q \in DOMAIN disk : q # p => disk'[q] = disk[q]
           /\ \/ UNCHANGED agenda /\ ~writing /\ disk'[p] = Torn
              \/ Skip(1) /\ writing /\ disk'[p] = content
<1>1. PICK c : /\ disk' = Put(p, c) /\ writing' = ~writing
               /\ \/ UNCHANGED agenda /\ ~writing /\ c = Torn
                  \/ Skip(1) /\ writing /\ c = content
  BY DEF Write
<1>2. UNCHANGED <<enabled, guard, version, package, original, misread, undeleted, outlived, removed, excuses>>
  BY DEF Write, Untouched, world
<1>3. p \in DOMAIN disk
  BY DEF DiskTypes
<1>4. disk'[p] = c /\ \A q \in DOMAIN disk : q # p => disk'[q] = disk[q]
  BY <1>1, <1>3, PutIs
<1>5. DiskTypes'
  BY <1>1, PutTyped, ContentsThere
<1>6. OtherTypes'
  BY <1>1, <1>2 DEF OtherTypes
<1> QED
  BY <1>1, <1>2, <1>4, <1>5, <1>6

\* What the other forms of a step do.
LEMMA DoIs ==
    ASSUME DiskTypes, OtherTypes, NEW p \in Places, NEW content \in Contents, Do(Put(p, content))
    PROVE  /\ DiskTypes' /\ OtherTypes' /\ Skip(1)
           /\ UNCHANGED <<writing, enabled, guard, version, package, original, misread, undeleted, outlived, removed, excuses>>
           /\ disk'[p] = content
           /\ \A q \in DOMAIN disk : q # p => disk'[q] = disk[q]
<1>1. /\ disk' = Put(p, content) /\ Skip(1)
      /\ UNCHANGED <<writing, enabled, guard, version, package, original, misread, undeleted, outlived, removed, excuses>>
  BY DEF Do, Untouched, world
<1>2. p \in DOMAIN disk
  BY DEF DiskTypes
<1>3. disk'[p] = content /\ \A q \in DOMAIN disk : q # p => disk'[q] = disk[q]
  BY <1>1, <1>2, PutIs
<1>4. DiskTypes'
  BY <1>1, PutTyped
<1>5. OtherTypes'
  BY <1>1 DEF OtherTypes
<1> QED
  BY <1>1, <1>3, <1>4, <1>5

LEMMA MoveDone ==
    ASSUME DiskTypes, OtherTypes, NEW from \in Places, NEW to \in Places, from # to, Do(Move(from, to))
    PROVE  /\ DiskTypes' /\ OtherTypes' /\ Skip(1)
           /\ UNCHANGED <<writing, enabled, guard, version, package, original, misread, undeleted, outlived, removed, excuses>>
           /\ disk'[to] = disk[from] /\ disk'[from] = Missing
           /\ \A q \in DOMAIN disk : q \notin {from, to} => disk'[q] = disk[q]
<1>1. /\ disk' = Move(from, to) /\ Skip(1)
      /\ UNCHANGED <<writing, enabled, guard, version, package, original, misread, undeleted, outlived, removed, excuses>>
  BY DEF Do, Untouched, world
<1>2. from \in DOMAIN disk /\ to \in DOMAIN disk
  BY DEF DiskTypes
<1>3. /\ disk'[to] = disk[from] /\ disk'[from] = Missing
      /\ \A q \in DOMAIN disk : q \notin {from, to} => disk'[q] = disk[q]
  BY <1>1, <1>2, MoveIs
<1>4. DiskTypes'
  BY <1>1, MoveTyped
<1>5. OtherTypes'
  BY <1>1 DEF OtherTypes
<1> QED
  BY <1>1, <1>3, <1>4, <1>5

LEMMA PassIs ==
    ASSUME DiskTypes, OtherTypes, Pass(1)
    PROVE  /\ DiskTypes' /\ OtherTypes' /\ Skip(1)
           /\ UNCHANGED <<writing, disk, enabled, guard, version, package, original, misread, undeleted, outlived, removed, excuses>>
<1>1. Skip(1) /\ UNCHANGED <<writing, disk, enabled, guard, version, package, original, misread, undeleted, outlived, removed, excuses>>
  BY DEF Pass, Untouched, world
<1> QED
  BY <1>1 DEF DiskTypes, OtherTypes

\* A place of an item, written: the other items and the fixed places are left alone.
LEMMA OthersUntouched ==
    ASSUME DiskTypes, NEW i \in Items, NEW touched \in SUBSET {Bin(i), Backup(i), State(i)},
           \A q \in DOMAIN disk : q \notin touched => disk'[q] = disk[q]
    PROVE  /\ UNCHANGED <<disk[Server], disk[Real], disk[Compat], disk[Devcon], disk[Disabled]>>
           /\ \A j \in Items : j # i => UNCHANGED <<disk[State(j)], disk[Bin(j)], disk[Backup(j)]>>
           /\ Bin(i) \notin touched => UNCHANGED disk[Bin(i)]
           /\ Backup(i) \notin touched => UNCHANGED disk[Backup(i)]
           /\ State(i) \notin touched => UNCHANGED disk[State(i)]
<1>1. {Server, Real, Compat, Devcon, Disabled} \subseteq DOMAIN disk
  BY PlacesThere DEF DiskTypes
<1>2. \A j \in Items : {Bin(j), Backup(j), State(j)} \subseteq DOMAIN disk
  BY PlacesThere DEF DiskTypes
<1>3. {Server, Real, Compat, Devcon, Disabled} \cap touched = {}
  BY FixedApart
<1>4. \A j \in Items : j # i => {Bin(j), Backup(j), State(j)} \cap touched = {}
  BY PlacesApart
<1> QED
  BY <1>1, <1>2, <1>3, <1>4

\* A fixed place, written.
LEMMA ItemsUntouched ==
    ASSUME DiskTypes, NEW touched \in SUBSET {Server, Real, Compat, Devcon, Disabled},
           \A q \in DOMAIN disk : q \notin touched => disk'[q] = disk[q]
    PROVE  /\ \A j \in Items : UNCHANGED <<disk[State(j)], disk[Bin(j)], disk[Backup(j)]>>
           /\ \A q \in {Server, Real, Compat, Devcon, Disabled} : q \notin touched => disk'[q] = disk[q]
<1>1. {Server, Real, Compat, Devcon, Disabled} \subseteq DOMAIN disk
  BY PlacesThere DEF DiskTypes
<1>2. \A j \in Items : {Bin(j), Backup(j), State(j)} \subseteq DOMAIN disk
  BY PlacesThere DEF DiskTypes
<1>3. \A j \in Items : {Bin(j), Backup(j), State(j)} \cap touched = {}
  BY FixedApart
<1> QED
  BY <1>1, <1>2, <1>3

-----------------------------------------------------------------------------
(* install.sh *)

\* install.sh, step by step (install.sh:60-126): each keeps the whole invariant.
LEMMA SaveStep ==
    ASSUME IInv, SaveOriginal, NEW i \in Range(Dlls), i = Item
    PROVE  IInv'
<1> USE DEF Types, KeptAll
<1>1. /\ Types /\ KeptAll /\ Prepared /\ Marked /\ Removing /\ Driver /\ AfterRemoval /\ ServerSafe
      /\ Orderly(agenda) /\ DiskTypes /\ OtherTypes
  BY DEF IInv
<1>2. ~Idle /\ Installing /\ ~Uninstalling /\ Doing("save") /\ i \in Items /\ Kept(i)
  BY <1>1, StepIs, Names DEF SaveOriginal, InstallActs
<1>3. ~Doing("mark") /\ ~Doing("record") /\ ~Doing("set") /\ ~Doing("server") /\ ~Doing("launcher")
  BY <1>2 DEF Doing
<1>4. /\ Bin(i) \in DOMAIN disk /\ State(i) \in DOMAIN disk /\ Backup(i) \in DOMAIN disk
      /\ Backup(i) \in Places /\ disk[Bin(i)] \in Contents
  BY <1>1, <1>2, PlacesThere DEF DiskTypes
<1>5. UNCHANGED <<enabled, guard, version, package, original, misread, undeleted, outlived, removed, excuses>>
  BY DEF SaveOriginal, Pass, Write, Untouched, world
<1>6. CASE disk[State(i)] # Missing /\ Pass(2)
  <2>1. Skip(2) /\ UNCHANGED <<writing, disk>>
    BY <1>6 DEF Pass
  <2>2. ~writing
    BY <1>1, <1>2, <1>6 DEF Prepared
  <2>3. /\ Orderly(agenda')
        /\ ~Doing("mark")' /\ ~Doing("set")' /\ ~Doing("launcher")'
        /\ \A act : Ahead(act)' => Ahead(act)
        /\ \A j : AheadFor("mark", j) => AheadFor("mark", j)' \/ Item = j
        /\ ~Uninstalling'
    BY <1>1, <1>2, <2>1, NextButOne
  <2>4. Types'
    BY <1>1, <1>5, <2>1, <2>3 DEF DiskTypes, OtherTypes
  <2>5. KeptAll'
    BY <1>1, <1>5, <2>1, KeptElsewhere
  <2>6. Prepared'
    BY <2>1, <2>2, <2>3 DEF Prepared
  <2>7. Marked'
    BY <1>1, <1>2, <1>6, <2>1, <2>3 DEF Marked
  <2>8. Removing' /\ AfterRemoval' /\ Driver'
    BY <1>1, <1>2, <1>5, <2>1, <2>3 DEF Removing, AfterRemoval, Driver, DriverPlaced, DriverThere
  <2>9. ServerSafe'
    BY <1>1, <1>3, <1>5, <2>1, <2>3 DEF ServerSafe, SetAside
  <2> QED
    BY <2>4, <2>5, <2>6, <2>7, <2>8, <2>9 DEF IInv
<1>7. CASE disk[State(i)] = Missing /\ disk[Bin(i)] = Missing /\ Pass(1)
  <2>1. Skip(1) /\ UNCHANGED <<writing, disk>>
    BY <1>7 DEF Pass
  <2>2. ~writing
    BY <1>1, <1>2, <1>7 DEF Prepared
  <2>3. Orderly(agenda') /\ ~Doing("set")' /\ (Doing("mark")' => Item' = i)
    BY <1>1, <1>2, <1>3, <2>1, NextStep
  <2>4. Types'
    BY <1>1, <1>5, <2>1, <2>3 DEF DiskTypes, OtherTypes
  <2>5. KeptAll'
    BY <1>1, <1>5, <2>1, KeptElsewhere
  <2>6. disk[Bin(i)] = original[i] /\ disk[Backup(i)] = original[i]
    BY <1>2, <1>7 DEF Kept
  <2>7. Prepared'
    BY <1>5, <1>7, <2>1, <2>2, <2>3, <2>6 DEF Prepared
  <2>8. Marked'
    BY <1>1, <1>2, <1>3, <2>1, MarkedFrame
  <2>9. Removing' /\ AfterRemoval' /\ Driver'
    BY <1>1, <1>2, <1>5, <2>1, InstallFrame
  <2>10. ServerSafe'
    BY <1>1, <1>2, <1>3, <1>5, <2>1, ServerFrame
  <2> QED
    BY <2>4, <2>5, <2>7, <2>8, <2>9, <2>10 DEF IInv
<1>8. CASE disk[State(i)] = Missing /\ disk[Bin(i)] # Missing /\ Write(Backup(i), disk[Bin(i)])
  <2>1. PICK c : /\ disk' = Put(Backup(i), c) /\ c \in Contents /\ writing' = ~writing
                 /\ \/ UNCHANGED agenda /\ ~writing
                    \/ Skip(1) /\ writing /\ c = disk[Bin(i)]
    BY <1>4, <1>8, ContentsThere DEF Write
  <2>2. /\ DiskTypes'
        /\ disk'[Backup(i)] = c
        /\ \A q \in DOMAIN disk : q # Backup(i) => disk'[q] = disk[q]
    BY <1>1, <1>4, <2>1, PutTyped, PutIs
  <2>3. /\ UNCHANGED <<disk[Server], disk[Real], disk[Compat], disk[Devcon], disk[Disabled]>>
        /\ \A j \in Items : UNCHANGED <<disk[State(j)], disk[Bin(j)]>>
        /\ \A j \in Items : j # i => UNCHANGED disk[Backup(j)]
    BY <1>1, <1>2, <2>2, PlacesThere, PlacesApart, FixedApart DEF DiskTypes
  <2>4. Orderly(agenda')
    BY <1>1, <1>2, <2>1, NextStep
  <2>5. Types'
    BY <1>1, <1>5, <2>1, <2>2, <2>4 DEF OtherTypes
  <2>6. Kept(i)'
    BY <1>2, <1>5, <1>8, <2>3, Names, ContentsApart DEF Kept
  <2>7. KeptAll'
    BY <1>1, <1>2, <1>5, <2>3, <2>6, KeptElsewhere
  <2>8. Prepared'
    <3>1. CASE UNCHANGED agenda /\ ~writing
      <4>1. /\ Doing("save")' /\ Item' = i /\ ~Doing("mark")' /\ ~Doing("set")' /\ ~Doing("record")'
            /\ ~Doing("restore")' /\ ~Idle' /\ Head(agenda').do = "save"
        BY <1>2, <3>1 DEF Doing, Item, Idle
      <4> QED
        BY <1>2, <1>8, <2>3, <4>1 DEF Prepared
    <3>2. CASE Skip(1) /\ writing /\ c = disk[Bin(i)]
      <4>1. ~writing' /\ ~Doing("set")' /\ (Doing("mark")' => Item' = i)
        BY <1>1, <1>2, <1>3, <2>1, <3>2, NextStep
      <4>2. disk[Bin(i)] = original[i]
        BY <1>2, <1>8 DEF Kept
      <4> QED
        BY <1>2, <1>5, <1>8, <2>2, <2>3, <3>2, <4>1, <4>2 DEF Prepared
    <3> QED
      BY <2>1, <3>1, <3>2
  <2>9. Marked'
    BY <1>1, <1>2, <1>3, <2>1, <2>3, Names, MarkedFrame
  <2>10. Removing' /\ AfterRemoval' /\ Driver'
    BY <1>1, <1>2, <1>5, <2>1, <2>3, InstallFrame
  <2>11. ServerSafe'
    BY <1>1, <1>2, <1>3, <1>5, <2>1, <2>3, ServerFrame
  <2> QED
    BY <2>5, <2>7, <2>8, <2>9, <2>10, <2>11 DEF IInv
<1> QED
  BY <1>2, <1>6, <1>7, <1>8 DEF SaveOriginal

LEMMA MarkStep ==
    ASSUME IInv, Mark, NEW i \in Range(Dlls), i = Item
    PROVE  IInv'
<1>1. /\ Types /\ KeptAll /\ Prepared /\ Marked /\ Removing /\ Driver /\ AfterRemoval /\ ServerSafe
      /\ Orderly(agenda) /\ DiskTypes /\ OtherTypes
  BY DEF IInv, Types
<1>2. ~Idle /\ Installing /\ ~Uninstalling /\ Doing("mark") /\ i \in Items /\ Kept(i)
  BY <1>1, StepIs, Names DEF Mark, KeptAll, InstallActs
<1>3. /\ ~Doing("record") /\ ~Doing("set") /\ ~Doing("save")
      /\ ~Doing("server") /\ ~Doing("launcher") /\ ~Doing("restore server")
  BY <1>2 DEF Doing
<1> DEFINE c == IF disk[Bin(i)] = Missing THEN Absent ELSE Present
<1>4. /\ DiskTypes' /\ OtherTypes' /\ writing' = ~writing
      /\ UNCHANGED <<enabled, guard, version, package, original, misread, undeleted, outlived, removed, excuses>>
      /\ \A q \in DOMAIN disk : q # State(i) => disk'[q] = disk[q]
      /\ \/ UNCHANGED agenda /\ ~writing /\ disk'[State(i)] = Torn
         \/ Skip(1) /\ writing /\ disk'[State(i)] = c
  <2>1. Write(State(i), c) /\ State(i) \in States /\ c \in {Missing, Torn, Present, Absent}
    BY <1>2, PlacesThere DEF Mark
  <2> QED
    BY <1>1, <2>1, WriteIs
<1>5. /\ UNCHANGED <<disk[Server], disk[Real], disk[Compat], disk[Devcon], disk[Disabled]>>
      /\ \A j \in Items : j # i => UNCHANGED <<disk[State(j)], disk[Bin(j)], disk[Backup(j)]>>
      /\ UNCHANGED <<disk[Bin(i)], disk[Backup(i)]>>
  <2>1. Bin(i) \notin {State(i)} /\ Backup(i) \notin {State(i)}
    BY PlacesApart
  <2> QED
    BY <1>1, <1>2, <1>4, <2>1, OthersUntouched
<1>6. disk[Bin(i)] = original[i] /\ disk[Backup(i)] = original[i]
  BY <1>1, <1>2 DEF Prepared
<1>7. Types'
  BY <1>1, <1>2, <1>4, NextStep DEF Types
<1>8. KeptAll'
  <2>1. Kept(i)'
    BY <1>4, <1>5, <1>6, ContentsApart DEF Kept
  <2> QED
    BY <1>1, <1>4, <1>5, <2>1, KeptElsewhere DEF KeptAll
<1>9. Prepared'
  <2>1. CASE UNCHANGED agenda /\ ~writing /\ disk'[State(i)] = Torn
    <3>1. /\ Doing("mark")' /\ Item' = i /\ ~Doing("save")' /\ ~Doing("set")' /\ ~Doing("record")'
          /\ ~Doing("restore")' /\ ~Idle' /\ Head(agenda').do = "mark"
      BY <1>2, <2>1 DEF Doing, Item, Idle
    <3> QED
      BY <1>4, <1>5, <1>6, <2>1, <3>1 DEF Prepared
  <2>2. CASE Skip(1) /\ writing
    BY <1>1, <1>2, <1>3, <1>4, <2>2, PreparedFrame
  <2> QED
    BY <1>4, <2>1, <2>2
<1>10. Marked'
  <2>1. \A j \in Range(Dlls) : disk[State(j)] # Missing => disk'[State(j)] # Missing
    BY <1>4, <1>5, Names, ContentsApart
  <2>2. UNCHANGED agenda \/ disk'[State(Item)] # Missing
    BY <1>4, ContentsApart
  <2> QED
    BY <1>1, <1>2, <1>4, <2>1, <2>2, MarkedFrame
<1>11. Removing' /\ AfterRemoval' /\ Driver'
  BY <1>1, <1>2, <1>4, <1>5, InstallFrame
<1>12. ServerSafe'
  BY <1>1, <1>2, <1>3, <1>4, <1>5, ServerFrame
<1> QED
  BY <1>7, <1>8, <1>9, <1>10, <1>11, <1>12 DEF IInv

LEMMA DllStep ==
    ASSUME IInv, InstallDll, NEW i \in Range(Dlls), i = Item
    PROVE  IInv'
<1>1. /\ Types /\ KeptAll /\ Prepared /\ Marked /\ Removing /\ Driver /\ AfterRemoval /\ ServerSafe
      /\ Orderly(agenda) /\ DiskTypes /\ OtherTypes
  BY DEF IInv, Types
<1>2. ~Idle /\ Installing /\ ~Uninstalling /\ Doing("dll") /\ i \in Items /\ Kept(i)
  BY <1>1, StepIs, Names DEF InstallDll, KeptAll, InstallActs
<1>3. /\ ~Doing("mark") /\ ~Doing("record") /\ ~Doing("set")
      /\ ~Doing("save") /\ ~Doing("server") /\ ~Doing("launcher") /\ ~Doing("restore server")
  BY <1>2 DEF Doing
<1>4. /\ DiskTypes' /\ OtherTypes' /\ writing' = ~writing
      /\ UNCHANGED <<enabled, guard, version, package, original, misread, undeleted, outlived, removed, excuses>>
      /\ \A q \in DOMAIN disk : q # Bin(i) => disk'[q] = disk[q]
      /\ \/ UNCHANGED agenda /\ ~writing /\ disk'[Bin(i)] = Torn
         \/ Skip(1) /\ writing /\ disk'[Bin(i)] = Artifact
  <2>1. Write(Bin(i), Artifact) /\ Bin(i) \in Places /\ Artifact \in Contents
    BY <1>2, PlacesThere, ContentsThere DEF InstallDll
  <2> QED
    BY <1>1, <2>1, WriteIs
<1>5. /\ UNCHANGED <<disk[Server], disk[Real], disk[Compat], disk[Devcon], disk[Disabled]>>
      /\ \A j \in Items : j # i => UNCHANGED <<disk[State(j)], disk[Bin(j)], disk[Backup(j)]>>
      /\ UNCHANGED <<disk[State(i)], disk[Backup(i)]>>
  <2>1. State(i) \notin {Bin(i)} /\ Backup(i) \notin {Bin(i)}
    BY PlacesApart
  <2> QED
    BY <1>1, <1>2, <1>4, <2>1, OthersUntouched
<1>6. disk[State(i)] # Missing
  <2>1. ~AheadFor("mark", i)
    BY <1>1, <1>2, DllsAfterMarks
  <2> QED
    BY <1>1, <1>2, <2>1 DEF Marked
<1>7. Types'
  BY <1>1, <1>2, <1>4, NextStep DEF Types
<1>8. KeptAll'
  <2>1. Kept(i)'
    BY <1>2, <1>4, <1>5, <1>6 DEF Kept
  <2> QED
    BY <1>1, <1>4, <1>5, <2>1, KeptElsewhere DEF KeptAll
<1>9. Prepared'
  <2>1. CASE UNCHANGED agenda /\ ~writing
    <3>1. /\ ~Doing("mark")' /\ ~Doing("save")' /\ ~Doing("set")' /\ ~Doing("record")'
          /\ ~Doing("restore")' /\ ~Idle' /\ Head(agenda').do = "dll"
      BY <1>2, <2>1 DEF Doing, Idle
    <3> QED
      BY <3>1 DEF Prepared
  <2>2. CASE Skip(1) /\ writing
    BY <1>1, <1>2, <1>3, <1>4, <2>2, PreparedFrame
  <2> QED
    BY <1>4, <2>1, <2>2
<1>10. Marked'
  BY <1>1, <1>2, <1>3, <1>4, <1>5, Names, MarkedFrame
<1>11. Removing' /\ AfterRemoval' /\ Driver'
  BY <1>1, <1>2, <1>4, <1>5, InstallFrame
<1>12. ServerSafe'
  BY <1>1, <1>2, <1>3, <1>4, <1>5, ServerFrame
<1> QED
  BY <1>7, <1>8, <1>9, <1>10, <1>11, <1>12 DEF IInv

LEMMA RecordStep ==
    ASSUME IInv, Record, NEW i \in Range(Values), i = Item
    PROVE  IInv'
<1>1. /\ Types /\ KeptAll /\ Prepared /\ Marked /\ Removing /\ Driver /\ AfterRemoval /\ ServerSafe
      /\ Orderly(agenda) /\ DiskTypes /\ OtherTypes
  BY DEF IInv, Types
<1>2. ~Idle /\ Installing /\ ~Uninstalling /\ Doing("record") /\ i \in Items /\ Kept(i)
  BY <1>1, StepIs, Names DEF Record, KeptAll, InstallActs
<1>3. /\ ~Doing("mark") /\ ~Doing("set") /\ ~Doing("save")
      /\ ~Doing("server") /\ ~Doing("launcher") /\ ~Doing("restore server")
  BY <1>2 DEF Doing
<1>4. writing => disk[State(i)] = Torn /\ disk[Bin(i)] = original[i]
  BY <1>1, <1>2 DEF Prepared
<1>5. PICK touched \in SUBSET {State(i), Backup(i)} :
        /\ DiskTypes' /\ OtherTypes'
        /\ UNCHANGED <<enabled, guard, version, package, original, undeleted, outlived, removed, excuses>>
        /\ \A q \in DOMAIN disk : q \notin touched => disk'[q] = disk[q]
        /\ disk'[State(i)] # Missing
        /\ misread \subseteq misread'
        /\ \/ UNCHANGED <<agenda, misread>> /\ ~writing /\ writing' /\ disk[State(i)] = Missing /\ disk'[State(i)] = Torn
           \/ Skip(1) /\ ~writing' /\ UNCHANGED disk
           \/ /\ Skip(1) /\ ~writing' /\ writing
              /\ \/ disk'[State(i)] = Present /\ disk'[Backup(i)] = disk[Bin(i)]
                 \/ disk'[State(i)] = Absent /\ (disk[Bin(i)] = Missing \/ i \in misread')
  <2>1. CASE disk[State(i)] # Missing /\ ~writing /\ Pass(1)
    <3>1. /\ DiskTypes' /\ OtherTypes' /\ Skip(1)
          /\ UNCHANGED <<writing, disk, enabled, guard, version, package, original, misread, undeleted, outlived, removed, excuses>>
      BY <1>1, <2>1, PassIs
    <3>2. {} \in SUBSET {State(i), Backup(i)}
      OBVIOUS
    <3> QED
      BY <2>1, <3>1, <3>2
  <2>2. CASE disk[State(i)] = Missing /\ Write(State(i), Absent)
    <3>1. State(i) \in States /\ Absent \in {Missing, Torn, Present, Absent}
      BY <1>2, PlacesThere
    <3>2. /\ DiskTypes' /\ OtherTypes' /\ writing' = ~writing
          /\ UNCHANGED <<enabled, guard, version, package, original, misread, undeleted, outlived, removed, excuses>>
          /\ \A q \in DOMAIN disk : q # State(i) => disk'[q] = disk[q]
          /\ \/ UNCHANGED agenda /\ ~writing /\ disk'[State(i)] = Torn
             \/ Skip(1) /\ writing /\ disk'[State(i)] = Absent
      BY <1>1, <2>2, <3>1, WriteIs
    <3>3. ~writing
      BY <1>4, <2>2, ContentsApart
    <3>4. {State(i)} \in SUBSET {State(i), Backup(i)}
      OBVIOUS
    <3>5. \A q \in DOMAIN disk : q \notin {State(i)} => disk'[q] = disk[q]
      BY <3>2
    <3> QED
      BY <2>2, <3>2, <3>3, <3>4, <3>5, ContentsApart
  <2>3. CASE /\ writing
             /\ \E answers \in BOOLEAN :
                  LET found == answers /\ disk[Bin(i)] # Missing IN
                  /\ disk' = [disk EXCEPT ![State(i)] = IF found THEN Present ELSE Absent,
                                         ![Backup(i)] = IF found THEN disk[Bin(i)] ELSE Missing]
                  /\ misread' = IF found \/ disk[Bin(i)] = Missing THEN misread ELSE misread \cup {i}
             /\ writing' = FALSE /\ Skip(1) /\ UNCHANGED undeleted /\ Untouched
    <3>1. PICK answers \in BOOLEAN :
              LET found == answers /\ disk[Bin(i)] # Missing IN
              /\ disk' = [disk EXCEPT ![State(i)] = IF found THEN Present ELSE Absent,
                                     ![Backup(i)] = IF found THEN disk[Bin(i)] ELSE Missing]
              /\ misread' = IF found \/ disk[Bin(i)] = Missing THEN misread ELSE misread \cup {i}
      BY <2>3
    <3>2. PICK found \in BOOLEAN : found = (answers /\ disk[Bin(i)] # Missing)
      OBVIOUS
    <3>3. disk' = [disk EXCEPT ![State(i)] = IF found THEN Present ELSE Absent,
                             ![Backup(i)] = IF found THEN disk[Bin(i)] ELSE Missing]
      BY <3>1, <3>2
    <3>4. /\ State(i) \in DOMAIN disk /\ Backup(i) \in DOMAIN disk /\ State(i) \in States /\ Backup(i) \in Places
          /\ disk[Bin(i)] \in Contents /\ State(i) # Backup(i)
      BY <1>1, <1>2, PlacesThere, PlacesApart DEF DiskTypes
    <3>5. /\ DOMAIN disk' = DOMAIN disk
          /\ \A q \in DOMAIN disk : q \notin {State(i), Backup(i)} => disk'[q] = disk[q]
          /\ disk'[State(i)] = IF found THEN Present ELSE Absent
          /\ disk'[Backup(i)] = IF found THEN disk[Bin(i)] ELSE Missing
      BY <3>3, <3>4
    <3>6. DiskTypes'
      <4>1. \A s \in States : disk'[s] \in {Missing, Torn, Present, Absent}
        BY <1>1, <3>4, <3>5, PlacesThere DEF DiskTypes
      <4>2. \A p \in Places : disk'[p] \in Contents
        BY <1>1, <3>4, <3>5, PlacesThere, ContentsThere DEF DiskTypes
      <4> QED
        BY <1>1, <3>5, <4>1, <4>2 DEF DiskTypes
    <3>7. UNCHANGED <<enabled, guard, version, package, original, undeleted, outlived, removed, excuses>>
      BY <2>3 DEF Untouched, world
    <3>8. misread' \subseteq Range(Values) /\ misread \subseteq misread'
      BY <1>1, <3>1 DEF OtherTypes
    <3>9. OtherTypes'
      BY <1>1, <2>3, <3>7, <3>8 DEF OtherTypes
    <3>10. \/ disk'[State(i)] = Present /\ disk'[Backup(i)] = disk[Bin(i)]
           \/ disk'[State(i)] = Absent /\ (disk[Bin(i)] = Missing \/ i \in misread')
      BY <3>1, <3>2, <3>5
    <3>11. {State(i), Backup(i)} \in SUBSET {State(i), Backup(i)}
      OBVIOUS
    <3> QED
      BY <2>3, <3>5, <3>6, <3>7, <3>8, <3>9, <3>10, <3>11, ContentsApart
  <2> QED
    BY <1>2, <2>1, <2>2, <2>3 DEF Record
<1>6. /\ UNCHANGED <<disk[Server], disk[Real], disk[Compat], disk[Devcon], disk[Disabled]>>
      /\ \A j \in Items : j # i => UNCHANGED <<disk[State(j)], disk[Bin(j)], disk[Backup(j)]>>
      /\ UNCHANGED disk[Bin(i)]
  <2>1. Bin(i) \notin touched /\ touched \in SUBSET {Bin(i), Backup(i), State(i)}
    BY PlacesApart
  <2> QED
    BY <1>1, <1>2, <1>5, <2>1, OthersUntouched
<1>7. Types'
  BY <1>1, <1>2, <1>5, NextStep DEF Types
<1>8. KeptAll'
  <2>1. i \notin Range(Dlls)
    BY Names
  <2>2. Kept(i)'
    BY <1>2, <1>4, <1>5, <1>6, <2>1, ContentsApart DEF Kept
  <2>3. \A j \in Items : j # i => Kept(j)'
    BY <1>1, <1>5, <1>6, KeptElsewhere DEF KeptAll
  <2> QED
    BY <2>2, <2>3 DEF KeptAll
<1>9. Prepared'
  <2>1. CASE UNCHANGED agenda /\ ~writing /\ writing' /\ disk[State(i)] = Missing /\ disk'[State(i)] = Torn
    <3>1. /\ ~Doing("mark")' /\ ~Doing("save")' /\ ~Doing("set")' /\ Item' = i
          /\ ~Doing("restore")' /\ ~Idle' /\ Head(agenda').do = "record"
      BY <1>2, <2>1 DEF Doing, Idle, Item
    <3>2. disk[Bin(i)] = original[i]
      BY <1>2, <2>1 DEF Kept
    <3> QED
      BY <1>5, <1>6, <2>1, <3>1, <3>2 DEF Prepared
  <2>2. CASE Skip(1) /\ ~writing'
    <3>1. ~Doing("mark")' /\ (Doing("set")' => Item' = i)
      BY <1>1, <1>2, <1>3, <2>2, NextStep
    <3> QED
      BY <1>5, <2>2, <3>1 DEF Prepared
  <2> QED
    BY <1>5, <2>1, <2>2
<1>10. Marked'
  <2>1. \A j \in Range(Dlls) : UNCHANGED disk[State(j)]
    BY <1>6, Names
  <2> QED
    BY <1>1, <1>2, <1>3, <1>5, <2>1, MarkedFrame
<1>11. Removing' /\ AfterRemoval' /\ Driver'
  BY <1>1, <1>2, <1>5, <1>6, InstallFrame
<1>12. ServerSafe'
  BY <1>1, <1>2, <1>3, <1>5, <1>6, ServerFrame
<1> QED
  BY <1>7, <1>8, <1>9, <1>10, <1>11, <1>12 DEF IInv

LEMMA SetStep ==
    ASSUME IInv, SetValue, NEW i \in Range(Values), i = Item
    PROVE  IInv'
<1>1. /\ Types /\ KeptAll /\ Prepared /\ Marked /\ Removing /\ Driver /\ AfterRemoval /\ ServerSafe
      /\ Orderly(agenda) /\ DiskTypes /\ OtherTypes
  BY DEF IInv, Types
<1>2. ~Idle /\ Installing /\ ~Uninstalling /\ Doing("set") /\ i \in Items /\ Kept(i)
  BY <1>1, StepIs, Names DEF SetValue, KeptAll, InstallActs
<1>3. /\ ~Doing("mark") /\ ~Doing("record") /\ ~Doing("save")
      /\ ~Doing("server") /\ ~Doing("launcher") /\ ~Doing("restore server")
  BY <1>2 DEF Doing
<1>4. /\ DiskTypes' /\ OtherTypes' /\ Skip(1)
      /\ UNCHANGED <<writing, enabled, guard, version, package, original, misread, undeleted, outlived, removed, excuses>>
      /\ \A q \in DOMAIN disk : q # Bin(i) => disk'[q] = disk[q]
  <2>1. Do(Put(Bin(i), Artifact)) /\ Bin(i) \in Places /\ Artifact \in Contents
    BY <1>2, PlacesThere, ContentsThere DEF SetValue
  <2> QED
    BY <1>1, <2>1, DoIs
<1>5. /\ UNCHANGED <<disk[Server], disk[Real], disk[Compat], disk[Devcon], disk[Disabled]>>
      /\ \A j \in Items : j # i => UNCHANGED <<disk[State(j)], disk[Bin(j)], disk[Backup(j)]>>
      /\ UNCHANGED <<disk[State(i)], disk[Backup(i)]>>
  <2>1. State(i) \notin {Bin(i)} /\ Backup(i) \notin {Bin(i)}
    BY PlacesApart
  <2> QED
    BY <1>1, <1>2, <1>4, <2>1, OthersUntouched
<1>6. disk[State(i)] # Missing /\ ~writing
  BY <1>1, <1>2 DEF Prepared, Doing
<1>7. Types'
  BY <1>1, <1>2, <1>4, NextStep DEF Types
<1>8. KeptAll'
  <2>1. Kept(i)'
    BY <1>2, <1>4, <1>5, <1>6 DEF Kept
  <2> QED
    BY <1>1, <1>4, <1>5, <2>1, KeptElsewhere DEF KeptAll
<1>9. Prepared'
  BY <1>1, <1>2, <1>3, <1>4, <1>6, PreparedFrame
<1>10. Marked'
  BY <1>1, <1>2, <1>3, <1>4, <1>5, Names, MarkedFrame
<1>11. Removing' /\ AfterRemoval' /\ Driver'
  BY <1>1, <1>2, <1>4, <1>5, InstallFrame
<1>12. ServerSafe'
  BY <1>1, <1>2, <1>3, <1>4, <1>5, ServerFrame
<1> QED
  BY <1>7, <1>8, <1>9, <1>10, <1>11, <1>12 DEF IInv

LEMMA LauncherStep ==
    ASSUME IInv, InstallLauncher
    PROVE  IInv'
<1>1. /\ Types /\ KeptAll /\ Prepared /\ Marked /\ Removing /\ Driver /\ AfterRemoval /\ ServerSafe
      /\ Orderly(agenda) /\ DiskTypes /\ OtherTypes
  BY DEF IInv, Types
<1>2. ~Idle /\ Installing /\ ~Uninstalling /\ Doing("launcher")
  BY <1>1, StepIs DEF InstallLauncher, InstallActs
<1>3. /\ ~Doing("mark") /\ ~Doing("record") /\ ~Doing("set")
      /\ ~Doing("save") /\ ~Doing("server") /\ ~Doing("restore server")
  BY <1>2 DEF Doing
<1>4. /\ DiskTypes' /\ OtherTypes' /\ writing' = ~writing
      /\ UNCHANGED <<enabled, guard, version, package, original, misread, undeleted, outlived, removed, excuses>>
      /\ \A q \in DOMAIN disk : q # Server => disk'[q] = disk[q]
      /\ \/ UNCHANGED agenda /\ ~writing /\ disk'[Server] = Torn
         \/ Skip(1) /\ writing /\ disk'[Server] = Bridge(package)
  <2>1. Write(Server, Bridge(package)) /\ Server \in Places /\ Bridge(package) \in Contents
    BY <1>1, PlacesThere, ContentsThere DEF InstallLauncher, OtherTypes
  <2> QED
    BY <1>1, <2>1, WriteIs
<1>5. /\ \A j \in Items : UNCHANGED <<disk[State(j)], disk[Bin(j)], disk[Backup(j)]>>
      /\ UNCHANGED <<disk[Real], disk[Compat], disk[Devcon], disk[Disabled]>>
  <2>1. Real \notin {Server} /\ Compat \notin {Server} /\ Devcon \notin {Server} /\ Disabled \notin {Server}
    BY FixedApart
  <2> QED
    BY <1>1, <1>4, <2>1, ItemsUntouched
<1>6. Types'
  BY <1>1, <1>2, <1>4, NextStep DEF Types
<1>7. KeptAll'
  BY <1>1, <1>4, <1>5, KeptElsewhere DEF KeptAll
<1>8. Prepared'
  <2>1. CASE UNCHANGED agenda /\ ~writing
    <3>1. /\ ~Doing("mark")' /\ ~Doing("save")' /\ ~Doing("set")' /\ ~Doing("record")'
          /\ ~Doing("restore")' /\ ~Idle' /\ Head(agenda').do = "launcher"
      BY <1>2, <2>1 DEF Doing, Idle
    <3> QED
      BY <3>1 DEF Prepared
  <2>2. CASE Skip(1) /\ writing
    BY <1>1, <1>2, <1>3, <1>4, <2>2, PreparedFrame
  <2> QED
    BY <1>4, <2>1, <2>2
<1>9. Marked'
  BY <1>1, <1>2, <1>3, <1>4, <1>5, Names, MarkedFrame
<1>10. Removing' /\ AfterRemoval' /\ Driver'
  BY <1>1, <1>2, <1>4, <1>5, InstallFrame
<1>11. ServerSafe'
  <2> SUFFICES ASSUME excuses' = {}
               PROVE  SetAside' /\ disk'[Server] # Uu(version')
    BY DEF ServerSafe
  <2>1. disk[Real] = Uu(version)
    BY <1>1, <1>2, <1>4 DEF ServerSafe, SetAside
  <2>2. CASE UNCHANGED agenda /\ ~writing /\ disk'[Server] = Torn
    <3>1. Doing("launcher")' /\ writing'
      BY <1>1, <1>2, <1>4, <2>2 DEF Doing, OtherTypes
    <3> QED
      BY <1>4, <1>5, <2>1, <2>2, <3>1, ContentsApart DEF SetAside
  <2>3. CASE disk'[Server] = Bridge(package)
    BY <1>4, <1>5, <2>1, <2>3, ContentsApart DEF SetAside
  <2> QED
    BY <1>4, <2>2, <2>3
<1> QED
  BY <1>6, <1>7, <1>8, <1>9, <1>10, <1>11 DEF IInv

LEMMA CompatStep ==
    ASSUME IInv, InstallCompat
    PROVE  IInv'
<1>1. /\ Types /\ KeptAll /\ Prepared /\ Marked /\ Removing /\ Driver /\ AfterRemoval /\ ServerSafe
      /\ Orderly(agenda) /\ DiskTypes /\ OtherTypes
  BY DEF IInv, Types
<1>2. ~Idle /\ Installing /\ ~Uninstalling /\ Doing("compat")
  BY <1>1, StepIs DEF InstallCompat, InstallActs
<1>3. /\ ~Doing("mark") /\ ~Doing("record") /\ ~Doing("set")
      /\ ~Doing("save") /\ ~Doing("server") /\ ~Doing("launcher") /\ ~Doing("restore server")
  BY <1>2 DEF Doing
<1>4. /\ DiskTypes' /\ OtherTypes' /\ writing' = ~writing
      /\ UNCHANGED <<enabled, guard, version, package, original, misread, undeleted, outlived, removed, excuses>>
      /\ \A q \in DOMAIN disk : q # Compat => disk'[q] = disk[q]
      /\ \/ UNCHANGED agenda /\ ~writing /\ disk'[Compat] = Torn
         \/ Skip(1) /\ writing /\ disk'[Compat] = Artifact
  <2>1. Write(Compat, Artifact) /\ Compat \in Places /\ Artifact \in Contents
    BY PlacesThere, ContentsThere DEF InstallCompat
  <2> QED
    BY <1>1, <2>1, WriteIs
<1>5. /\ \A j \in Items : UNCHANGED <<disk[State(j)], disk[Bin(j)], disk[Backup(j)]>>
      /\ UNCHANGED <<disk[Server], disk[Real], disk[Devcon], disk[Disabled]>>
  <2>1. Server \notin {Compat} /\ Real \notin {Compat} /\ Devcon \notin {Compat} /\ Disabled \notin {Compat}
    BY FixedApart
  <2> QED
    BY <1>1, <1>4, <2>1, ItemsUntouched
<1>6. Types'
  BY <1>1, <1>2, <1>4, NextStep DEF Types
<1>7. KeptAll'
  BY <1>1, <1>4, <1>5, KeptElsewhere DEF KeptAll
<1>8. Prepared'
  <2>1. CASE UNCHANGED agenda /\ ~writing
    <3>1. /\ ~Doing("mark")' /\ ~Doing("save")' /\ ~Doing("set")' /\ ~Doing("record")'
          /\ ~Doing("restore")' /\ ~Idle' /\ Head(agenda').do = "compat"
      BY <1>2, <2>1 DEF Doing, Idle
    <3> QED
      BY <3>1 DEF Prepared
  <2>2. CASE Skip(1) /\ writing
    BY <1>1, <1>2, <1>3, <1>4, <2>2, PreparedFrame
  <2> QED
    BY <1>4, <2>1, <2>2
<1>9. Marked'
  BY <1>1, <1>2, <1>3, <1>4, <1>5, Names, MarkedFrame
<1>10. Removing' /\ AfterRemoval' /\ Driver'
  BY <1>1, <1>2, <1>4, <1>5, InstallFrame
<1>11. ServerSafe'
  BY <1>1, <1>2, <1>3, <1>4, <1>5, ServerFrame
<1> QED
  BY <1>6, <1>7, <1>8, <1>9, <1>10, <1>11 DEF IInv

LEMMA EnableStep ==
    ASSUME IInv, Enable
    PROVE  IInv'
<1>1. /\ Types /\ KeptAll /\ Prepared /\ Marked /\ Removing /\ Driver /\ AfterRemoval /\ ServerSafe
      /\ Orderly(agenda) /\ DiskTypes /\ OtherTypes
  BY DEF IInv, Types
<1>2. ~Idle /\ Installing /\ ~Uninstalling /\ Doing("enable")
  BY <1>1, StepIs DEF Enable, InstallActs
<1>3. /\ ~Doing("mark") /\ ~Doing("record") /\ ~Doing("set")
      /\ ~Doing("save") /\ ~Doing("server") /\ ~Doing("launcher") /\ ~Doing("restore server")
  BY <1>2 DEF Doing
<1>4. /\ Skip(1) /\ enabled' = TRUE /\ guard' = "none"
      /\ UNCHANGED <<writing, disk, version, package, original, misread, undeleted, outlived, removed, excuses>>
  BY DEF Enable, world, history
<1>5. ~writing
  BY <1>1, <1>2 DEF Prepared, Doing
<1>6. Types'
  BY <1>1, <1>2, <1>4, NextStep DEF Types, DiskTypes, OtherTypes
<1>7. KeptAll'
  BY <1>1, <1>4, KeptElsewhere DEF KeptAll
<1>8. Prepared'
  BY <1>1, <1>2, <1>3, <1>4, <1>5, PreparedFrame
<1>9. Marked'
  BY <1>1, <1>2, <1>3, <1>4, MarkedFrame
<1>10. Removing' /\ AfterRemoval' /\ Driver'
  BY <1>1, <1>2, <1>4, InstallFrame
<1>11. ServerSafe'
  BY <1>1, <1>2, <1>3, <1>4, ServerFrame
<1> QED
  BY <1>6, <1>7, <1>8, <1>9, <1>10, <1>11 DEF IInv

\* A script that has ended has an orderly rest.
LEMMA NothingLeft == Orderly(<<>>)
<1>1. <<>> \in Seq(StepsOf(InstallActs)) /\ Len(<<>>) = 0
  OBVIOUS
<1> QED
  BY <1>1 DEF Orderly

\* The server is set aside (install.sh:76-83).
LEMMA MoveServerStep ==
    ASSUME IInv, MoveServer
    PROVE  IInv'
<1>1. /\ Types /\ KeptAll /\ Prepared /\ Marked /\ Removing /\ Driver /\ AfterRemoval /\ ServerSafe
      /\ Orderly(agenda) /\ DiskTypes /\ OtherTypes
  BY DEF IInv, Types
<1>2. ~Idle /\ Installing /\ ~Uninstalling /\ Doing("server")
  BY <1>1, StepIs DEF MoveServer, InstallActs
<1>3. /\ ~Doing("mark") /\ ~Doing("record") /\ ~Doing("set")
      /\ ~Doing("save") /\ ~Doing("launcher") /\ ~Doing("restore server")
  BY <1>2 DEF Doing
<1>4. ~writing
  BY <1>1, <1>2 DEF Prepared, Doing
<1>5. CASE disk[Server] = Missing /\ Exit /\ UNCHANGED <<writing, disk, misread, undeleted>> /\ Untouched
  <2>1. /\ Idle' /\ agenda' = <<>> /\ Len(agenda') = 0
        /\ UNCHANGED <<writing, disk, enabled, guard, version, package, original, misread, undeleted, outlived, removed, excuses>>
    BY <1>5 DEF Exit, Idle, Untouched, world
  <2>2. /\ ~Doing("mark")' /\ ~Doing("set")' /\ ~Doing("launcher")' /\ ~Ahead("restore server")'
        /\ ~Installing' /\ ~Uninstalling'
    BY <2>1 DEF Doing, Idle, Ahead, Installing, Uninstalling
  <2>3. Types'
    BY <1>1, <2>1, NothingLeft DEF Types, DiskTypes, OtherTypes
  <2>4. KeptAll'
    BY <1>1, <2>1, KeptElsewhere DEF KeptAll
  <2>5. Prepared' /\ Marked' /\ Removing'
    BY <1>4, <2>1, <2>2 DEF Prepared, Marked, Removing
  <2>6. Driver' /\ AfterRemoval'
    BY <1>1, <1>2, <2>1 DEF Driver, DriverPlaced, DriverThere, AfterRemoval
  <2>7. ServerSafe'
    BY <1>1, <1>3, <2>1, <2>2 DEF ServerSafe, SetAside
  <2> QED
    BY <2>3, <2>4, <2>5, <2>6, <2>7 DEF IInv
<1>6. CASE disk[Real] # Missing /\ disk[Server] = Bridge(package) /\ Pass(1)
  <2>1. /\ DiskTypes' /\ OtherTypes' /\ Skip(1)
        /\ UNCHANGED <<writing, disk, enabled, guard, version, package, original, misread, undeleted, outlived, removed, excuses>>
    BY <1>1, <1>6, PassIs
  <2>2. Types'
    BY <1>1, <1>2, <2>1, NextStep DEF Types
  <2>3. KeptAll'
    BY <1>1, <2>1, KeptElsewhere DEF KeptAll
  <2>4. Prepared'
    BY <1>1, <1>2, <1>3, <1>4, <2>1, PreparedFrame
  <2>5. Marked'
    BY <1>1, <1>2, <1>3, <2>1, MarkedFrame
  <2>6. Removing' /\ AfterRemoval' /\ Driver'
    BY <1>1, <1>2, <2>1, InstallFrame
  <2>7. ServerSafe'
    BY <1>1, <1>6, <2>1, ContentsApart DEF ServerSafe, SetAside
  <2> QED
    BY <2>2, <2>3, <2>4, <2>5, <2>6, <2>7 DEF IInv
<1>7. CASE /\ disk[Server] # Missing
           /\ disk[Real] # Missing => disk[Server] # Bridge(package)
           /\ Do(Move(Server, Real))
  <2>1. /\ DiskTypes' /\ OtherTypes' /\ Skip(1)
        /\ UNCHANGED <<writing, enabled, guard, version, package, original, misread, undeleted, outlived, removed, excuses>>
        /\ disk'[Real] = disk[Server] /\ disk'[Server] = Missing
        /\ \A q \in DOMAIN disk : q \notin {Server, Real} => disk'[q] = disk[q]
    BY <1>1, <1>7, MoveDone, PlacesThere, FixedApart
  <2>2. /\ \A j \in Items : UNCHANGED <<disk[State(j)], disk[Bin(j)], disk[Backup(j)]>>
        /\ UNCHANGED <<disk[Compat], disk[Devcon], disk[Disabled]>>
    <3>1. Compat \notin {Server, Real} /\ Devcon \notin {Server, Real} /\ Disabled \notin {Server, Real}
      BY FixedApart
    <3> QED
      BY <1>1, <2>1, <3>1, ItemsUntouched
  <2>3. Types'
    BY <1>1, <1>2, <2>1, NextStep DEF Types
  <2>4. KeptAll'
    BY <1>1, <2>1, <2>2, KeptElsewhere DEF KeptAll
  <2>5. Prepared'
    BY <1>1, <1>2, <1>3, <1>4, <2>1, PreparedFrame
  <2>6. Marked'
    BY <1>1, <1>2, <1>3, <2>1, <2>2, Names, MarkedFrame
  <2>7. Removing' /\ AfterRemoval' /\ Driver'
    BY <1>1, <1>2, <2>1, <2>2, InstallFrame
  <2>8. ServerSafe'
    <3>1. excuses = {} => disk[Server] = Uu(version)
      BY <1>1, <1>3, <1>7, ContentsApart DEF ServerSafe, SetAside
    <3> QED
      BY <2>1, <3>1, ContentsApart DEF ServerSafe, SetAside
  <2> QED
    BY <2>3, <2>4, <2>5, <2>6, <2>7, <2>8 DEF IInv
<1> QED
  BY <1>5, <1>6, <1>7 DEF MoveServer

-----------------------------------------------------------------------------
(* uninstall.sh *)

\* Of the scripts' steps only "restore devcon" touches the driver installer.
LEMMA DriverFrame ==
    ASSUME Driver, UNCHANGED <<guard, outlived, disk[Devcon], disk[Disabled]>>
    PROVE  Driver'
  BY DEF Driver, DriverPlaced, DriverThere

\* What has been put back stays so, and what a step was there for is done with it.
LEMMA RemovingFrame ==
    ASSUME Orderly(agenda), Removing, Uninstalling, UNCHANGED agenda \/ Skip(1),
           UNCHANGED <<enabled, guard, outlived>>,
           \A j \in Items : PutBack(j) =>
              PutBack(j)' \/ (UNCHANGED agenda /\ (Doing("restore") \/ Doing("reset")) /\ Item = j),
           \A j \in Items : Skip(1) /\ (Doing("restore") \/ Doing("reset")) /\ Item = j => PutBack(j)',
           disk[Real] = Missing => disk'[Real] = Missing,
           disk[Compat] = Missing => disk'[Compat] = Missing,
           DriverThere => DriverThere',
           Skip(1) /\ Doing("restore server") => disk'[Real] = Missing,
           Skip(1) /\ Doing("remove compat") => disk'[Compat] = Missing,
           Skip(1) /\ Doing("restore devcon") => outlived \/ DriverThere'
    PROVE  Removing'
<1>1. ~Idle
  BY DEF Uninstalling
<1>2. \A act, j : AheadFor(act, j) => AheadFor(act, j)' \/ (Skip(1) /\ Doing(act) /\ Item = j)
  <2>1. CASE UNCHANGED agenda
    BY <2>1 DEF AheadFor
  <2>2. CASE Skip(1)
    <3>1. \A act, i : AheadFor(act, i) => AheadFor(act, i)' \/ (Doing(act) /\ Item = i)
      BY <1>1, <2>2, NextStep
    <3> QED
      BY <2>2, <3>1
  <2> QED
    BY <2>1, <2>2
<1>3. \A act : Ahead(act) => Ahead(act)' \/ (Skip(1) /\ Doing(act))
  <2>1. CASE UNCHANGED agenda
    BY <2>1 DEF Ahead
  <2>2. CASE Skip(1)
    BY <1>1, <2>2, NextStep
  <2> QED
    BY <2>1, <2>2
<1>4. outlived' \/ Stopped'
  BY DEF Removing, Stopped
<1>5. \A j \in Items : PutBack(j)' \/ AheadFor("restore", j)' \/ AheadFor("reset", j)'
  <2> TAKE j \in Items
  <2>1. CASE PutBack(j)
    <3>1. CASE PutBack(j)'
      BY <3>1
    <3>2. CASE UNCHANGED agenda /\ (Doing("restore") \/ Doing("reset")) /\ Item = j
      <4>1. AheadFor("restore", j) \/ AheadFor("reset", j)
        BY <3>2, HeadAhead
      <4> QED
        BY <3>2, <4>1 DEF AheadFor
    <3> QED
      BY <2>1, <3>1, <3>2
  <2>2. CASE ~PutBack(j)
    <3>1. AheadFor("restore", j) \/ AheadFor("reset", j)
      BY <2>2 DEF Removing
    <3> QED
      BY <1>2, <3>1
  <2> QED
    BY <2>1, <2>2
<1>6. disk'[Real] = Missing \/ Ahead("restore server")'
  BY <1>3 DEF Removing
<1>7. disk'[Compat] = Missing \/ Ahead("remove compat")'
  BY <1>3 DEF Removing
<1>8. outlived' \/ DriverThere' \/ Ahead("restore devcon")'
  BY <1>3 DEF Removing
<1> QED
  BY <1>4, <1>5, <1>6, <1>7, <1>8 DEF Removing

\* uninstall.sh, step by step (uninstall.sh:25-85).
LEMMA RestoreStep ==
    ASSUME IInv, Restore, NEW i \in Range(Dlls), i = Item
    PROVE  IInv'
<1>1. /\ Types /\ KeptAll /\ Prepared /\ Marked /\ Removing /\ Driver /\ AfterRemoval /\ ServerSafe
      /\ Orderly(agenda) /\ DiskTypes /\ OtherTypes
  BY DEF IInv, Types
<1>2. ~Idle /\ Uninstalling /\ ~Installing /\ Doing("restore") /\ i \in Items /\ Kept(i)
  BY <1>1, StepIs, Names DEF Restore, KeptAll, UninstallActs
<1>3. /\ ~Doing("mark") /\ ~Doing("record") /\ ~Doing("set")
      /\ ~Doing("save") /\ ~Doing("server") /\ ~Doing("launcher") /\ ~Doing("restore server")
  BY <1>2 DEF Doing
<1>4. PICK touched \in SUBSET {Bin(i)} :
        /\ DiskTypes' /\ OtherTypes'
        /\ UNCHANGED <<enabled, guard, version, package, original, misread, undeleted, outlived, removed, excuses>>
        /\ \A q \in DOMAIN disk : q \notin touched => disk'[q] = disk[q]
        /\ touched = {} \/ disk[State(i)] # Missing
        /\ \/ UNCHANGED agenda /\ ~writing /\ writing' /\ disk[State(i)] = Present
           \/ /\ Skip(1) /\ ~writing'
              /\ \/ disk[State(i)] \in {Missing, Torn} /\ touched = {}
                 \/ disk[State(i)] = Absent /\ disk'[Bin(i)] = Missing
                 \/ disk[State(i)] = Present /\ disk'[Bin(i)] = disk[Backup(i)]
  <2>1. {} \in SUBSET {Bin(i)} /\ {Bin(i)} \in SUBSET {Bin(i)}
    OBVIOUS
  <2>2. Bin(i) \in Places /\ Missing \in Contents /\ disk[Backup(i)] \in Contents
    BY <1>1, <1>2, PlacesThere, ContentsThere DEF DiskTypes
  <2>3. writing => disk[State(i)] = Present
    BY <1>1, <1>2 DEF Prepared
  <2>4. CASE disk[State(i)] \in {Missing, Torn} /\ Pass(1)
    <3>1. /\ DiskTypes' /\ OtherTypes' /\ Skip(1)
          /\ UNCHANGED <<writing, disk, enabled, guard, version, package, original, misread, undeleted, outlived, removed, excuses>>
      BY <1>1, <2>4, PassIs
    <3> QED
      BY <1>1, <2>1, <2>3, <2>4, <3>1, ContentsApart DEF OtherTypes
  <2>5. CASE disk[State(i)] = Absent /\ Do(Put(Bin(i), Missing))
    <3>1. /\ DiskTypes' /\ OtherTypes' /\ Skip(1)
          /\ UNCHANGED <<writing, enabled, guard, version, package, original, misread, undeleted, outlived, removed, excuses>>
          /\ disk'[Bin(i)] = Missing
          /\ \A q \in DOMAIN disk : q # Bin(i) => disk'[q] = disk[q]
      BY <1>1, <2>2, <2>5, DoIs
    <3> QED
      BY <1>1, <2>1, <2>3, <2>5, <3>1, ContentsApart DEF OtherTypes
  <2>6. CASE disk[State(i)] = Present /\ Write(Bin(i), disk[Backup(i)])
    <3>1. /\ DiskTypes' /\ OtherTypes' /\ writing' = ~writing
          /\ UNCHANGED <<enabled, guard, version, package, original, misread, undeleted, outlived, removed, excuses>>
          /\ \A q \in DOMAIN disk : q # Bin(i) => disk'[q] = disk[q]
          /\ \/ UNCHANGED agenda /\ ~writing /\ disk'[Bin(i)] = Torn
             \/ Skip(1) /\ writing /\ disk'[Bin(i)] = disk[Backup(i)]
      BY <1>1, <2>2, <2>6, WriteIs
    <3> QED
      BY <2>1, <2>6, <3>1, ContentsApart
  <2> QED
    BY <1>2, <2>4, <2>5, <2>6 DEF Restore
<1>5. /\ UNCHANGED <<disk[Server], disk[Real], disk[Compat], disk[Devcon], disk[Disabled]>>
      /\ \A j \in Items : j # i => UNCHANGED <<disk[State(j)], disk[Bin(j)], disk[Backup(j)]>>
      /\ UNCHANGED <<disk[State(i)], disk[Backup(i)]>>
      /\ touched = {} => UNCHANGED disk[Bin(i)]
  <2>1. State(i) \notin touched /\ Backup(i) \notin touched /\ touched \in SUBSET {Bin(i), Backup(i), State(i)}
    BY PlacesApart
  <2> QED
    BY <1>1, <1>2, <1>4, <2>1, OthersUntouched
<1>6. Types'
  BY <1>1, <1>2, <1>4, NextStep DEF Types
<1>7. KeptAll'
  <2>1. Kept(i)'
    BY <1>2, <1>4, <1>5 DEF Kept
  <2>2. \A j \in Items : j # i => Kept(j)'
    BY <1>1, <1>4, <1>5, KeptElsewhere DEF KeptAll
  <2> QED
    BY <2>1, <2>2 DEF KeptAll
<1>8. Prepared'
  <2>1. CASE UNCHANGED agenda /\ disk[State(i)] = Present
    <3>1. /\ ~Doing("mark")' /\ ~Doing("save")' /\ ~Doing("set")' /\ ~Doing("record")'
          /\ Item' = i /\ ~Idle' /\ Head(agenda').do = "restore"
      BY <1>2, <2>1 DEF Doing, Idle, Item
    <3> QED
      BY <1>4, <1>5, <2>1, <3>1 DEF Prepared
  <2>2. CASE Skip(1) /\ ~writing'
    BY <1>1, <1>2, <1>3, <2>2, PreparedFrame
  <2> QED
    BY <1>4, <2>1, <2>2
<1>9. Marked' /\ AfterRemoval'
  BY <1>1, <1>2, <1>4, UninstallFrame
<1>10. Driver'
  BY <1>1, <1>2, <1>4, <1>5, DriverFrame
<1>11. Removing'
  <2>1. Skip(1) => PutBack(i)'
    <3> SUFFICES ASSUME Skip(1)
                 PROVE  PutBack(i)'
      OBVIOUS
    <3>1. CASE UNCHANGED agenda
      BY <1>1, <1>2, <3>1, SkipMoves
    <3>2. CASE disk[State(i)] \in {Missing, Torn} /\ touched = {}
      BY <1>2, <1>4, <1>5, <3>2 DEF PutBack, Kept
    <3>3. CASE disk[State(i)] = Absent /\ disk'[Bin(i)] = Missing
      BY <1>2, <1>4, <3>3 DEF PutBack, Kept
    <3>4. CASE disk[State(i)] = Present /\ disk'[Bin(i)] = disk[Backup(i)]
      BY <1>2, <1>4, <3>4 DEF PutBack, Kept
    <3> QED
      BY <1>4, <3>1, <3>2, <3>3, <3>4
  <2>2. \A j \in Items : j # i => (PutBack(j) => PutBack(j)')
    BY <1>4, <1>5 DEF PutBack
  <2>3. /\ \A j \in Items : PutBack(j) =>
              PutBack(j)' \/ (UNCHANGED agenda /\ (Doing("restore") \/ Doing("reset")) /\ Item = j)
        /\ \A j \in Items : Skip(1) /\ (Doing("restore") \/ Doing("reset")) /\ Item = j => PutBack(j)'
    BY <1>2, <1>4, <2>1, <2>2
  <2>4. ~Doing("remove compat") /\ ~Doing("restore devcon")
    BY <1>2 DEF Doing
  <2> QED
    BY <1>1, <1>2, <1>3, <1>4, <1>5, <2>3, <2>4, RemovingFrame DEF DriverThere
<1>12. ServerSafe'
  BY <1>1, <1>2, <1>3, <1>4, <1>5, ServerFrame
<1> QED
  BY <1>6, <1>7, <1>8, <1>9, <1>10, <1>11, <1>12 DEF IInv

LEMMA ResetStep ==
    ASSUME IInv, ResetValue, NEW i \in Range(Values), i = Item
    PROVE  IInv'
<1>1. /\ Types /\ KeptAll /\ Prepared /\ Marked /\ Removing /\ Driver /\ AfterRemoval /\ ServerSafe
      /\ Orderly(agenda) /\ DiskTypes /\ OtherTypes
  BY DEF IInv, Types
<1>2. ~Idle /\ Uninstalling /\ ~Installing /\ Doing("reset") /\ i \in Items /\ Kept(i)
  BY <1>1, StepIs, Names DEF ResetValue, KeptAll, UninstallActs
<1>3. /\ ~Doing("mark") /\ ~Doing("record") /\ ~Doing("set")
      /\ ~Doing("save") /\ ~Doing("server") /\ ~Doing("launcher") /\ ~Doing("restore server")
  BY <1>2 DEF Doing
<1>4. PICK touched \in SUBSET {Bin(i)} :
        /\ DiskTypes' /\ OtherTypes'
        /\ UNCHANGED <<enabled, guard, version, package, original, misread, outlived, removed, excuses>>
        /\ undeleted \subseteq undeleted'
        /\ \A q \in DOMAIN disk : q \notin touched => disk'[q] = disk[q]
        /\ touched = {} \/ disk[State(i)] # Missing
        /\ Skip(1) /\ ~writing'
        /\ \/ disk[State(i)] \in {Missing, Torn} /\ touched = {}
           \/ disk[State(i)] = Absent /\ disk'[Bin(i)] = Missing
           \/ i \in undeleted' /\ touched = {}
           \/ disk[State(i)] = Present /\ disk'[Bin(i)] = disk[Backup(i)]
  <2>1. {} \in SUBSET {Bin(i)} /\ {Bin(i)} \in SUBSET {Bin(i)}
    OBVIOUS
  <2>2. Bin(i) \in Places /\ Missing \in Contents /\ disk[Backup(i)] \in Contents
    BY <1>1, <1>2, PlacesThere, ContentsThere DEF DiskTypes
  <2>3. ~writing
    BY <1>1, <1>2 DEF Prepared, Doing
  <2>4. CASE disk[State(i)] \in {Missing, Torn} /\ Pass(1)
    <3>1. /\ DiskTypes' /\ OtherTypes' /\ Skip(1)
          /\ UNCHANGED <<writing, disk, enabled, guard, version, package, original, misread, undeleted, outlived, removed, excuses>>
      BY <1>1, <2>4, PassIs
    <3> QED
      BY <1>1, <2>1, <2>3, <2>4, <3>1, ContentsApart DEF OtherTypes
  <2>5. CASE disk[State(i)] = Absent /\ Do(Put(Bin(i), Missing))
    <3>1. /\ DiskTypes' /\ OtherTypes' /\ Skip(1)
          /\ UNCHANGED <<writing, enabled, guard, version, package, original, misread, undeleted, outlived, removed, excuses>>
          /\ disk'[Bin(i)] = Missing
          /\ \A q \in DOMAIN disk : q # Bin(i) => disk'[q] = disk[q]
      BY <1>1, <2>2, <2>5, DoIs
    <3> QED
      BY <1>1, <2>1, <2>3, <2>5, <3>1, ContentsApart DEF OtherTypes
  <2>6. CASE disk[State(i)] = Present /\ Do(Put(Bin(i), disk[Backup(i)]))
    <3>1. /\ DiskTypes' /\ OtherTypes' /\ Skip(1)
          /\ UNCHANGED <<writing, enabled, guard, version, package, original, misread, undeleted, outlived, removed, excuses>>
          /\ disk'[Bin(i)] = disk[Backup(i)]
          /\ \A q \in DOMAIN disk : q # Bin(i) => disk'[q] = disk[q]
      BY <1>1, <2>2, <2>6, DoIs
    <3> QED
      BY <1>1, <2>1, <2>3, <2>6, <3>1, ContentsApart DEF OtherTypes
  <2>7. CASE NotDeleted
    <3>1. /\ undeleted' = undeleted \cup {i} /\ Skip(1)
          /\ UNCHANGED <<writing, disk, enabled, guard, version, package, original, misread, outlived, removed, excuses>>
      BY <2>7 DEF NotDeleted, Untouched, world
    <3>2. DiskTypes' /\ OtherTypes'
      BY <1>1, <3>1 DEF DiskTypes, OtherTypes
    <3> QED
      BY <1>1, <2>1, <2>3, <3>1, <3>2 DEF OtherTypes
  <2> QED
    BY <1>2, <2>4, <2>5, <2>6, <2>7 DEF ResetValue
<1>5. /\ UNCHANGED <<disk[Server], disk[Real], disk[Compat], disk[Devcon], disk[Disabled]>>
      /\ \A j \in Items : j # i => UNCHANGED <<disk[State(j)], disk[Bin(j)], disk[Backup(j)]>>
      /\ UNCHANGED <<disk[State(i)], disk[Backup(i)]>>
      /\ touched = {} => UNCHANGED disk[Bin(i)]
  <2>1. State(i) \notin touched /\ Backup(i) \notin touched /\ touched \in SUBSET {Bin(i), Backup(i), State(i)}
    BY PlacesApart
  <2> QED
    BY <1>1, <1>2, <1>4, <2>1, OthersUntouched
<1>6. Types'
  BY <1>1, <1>2, <1>4, NextStep DEF Types
<1>7. KeptAll'
  <2>1. Kept(i)'
    BY <1>2, <1>4, <1>5 DEF Kept
  <2>2. \A j \in Items : j # i => Kept(j)'
    BY <1>1, <1>4, <1>5, KeptElsewhere DEF KeptAll
  <2> QED
    BY <2>1, <2>2 DEF KeptAll
<1>8. Prepared'
  BY <1>1, <1>2, <1>3, <1>4, PreparedFrame
<1>9. Marked' /\ AfterRemoval'
  BY <1>1, <1>2, <1>4, UninstallFrame
<1>10. Driver'
  BY <1>1, <1>2, <1>4, <1>5, DriverFrame
<1>11. Removing'
  <2>1. PutBack(i)'
    <3>1. CASE disk[State(i)] \in {Missing, Torn} /\ touched = {}
      BY <1>2, <1>4, <1>5, <3>1 DEF PutBack, Kept
    <3>2. CASE disk[State(i)] = Absent /\ disk'[Bin(i)] = Missing
      BY <1>2, <1>4, <3>2 DEF PutBack, Kept
    <3>3. CASE disk[State(i)] = Present /\ disk'[Bin(i)] = disk[Backup(i)]
      BY <1>2, <1>4, <3>3 DEF PutBack, Kept
    <3>4. CASE i \in undeleted'
      BY <3>4 DEF PutBack
    <3> QED
      BY <1>4, <3>1, <3>2, <3>3, <3>4
  <2>2. \A j \in Items : j # i => (PutBack(j) => PutBack(j)')
    BY <1>4, <1>5 DEF PutBack
  <2>3. /\ \A j \in Items : PutBack(j) =>
              PutBack(j)' \/ (UNCHANGED agenda /\ (Doing("restore") \/ Doing("reset")) /\ Item = j)
        /\ \A j \in Items : Skip(1) /\ (Doing("restore") \/ Doing("reset")) /\ Item = j => PutBack(j)'
    BY <1>2, <1>4, <2>1, <2>2
  <2>4. ~Doing("remove compat") /\ ~Doing("restore devcon")
    BY <1>2 DEF Doing
  <2> QED
    BY <1>1, <1>2, <1>3, <1>4, <1>5, <2>3, <2>4, RemovingFrame DEF DriverThere
<1>12. ServerSafe'
  BY <1>1, <1>2, <1>3, <1>4, <1>5, ServerFrame
<1> QED
  BY <1>6, <1>7, <1>8, <1>9, <1>10, <1>11, <1>12 DEF IInv

LEMMA RestoreServerStep ==
    ASSUME IInv, RestoreServer
    PROVE  IInv'
<1>1. /\ Types /\ KeptAll /\ Prepared /\ Marked /\ Removing /\ Driver /\ AfterRemoval /\ ServerSafe
      /\ Orderly(agenda) /\ DiskTypes /\ OtherTypes
  BY DEF IInv, Types
<1>2. ~Idle /\ Uninstalling /\ ~Installing /\ Doing("restore server")
  BY <1>1, StepIs DEF RestoreServer, UninstallActs
<1>3. /\ ~Doing("mark") /\ ~Doing("record") /\ ~Doing("set")
      /\ ~Doing("save") /\ ~Doing("server") /\ ~Doing("launcher") /\ ~Doing("remove compat") /\ ~Doing("restore devcon")
  BY <1>2 DEF Doing
<1>4. ~writing
  BY <1>1, <1>2 DEF Prepared, Doing
<1>5. CASE disk[Real] = Missing /\ Pass(1)
  <2>1. /\ DiskTypes' /\ OtherTypes' /\ Skip(1)
        /\ UNCHANGED <<writing, disk, enabled, guard, version, package, original, misread, undeleted, outlived, removed, excuses>>
    BY <1>1, <1>5, PassIs
  <2>2. \A j \in Items : PutBack(j) <=> PutBack(j)'
    BY <2>1 DEF PutBack
  <2>3. Types'
    BY <1>1, <1>2, <2>1, NextStep DEF Types
  <2>4. KeptAll'
    BY <1>1, <2>1, <2>2, KeptElsewhere DEF KeptAll
  <2>5. Prepared'
    BY <1>1, <1>2, <1>3, <1>4, <2>1, PreparedFrame
  <2>6. Marked' /\ AfterRemoval'
    BY <1>1, <1>2, <2>1, UninstallFrame
  <2>7. Removing'
    <3>1. ~Doing("restore") /\ ~Doing("reset")
      BY <1>2 DEF Doing
    <3> QED
      BY <1>1, <1>2, <1>3, <1>4, <1>5, <2>1, <2>2, <3>1, RemovingFrame DEF DriverThere
  <2>8. Driver'
    BY <1>1, <1>2, <2>1, DriverFrame
  <2>9. ServerSafe'
    BY <1>1, <1>2, <1>3, <2>1, ServerFrame
  <2> QED
    BY <2>3, <2>4, <2>5, <2>6, <2>7, <2>8, <2>9 DEF IInv
<1>6. CASE disk[Real] # Missing /\ Do(Move(Real, Server))
  <2>1. /\ DiskTypes' /\ OtherTypes' /\ Skip(1)
        /\ UNCHANGED <<writing, enabled, guard, version, package, original, misread, undeleted, outlived, removed, excuses>>
        /\ disk'[Server] = disk[Real] /\ disk'[Real] = Missing
        /\ \A q \in DOMAIN disk : q \notin {Real, Server} => disk'[q] = disk[q]
    BY <1>1, <1>6, MoveDone, PlacesThere, FixedApart
  <2>2. /\ \A j \in Items : UNCHANGED <<disk[State(j)], disk[Bin(j)], disk[Backup(j)]>>
        /\ UNCHANGED <<disk[Compat], disk[Devcon], disk[Disabled]>>
        /\ \A j \in Items : PutBack(j) <=> PutBack(j)'
    <3>1. Compat \notin {Real, Server} /\ Devcon \notin {Real, Server} /\ Disabled \notin {Real, Server}
      BY FixedApart
    <3>2. /\ \A j \in Items : UNCHANGED <<disk[State(j)], disk[Bin(j)], disk[Backup(j)]>>
          /\ UNCHANGED <<disk[Compat], disk[Devcon], disk[Disabled]>>
      BY <1>1, <2>1, <3>1, ItemsUntouched
    <3> QED
      BY <2>1, <3>2 DEF PutBack
  <2>3. Types'
    BY <1>1, <1>2, <2>1, NextStep DEF Types
  <2>4. KeptAll'
    BY <1>1, <2>1, <2>2, KeptElsewhere DEF KeptAll
  <2>5. Prepared'
    BY <1>1, <1>2, <1>3, <1>4, <2>1, PreparedFrame
  <2>6. Marked' /\ AfterRemoval'
    BY <1>1, <1>2, <2>1, UninstallFrame
  <2>7. Removing'
    <3>1. ~Doing("restore") /\ ~Doing("reset")
      BY <1>2 DEF Doing
    <3> QED
      BY <1>1, <1>2, <1>3, <1>4, <1>6, <2>1, <2>2, <3>1, RemovingFrame DEF DriverThere
  <2>8. Driver'
    BY <1>1, <1>2, <2>1, <2>2, DriverFrame
  <2>9. ServerSafe'
    <3> SUFFICES ASSUME excuses' = {}
                 PROVE  disk'[Server] = Uu(version') /\ ~Doing("launcher")'
      BY <2>1 DEF ServerSafe
    <3>1. Ahead("restore server")
      BY <1>1, <1>2, StepIs
    <3>2. SetAside
      BY <1>1, <1>6, <2>1, <3>1 DEF ServerSafe
    <3>3. ~Doing("launcher")'
      BY <1>1, <1>2, <1>3, <2>1, NextStep
    <3> QED
      BY <2>1, <3>2, <3>3 DEF SetAside
  <2> QED
    BY <2>3, <2>4, <2>5, <2>6, <2>7, <2>8, <2>9 DEF IInv
<1> QED
  BY <1>5, <1>6 DEF RestoreServer

LEMMA RemoveCompatStep ==
    ASSUME IInv, RemoveCompat
    PROVE  IInv'
<1>1. /\ Types /\ KeptAll /\ Prepared /\ Marked /\ Removing /\ Driver /\ AfterRemoval /\ ServerSafe
      /\ Orderly(agenda) /\ DiskTypes /\ OtherTypes
  BY DEF IInv, Types
<1>2. ~Idle /\ Uninstalling /\ ~Installing /\ Doing("remove compat")
  BY <1>1, StepIs DEF RemoveCompat, UninstallActs
<1>3. /\ ~Doing("mark") /\ ~Doing("record") /\ ~Doing("set")
      /\ ~Doing("save") /\ ~Doing("server") /\ ~Doing("launcher") /\ ~Doing("restore devcon") /\ ~Doing("restore server")
  BY <1>2 DEF Doing
<1>4. ~writing
  BY <1>1, <1>2 DEF Prepared, Doing
<1>5. Do(Put(Compat, Missing))
  BY DEF RemoveCompat
<1> QED
  <2>1. /\ DiskTypes' /\ OtherTypes' /\ Skip(1)
        /\ UNCHANGED <<writing, enabled, guard, version, package, original, misread, undeleted, outlived, removed, excuses>>
        /\ disk'[Compat] = Missing
        /\ \A q \in DOMAIN disk : q # Compat => disk'[q] = disk[q]
    BY <1>1, <1>5, DoIs, PlacesThere, ContentsThere
  <2>2. /\ \A j \in Items : UNCHANGED <<disk[State(j)], disk[Bin(j)], disk[Backup(j)]>>
        /\ UNCHANGED <<disk[Server], disk[Real], disk[Devcon], disk[Disabled]>>
        /\ \A j \in Items : PutBack(j) <=> PutBack(j)'
    <3>1. Server \notin {Compat} /\ Real \notin {Compat} /\ Devcon \notin {Compat} /\ Disabled \notin {Compat}
      BY FixedApart
    <3>2. /\ \A j \in Items : UNCHANGED <<disk[State(j)], disk[Bin(j)], disk[Backup(j)]>>
          /\ UNCHANGED <<disk[Server], disk[Real], disk[Devcon], disk[Disabled]>>
      BY <1>1, <2>1, <3>1, ItemsUntouched
    <3> QED
      BY <2>1, <3>2 DEF PutBack
  <2>3. Types'
    BY <1>1, <1>2, <2>1, NextStep DEF Types
  <2>4. KeptAll'
    BY <1>1, <2>1, <2>2, KeptElsewhere DEF KeptAll
  <2>5. Prepared'
    BY <1>1, <1>2, <1>3, <1>4, <2>1, PreparedFrame
  <2>6. Marked' /\ AfterRemoval'
    BY <1>1, <1>2, <2>1, UninstallFrame
  <2>7. Removing'
    <3>1. ~Doing("restore") /\ ~Doing("reset")
      BY <1>2 DEF Doing
    <3> QED
      BY <1>1, <1>2, <1>3, <1>4, <1>5, <2>1, <2>2, <3>1, RemovingFrame DEF DriverThere
  <2>8. Driver'
    BY <1>1, <1>2, <2>1, <2>2, DriverFrame
  <2>9. ServerSafe'
    BY <1>1, <1>2, <1>3, <2>1, <2>2, ServerFrame
  <2> QED
    BY <2>3, <2>4, <2>5, <2>6, <2>7, <2>8, <2>9 DEF IInv

LEMMA RestoreDevconStep ==
    ASSUME IInv, RestoreDevcon
    PROVE  IInv'
<1>1. /\ Types /\ KeptAll /\ Prepared /\ Marked /\ Removing /\ Driver /\ AfterRemoval /\ ServerSafe
      /\ Orderly(agenda) /\ DiskTypes /\ OtherTypes
  BY DEF IInv, Types
<1>2. ~Idle /\ Uninstalling /\ ~Installing /\ Doing("restore devcon")
  BY <1>1, StepIs DEF RestoreDevcon, UninstallActs
<1>3. /\ ~Doing("mark") /\ ~Doing("record") /\ ~Doing("set")
      /\ ~Doing("save") /\ ~Doing("server") /\ ~Doing("launcher") /\ ~Doing("remove compat") /\ ~Doing("restore server")
  BY <1>2 DEF Doing
<1>4. ~writing
  BY <1>1, <1>2 DEF Prepared, Doing
<1>5. CASE disk[Disabled] = Missing /\ Pass(1)
  <2>1. /\ DiskTypes' /\ OtherTypes' /\ Skip(1)
        /\ UNCHANGED <<writing, disk, enabled, guard, version, package, original, misread, undeleted, outlived, removed, excuses>>
    BY <1>1, <1>5, PassIs
  <2>2. \A j \in Items : PutBack(j) <=> PutBack(j)'
    BY <2>1 DEF PutBack
  <2>3. Types'
    BY <1>1, <1>2, <2>1, NextStep DEF Types
  <2>4. KeptAll'
    BY <1>1, <2>1, <2>2, KeptElsewhere DEF KeptAll
  <2>5. Prepared'
    BY <1>1, <1>2, <1>3, <1>4, <2>1, PreparedFrame
  <2>6. Marked' /\ AfterRemoval'
    BY <1>1, <1>2, <2>1, UninstallFrame
  <2>7. Removing'
    <3>1. ~Doing("restore") /\ ~Doing("reset")
      BY <1>2 DEF Doing
    <3>2. outlived \/ DriverThere'
      BY <1>1, <1>5, <2>1 DEF Driver, DriverPlaced, DriverThere
    <3>3. DriverThere => DriverThere'
      BY <2>1 DEF DriverThere
    <3> QED
      BY <1>1, <1>2, <1>3, <2>1, <2>2, <3>1, <3>2, <3>3, RemovingFrame
  <2>8. Driver'
    BY <1>1, <1>2, <2>1, DriverFrame
  <2>9. ServerSafe'
    BY <1>1, <1>2, <1>3, <2>1, ServerFrame
  <2> QED
    BY <2>3, <2>4, <2>5, <2>6, <2>7, <2>8, <2>9 DEF IInv
<1>6. CASE disk[Disabled] # Missing /\ Do(Move(Disabled, Devcon))
  <2>1. /\ DiskTypes' /\ OtherTypes' /\ Skip(1)
        /\ UNCHANGED <<writing, enabled, guard, version, package, original, misread, undeleted, outlived, removed, excuses>>
        /\ disk'[Devcon] = disk[Disabled] /\ disk'[Disabled] = Missing
        /\ \A q \in DOMAIN disk : q \notin {Disabled, Devcon} => disk'[q] = disk[q]
    BY <1>1, <1>6, MoveDone, PlacesThere, FixedApart
  <2>2. /\ \A j \in Items : UNCHANGED <<disk[State(j)], disk[Bin(j)], disk[Backup(j)]>>
        /\ UNCHANGED <<disk[Compat], disk[Server], disk[Real]>>
        /\ \A j \in Items : PutBack(j) <=> PutBack(j)'
    <3>1. Compat \notin {Disabled, Devcon} /\ Server \notin {Disabled, Devcon} /\ Real \notin {Disabled, Devcon}
      BY FixedApart
    <3>2. /\ \A j \in Items : UNCHANGED <<disk[State(j)], disk[Bin(j)], disk[Backup(j)]>>
          /\ UNCHANGED <<disk[Compat], disk[Server], disk[Real]>>
      BY <1>1, <2>1, <3>1, ItemsUntouched
    <3> QED
      BY <2>1, <3>2 DEF PutBack
  <2>3. Types'
    BY <1>1, <1>2, <2>1, NextStep DEF Types
  <2>4. KeptAll'
    BY <1>1, <2>1, <2>2, KeptElsewhere DEF KeptAll
  <2>5. Prepared'
    BY <1>1, <1>2, <1>3, <1>4, <2>1, PreparedFrame
  <2>6. Marked' /\ AfterRemoval'
    BY <1>1, <1>2, <2>1, UninstallFrame
  <2>7. Removing'
    <3>1. ~Doing("restore") /\ ~Doing("reset")
      BY <1>2 DEF Doing
    <3>2. DriverThere'
      BY <1>1, <1>6, <2>1 DEF Driver, DriverThere
    <3> QED
      BY <1>1, <1>2, <1>3, <2>1, <2>2, <3>1, <3>2, RemovingFrame
  <2>8. Driver'
    <3>1. DriverThere'
      BY <1>1, <1>6, <2>1 DEF Driver, DriverThere
    <3>2. outlived \/ guard = "none"
      BY <1>1, <1>2 DEF Removing, Stopped
    <3> QED
      BY <2>1, <3>1, <3>2 DEF Driver, DriverPlaced
  <2>9. ServerSafe'
    BY <1>1, <1>2, <1>3, <2>1, <2>2, ServerFrame
  <2> QED
    BY <2>3, <2>4, <2>5, <2>6, <2>7, <2>8, <2>9 DEF IInv
<1> QED
  BY <1>5, <1>6 DEF RestoreDevcon

LEMMA FinishStep ==
    ASSUME IInv, Finish
    PROVE  IInv'
<1>1. /\ Types /\ KeptAll /\ Prepared /\ Marked /\ Removing /\ Driver /\ AfterRemoval /\ ServerSafe
      /\ Orderly(agenda) /\ DiskTypes /\ OtherTypes
  BY DEF IInv, Types
<1>2. ~Idle /\ Uninstalling /\ ~Installing /\ Doing("finish")
  BY <1>1, StepIs DEF Finish, UninstallActs
<1>3. /\ ~Doing("mark") /\ ~Doing("record") /\ ~Doing("set")
      /\ ~Doing("save") /\ ~Doing("server") /\ ~Doing("launcher") /\ ~Doing("restore server")
  BY <1>2 DEF Doing
<1>4. ~writing
  BY <1>1, <1>2 DEF Prepared, Doing
<1>5. /\ Skip(1) /\ removed' = TRUE /\ enabled' = FALSE
      /\ UNCHANGED <<writing, disk, guard, version, package, original, misread, undeleted, outlived, excuses>>
  BY DEF Finish, world
<1>6. Idle'
  BY <1>1, <1>2, <1>5, NextStep
<1>7. Types'
  BY <1>1, <1>2, <1>5, NextStep DEF Types, DiskTypes, OtherTypes
<1>8. KeptAll'
  BY <1>1, <1>5, KeptElsewhere DEF KeptAll
<1>9. Prepared'
  BY <1>1, <1>2, <1>3, <1>4, <1>5, PreparedFrame
<1>10. Marked' /\ Removing'
  BY <1>6 DEF Marked, Removing, Installing, Uninstalling
<1>11. Driver'
  BY <1>1, <1>2, <1>5, DriverFrame
<1>12. (outlived \/ Stopped) /\ Removed
  <2>1. Len(agenda) = 1 /\ Head(agenda) = agenda[1] /\ agenda[1].do = "finish"
    BY <1>1, <1>2, HeadIs, LastStep DEF Doing
  <2>2. \A i : ~AheadFor("restore", i) /\ ~AheadFor("reset", i)
    BY <2>1 DEF AheadFor
  <2>3. ~Ahead("restore server") /\ ~Ahead("remove compat") /\ ~Ahead("restore devcon")
    <3>1. \A k \in 1..Len(agenda) : agenda[k].do = "finish"
      BY <2>1
    <3> QED
      BY <3>1 DEF Ahead
  <2> QED
    BY <1>1, <1>2, <2>2, <2>3 DEF Removing, Removed
<1>13. AfterRemoval'
  BY <1>5, <1>6, <1>12 DEF AfterRemoval, Stopped, Removed, PutBack, DriverThere
<1>14. ServerSafe'
  BY <1>1, <1>2, <1>3, <1>5, ServerFrame
<1> QED
  BY <1>7, <1>8, <1>9, <1>10, <1>11, <1>13, <1>14 DEF IInv

-----------------------------------------------------------------------------
(* The two lists of steps *)

\* A function on 1..n is a sequence.
LEMMA Listed ==
    ASSUME NEW S, NEW n \in Nat, NEW s, s \in [1..n -> S]
    PROVE  s \in Seq(S) /\ Len(s) = n
  OBVIOUS

\* The names that the steps are taken for.
LEMMA NamesTargeted ==
    /\ Dlls \in Seq(Targets) /\ Len(Dlls) \in Nat /\ \A j \in 1..Len(Dlls) : Dlls[j] \in Range(Dlls)
    /\ Values \in Seq(Targets) /\ Len(Values) \in Nat /\ \A j \in 1..Len(Values) : Values[j] \in Range(Values)
<1>1. Len(Dlls) \in Nat /\ \A j \in 1..Len(Dlls) : Dlls[j] \in Range(Dlls)
  BY NamesAssumption DEF Range
<1>2. Len(Values) \in Nat /\ \A j \in 1..Len(Values) : Values[j] \in Range(Values)
  BY NamesAssumption DEF Range
<1>3. Dlls \in [1..Len(Dlls) -> Targets]
  BY <1>1, NamesAssumption DEF Targets, Items
<1>4. Values \in [1..Len(Values) -> Targets]
  BY <1>2, NamesAssumption DEF Targets, Items
<1>5. Dlls \in Seq(Targets)
  BY ONLY <1>1, <1>3, Listed
<1>6. Values \in Seq(Targets)
  BY ONLY <1>2, <1>4, Listed
<1> QED
  BY <1>1, <1>2, <1>5, <1>6

\* The steps that a loop of install.sh takes, two for each name or one.
LEMMA Pairs ==
    ASSUME NEW acts, NEW names \in Seq(Targets), NEW a \in acts, NEW b \in acts,
           NEW s, s = ForEach(names, <<a, b>>)
    PROVE  /\ s \in Seq(StepsOf(acts)) /\ Len(s) = 2 * Len(names)
           /\ \A j \in 1..Len(names) : /\ s[2 * j - 1] = [do |-> a, on |-> names[j]]
                                       /\ s[2 * j] = [do |-> b, on |-> names[j]]
<1> DEFINE n == Len(names)
           step(k) == [do |-> <<a, b>>[1 + ((k - 1) % 2)], on |-> names[1 + ((k - 1) \div 2)]]
<1>1. n \in Nat /\ \A j \in 1..n : names[j] \in Targets
  OBVIOUS
<1>2. Len(<<a, b>>) = 2 /\ <<a, b>>[1] = a /\ <<a, b>>[2] = b
  OBVIOUS
<1>3. s = [k \in 1..(n * 2) |-> step(k)]
  BY <1>2 DEF ForEach
<1>4. \A k \in 1..(n * 2) : /\ 1 + ((k - 1) % 2) \in {1, 2}
                            /\ 1 + ((k - 1) \div 2) \in 1..n
  BY <1>1
<1>5. \A k \in 1..(n * 2) : step(k) \in StepsOf(acts)
  BY <1>1, <1>2, <1>4 DEF StepsOf
<1>6. n * 2 \in Nat /\ n * 2 = 2 * n
  BY <1>1
<1>7. s \in Seq(StepsOf(acts)) /\ Len(s) = 2 * n
  <2>1. s \in [1..(2 * n) -> StepsOf(acts)] /\ 2 * n \in Nat
    BY <1>3, <1>5, <1>6
  <2> QED
    BY ONLY <2>1, Listed
<1>8. \A j \in 1..n : /\ s[2 * j - 1] = [do |-> a, on |-> names[j]]
                      /\ s[2 * j] = [do |-> b, on |-> names[j]]
  <2> TAKE j \in 1..n
  <2>1. 2 * j - 1 \in 1..(n * 2) /\ 2 * j \in 1..(n * 2)
    BY <1>1
  <2>2. /\ 1 + (((2 * j - 1) - 1) % 2) = 1 /\ 1 + (((2 * j - 1) - 1) \div 2) = j
        /\ 1 + ((2 * j - 1) % 2) = 2 /\ 1 + ((2 * j - 1) \div 2) = j
    BY <1>1
  <2>3. s[2 * j - 1] = step(2 * j - 1) /\ s[2 * j] = step(2 * j)
    BY <1>3, <2>1
  <2> QED
    BY <1>2, <2>2, <2>3
<1> QED
  BY <1>7, <1>8

LEMMA Singles ==
    ASSUME NEW acts, NEW names \in Seq(Targets), NEW a \in acts,
           NEW s, s = ForEach(names, <<a>>)
    PROVE  /\ s \in Seq(StepsOf(acts)) /\ Len(s) = Len(names)
           /\ \A j \in 1..Len(names) : s[j] = [do |-> a, on |-> names[j]]
<1> DEFINE n == Len(names)
           step(k) == [do |-> <<a>>[1 + ((k - 1) % 1)], on |-> names[1 + ((k - 1) \div 1)]]
<1>1. n \in Nat /\ \A j \in 1..n : names[j] \in Targets
  OBVIOUS
<1>2. Len(<<a>>) = 1 /\ <<a>>[1] = a
  OBVIOUS
<1>3. s = [k \in 1..(n * 1) |-> step(k)]
  BY <1>2 DEF ForEach
<1>4. \A k \in 1..(n * 1) : 1 + ((k - 1) % 1) = 1 /\ 1 + ((k - 1) \div 1) = k /\ k \in 1..n
  BY <1>1
<1>5. \A k \in 1..(n * 1) : step(k) = [do |-> a, on |-> names[k]]
  BY <1>2, <1>4
<1>6. n * 1 = n
  BY <1>1
<1>7. \A k \in 1..n : s[k] = [do |-> a, on |-> names[k]]
  BY <1>3, <1>5, <1>6
<1>8. s \in Seq(StepsOf(acts)) /\ Len(s) = n
  <2>1. \A k \in 1..n : step(k) \in StepsOf(acts)
    BY <1>1, <1>5, <1>6 DEF StepsOf
  <2>2. s \in [1..n -> StepsOf(acts)] /\ n \in Nat
    BY <1>1, <1>3, <1>6, <2>1
  <2> QED
    BY ONLY <2>2, Listed
<1> QED
  BY <1>7, <1>8

\* The elements of a concatenation.
LEMMA Joined ==
    ASSUME NEW T, NEW s, s \in Seq(T), NEW t, t \in Seq(T), NEW u, u = s \o t
    PROVE  /\ u \in Seq(T) /\ Len(u) = Len(s) + Len(t)
           /\ \A k \in 1..Len(s) : u[k] = s[k]
           /\ \A k \in 1..Len(t) : u[Len(s) + k] = t[k]
<1>1. /\ u \in Seq(T) /\ Len(u) = Len(s) + Len(t)
      /\ \A i \in 1..(Len(s) + Len(t)) : u[i] = IF i <= Len(s) THEN s[i] ELSE t[i - Len(s)]
  BY ConcatProperties
<1>2. Len(s) \in Nat /\ Len(t) \in Nat
  OBVIOUS
<1>3. \A k \in 1..Len(s) : u[k] = s[k]
  BY <1>1, <1>2
<1>4. \A k \in 1..Len(t) : u[Len(s) + k] = t[k]
  <2> TAKE k \in 1..Len(t)
  <2>1. Len(s) + k \in 1..(Len(s) + Len(t)) /\ ~(Len(s) + k <= Len(s)) /\ (Len(s) + k) - Len(s) = k
    BY <1>2
  <2> QED
    BY <1>1, <2>1
<1> QED
  BY <1>1, <1>3, <1>4

\* Every number up to 2n is the first or the second of a pair.
LEMMA PairOf ==
    ASSUME NEW n \in Nat, NEW k \in 1..(2 * n)
    PROVE  \E j \in 1..n : k = 2 * j - 1 \/ k = 2 * j
<1> DEFINE j == (k + 1) \div 2
<1>1. j \in 1..n /\ (k = 2 * j - 1 \/ k = 2 * j)
  OBVIOUS
<1> QED
  BY <1>1

\* Three steps in a row, and one alone.
LEMMA Three ==
    ASSUME NEW acts, NEW a \in acts, NEW b \in acts, NEW c \in acts, NEW name \in Targets,
           NEW s, s = Steps(<<a, b, c>>, name)
    PROVE  /\ s \in Seq(StepsOf(acts)) /\ Len(s) = 3
           /\ s[1].do = a /\ s[2].do = b /\ s[3].do = c
<1> DEFINE step(k) == [do |-> <<a, b, c>>[k], on |-> name]
<1>1. Len(<<a, b, c>>) = 3 /\ <<a, b, c>>[1] = a /\ <<a, b, c>>[2] = b /\ <<a, b, c>>[3] = c
  OBVIOUS
<1>2. s = [k \in 1..3 |-> step(k)]
  BY <1>1 DEF Steps
<1>3. \A k \in 1..3 : step(k) \in StepsOf(acts)
  BY <1>1 DEF StepsOf
<1>4. s[1] = step(1) /\ s[2] = step(2) /\ s[3] = step(3)
  BY <1>2
<1>5. s \in Seq(StepsOf(acts)) /\ Len(s) = 3
  <2>1. s \in [1..3 -> StepsOf(acts)] /\ 3 \in Nat
    BY <1>2, <1>3
  <2> QED
    BY ONLY <2>1, Listed
<1> QED
  BY <1>1, <1>4, <1>5

LEMMA One ==
    ASSUME NEW acts, NEW a \in acts, NEW name \in Targets, NEW s, s = Steps(<<a>>, name)
    PROVE  s \in Seq(StepsOf(acts)) /\ Len(s) = 1 /\ s[1].do = a
<1>1. Len(<<a>>) = 1 /\ <<a>>[1] = a
  OBVIOUS
<1>2. s = [k \in 1..1 |-> [do |-> <<a>>[k], on |-> name]]
  BY <1>1 DEF Steps
<1>3. \A k \in 1..1 : [do |-> <<a>>[k], on |-> name] \in StepsOf(acts)
  BY <1>1 DEF StepsOf
<1>4. s[1].do = a
  BY <1>1, <1>2
<1>5. s \in Seq(StepsOf(acts)) /\ Len(s) = 1
  <2>1. s \in [1..1 -> StepsOf(acts)] /\ 1 \in Nat
    BY <1>2, <1>3
  <2> QED
    BY ONLY <2>1, Listed
<1> QED
  BY <1>4, <1>5

\* The elements of four lists in a row.
LEMMA FourParts ==
    ASSUME NEW T, NEW p1 \in Seq(T), NEW p2 \in Seq(T), NEW p3 \in Seq(T), NEW p4 \in Seq(T),
           NEW s, s = p1 \o p2 \o p3 \o p4
    PROVE  /\ s \in Seq(T) /\ Len(s) = Len(p1) + Len(p2) + Len(p3) + Len(p4)
           /\ \A k \in 1..Len(p1) : s[k] = p1[k]
           /\ \A k \in 1..Len(p2) : s[Len(p1) + k] = p2[k]
           /\ \A k \in 1..Len(p3) : s[Len(p1) + Len(p2) + k] = p3[k]
           /\ \A k \in 1..Len(p4) : s[Len(p1) + Len(p2) + Len(p3) + k] = p4[k]
<1>1. PICK q : q = p1 \o p2
  OBVIOUS
<1>2. PICK r : r = q \o p3
  OBVIOUS
<1>3. s = r \o p4
  BY <1>1, <1>2
<1>4. Len(p1) \in Nat /\ Len(p2) \in Nat /\ Len(p3) \in Nat /\ Len(p4) \in Nat
  OBVIOUS
<1>5. /\ q \in Seq(T) /\ Len(q) = Len(p1) + Len(p2)
      /\ \A k \in 1..Len(p1) : q[k] = p1[k]
      /\ \A k \in 1..Len(p2) : q[Len(p1) + k] = p2[k]
  BY <1>1, Joined
<1>6. /\ r \in Seq(T) /\ Len(r) = Len(q) + Len(p3)
      /\ \A k \in 1..Len(q) : r[k] = q[k]
      /\ \A k \in 1..Len(p3) : r[Len(q) + k] = p3[k]
  <2>1. q \in Seq(T) /\ p3 \in Seq(T)
    BY <1>5
  <2> QED
    BY ONLY <1>2, <2>1, Joined
<1>7. /\ s \in Seq(T) /\ Len(s) = Len(r) + Len(p4)
      /\ \A k \in 1..Len(r) : s[k] = r[k]
      /\ \A k \in 1..Len(p4) : s[Len(r) + k] = p4[k]
  <2>1. r \in Seq(T) /\ p4 \in Seq(T)
    BY <1>6
  <2> QED
    BY ONLY <1>3, <2>1, Joined
<1>8. \A k \in 1..Len(p1) : s[k] = p1[k]
  BY <1>4, <1>5, <1>6, <1>7
<1>9. \A k \in 1..Len(p2) : s[Len(p1) + k] = p2[k]
  <2> TAKE k \in 1..Len(p2)
  <2>1. Len(p1) + k \in 1..Len(q) /\ Len(p1) + k \in 1..Len(r)
    BY <1>4, <1>5, <1>6
  <2> QED
    BY <1>5, <1>6, <1>7, <2>1
<1>10. \A k \in 1..Len(p3) : s[Len(p1) + Len(p2) + k] = p3[k]
  <2> TAKE k \in 1..Len(p3)
  <2>1. Len(q) + k \in 1..Len(r)
    BY <1>4, <1>5, <1>6
  <2> QED
    BY <1>5, <1>6, <1>7, <2>1
<1>11. Len(r) = Len(p1) + Len(p2) + Len(p3) /\ Len(s) = Len(p1) + Len(p2) + Len(p3) + Len(p4)
  BY <1>4, <1>5, <1>6, <1>7
<1>12. \A k \in 1..Len(p4) : s[Len(p1) + Len(p2) + Len(p3) + k] = p4[k]
  BY ONLY <1>7, <1>11
<1> QED
  BY ONLY <1>7, <1>8, <1>9, <1>10, <1>11, <1>12, Zenon

\* Every step of install.sh by its number, and of uninstall.sh.
LEMMA InstallStepsAre ==
    /\ InstallSteps \in Seq(StepsOf(InstallActs)) /\ Len(InstallSteps) = 3 * Len(Dlls) + 2 * Len(Values) + 4
    /\ \A j \in 1..Len(Dlls) : /\ InstallSteps[2 * j - 1] = [do |-> "save", on |-> Dlls[j]]
                               /\ InstallSteps[2 * j] = [do |-> "mark", on |-> Dlls[j]]
    /\ InstallSteps[2 * Len(Dlls) + 1].do = "server"
    /\ InstallSteps[2 * Len(Dlls) + 2].do = "launcher"
    /\ InstallSteps[2 * Len(Dlls) + 3].do = "compat"
    /\ \A j \in 1..Len(Values) : /\ InstallSteps[2 * Len(Dlls) + 2 + 2 * j] = [do |-> "record", on |-> Values[j]]
                                 /\ InstallSteps[2 * Len(Dlls) + 3 + 2 * j] = [do |-> "set", on |-> Values[j]]
    /\ \A j \in 1..Len(Dlls) : InstallSteps[2 * Len(Dlls) + 2 * Len(Values) + 3 + j] = [do |-> "dll", on |-> Dlls[j]]
    /\ InstallSteps[3 * Len(Dlls) + 2 * Len(Values) + 4].do = "enable"
<1>dlls. PICK D : D = Len(Dlls)
  OBVIOUS
<1>values. PICK V : V = Len(Values)
  OBVIOUS
<1>1. /\ D \in Nat /\ V \in Nat /\ Dlls \in Seq(Targets) /\ Values \in Seq(Targets)
  BY <1>dlls, <1>values, NamesTargeted
<1>2. PICK T : T = StepsOf(InstallActs)
  OBVIOUS
<1>3. PICK p1 : p1 = ForEach(Dlls, <<"save", "mark">>)
  OBVIOUS
<1>4. PICK p2 : p2 = Steps(<<"server", "launcher", "compat">>, "server")
  OBVIOUS
<1>5. PICK p3 : p3 = ForEach(Values, <<"record", "set">>)
  OBVIOUS
<1>6. PICK p4 : p4 = ForEach(Dlls, <<"dll">>)
  OBVIOUS
<1>7. PICK p5 : p5 = Steps(<<"enable">>, "units")
  OBVIOUS
<1>8. /\ "save" \in InstallActs /\ "mark" \in InstallActs /\ "server" \in InstallActs
      /\ "launcher" \in InstallActs /\ "compat" \in InstallActs /\ "record" \in InstallActs
      /\ "set" \in InstallActs /\ "dll" \in InstallActs /\ "enable" \in InstallActs
  BY DEF InstallActs
<1>9. /\ p1 \in Seq(T) /\ Len(p1) = 2 * D
      /\ \A j \in 1..D : p1[2 * j - 1] = [do |-> "save", on |-> Dlls[j]] /\ p1[2 * j] = [do |-> "mark", on |-> Dlls[j]]
  <2>1. /\ p1 \in Seq(StepsOf(InstallActs)) /\ Len(p1) = 2 * Len(Dlls)
        /\ \A j \in 1..Len(Dlls) : /\ p1[2 * j - 1] = [do |-> "save", on |-> Dlls[j]]
                                   /\ p1[2 * j] = [do |-> "mark", on |-> Dlls[j]]
    BY ONLY <1>1, <1>3, <1>8, Pairs
  <2> QED
    BY ONLY <1>2, <2>1, <1>dlls
<1>10. p2 \in Seq(T) /\ Len(p2) = 3 /\ p2[1].do = "server" /\ p2[2].do = "launcher" /\ p2[3].do = "compat"
  <2>1. "server" \in Targets
    BY DEF Targets
  <2> QED
    BY ONLY <1>2, <1>4, <1>8, <2>1, Three
<1>11. /\ p3 \in Seq(T) /\ Len(p3) = 2 * V
       /\ \A j \in 1..V : p3[2 * j - 1] = [do |-> "record", on |-> Values[j]] /\ p3[2 * j] = [do |-> "set", on |-> Values[j]]
  <2>1. /\ p3 \in Seq(StepsOf(InstallActs)) /\ Len(p3) = 2 * Len(Values)
        /\ \A j \in 1..Len(Values) : /\ p3[2 * j - 1] = [do |-> "record", on |-> Values[j]]
                                     /\ p3[2 * j] = [do |-> "set", on |-> Values[j]]
    <3>1. "record" \in InstallActs /\ "set" \in InstallActs /\ Values \in Seq(Targets)
      BY <1>1, <1>8
    <3> QED
      BY ONLY <1>5, <3>1, Pairs
  <2> QED
    BY ONLY <1>2, <2>1, <1>values
<1>12. p4 \in Seq(T) /\ Len(p4) = D /\ \A j \in 1..D : p4[j] = [do |-> "dll", on |-> Dlls[j]]
  <2>1. /\ p4 \in Seq(StepsOf(InstallActs)) /\ Len(p4) = Len(Dlls)
        /\ \A j \in 1..Len(Dlls) : p4[j] = [do |-> "dll", on |-> Dlls[j]]
    BY ONLY <1>1, <1>6, <1>8, Singles
  <2> QED
    BY ONLY <1>2, <2>1, <1>dlls
<1>13. p5 \in Seq(T) /\ Len(p5) = 1 /\ p5[1].do = "enable"
  <2>1. "units" \in Targets
    BY DEF Targets
  <2> QED
    BY ONLY <1>2, <1>7, <1>8, <2>1, One
<1>14. PICK r : r = p1 \o p2 \o p3 \o p4
  OBVIOUS
<1>15. /\ r \in Seq(T) /\ Len(r) = 2 * D + 3 + 2 * V + D
       /\ \A k \in 1..(2 * D) : r[k] = p1[k]
       /\ \A k \in 1..3 : r[2 * D + k] = p2[k]
       /\ \A k \in 1..(2 * V) : r[2 * D + 3 + k] = p3[k]
       /\ \A k \in 1..D : r[2 * D + 3 + 2 * V + k] = p4[k]
  <2>1. /\ r \in Seq(T) /\ Len(r) = Len(p1) + Len(p2) + Len(p3) + Len(p4)
        /\ \A k \in 1..Len(p1) : r[k] = p1[k]
        /\ \A k \in 1..Len(p2) : r[Len(p1) + k] = p2[k]
        /\ \A k \in 1..Len(p3) : r[Len(p1) + Len(p2) + k] = p3[k]
        /\ \A k \in 1..Len(p4) : r[Len(p1) + Len(p2) + Len(p3) + k] = p4[k]
    <3>1. p1 \in Seq(T) /\ p2 \in Seq(T) /\ p3 \in Seq(T) /\ p4 \in Seq(T)
      BY <1>9, <1>10, <1>11, <1>12
    <3> QED
      BY ONLY <1>14, <3>1, FourParts
  <2> QED
    BY <1>9, <1>10, <1>11, <1>12, <2>1
<1>16. InstallSteps = r \o p5
  BY <1>3, <1>4, <1>5, <1>6, <1>7, <1>14 DEF InstallSteps
<1>17. PICK s : s = InstallSteps
  OBVIOUS
<1>18. /\ s \in Seq(T) /\ Len(s) = 3 * D + 2 * V + 4
       /\ \A k \in 1..(3 * D + 2 * V + 3) : s[k] = r[k]
       /\ s[3 * D + 2 * V + 4] = p5[1]
  <2>1. /\ s \in Seq(T) /\ Len(s) = Len(r) + Len(p5)
        /\ \A k \in 1..Len(r) : s[k] = r[k]
        /\ \A k \in 1..Len(p5) : s[Len(r) + k] = p5[k]
    <3>1. r \in Seq(T) /\ p5 \in Seq(T) /\ s = r \o p5
      BY <1>13, <1>15, <1>16, <1>17
    <3> QED
      BY ONLY <3>1, Joined
  <2>2. Len(r) = 3 * D + 2 * V + 3
    BY <1>1, <1>15
  <2>3. s[Len(r) + 1] = p5[1]
    BY <1>13, <2>1
  <2> QED
    BY <1>1, <1>13, <2>1, <2>2, <2>3
<1>19. \A j \in 1..D : /\ s[2 * j - 1] = [do |-> "save", on |-> Dlls[j]]
                       /\ s[2 * j] = [do |-> "mark", on |-> Dlls[j]]
  <2> TAKE j \in 1..D
  <2>1. /\ 2 * j - 1 \in 1..(2 * D) /\ 2 * j \in 1..(2 * D)
        /\ 2 * j - 1 \in 1..(3 * D + 2 * V + 3) /\ 2 * j \in 1..(3 * D + 2 * V + 3)
    BY <1>1
  <2>2. p1[2 * j - 1] = [do |-> "save", on |-> Dlls[j]] /\ p1[2 * j] = [do |-> "mark", on |-> Dlls[j]]
    BY <1>9
  <2>3. r[2 * j - 1] = p1[2 * j - 1] /\ r[2 * j] = p1[2 * j]
    BY <1>15, <2>1
  <2>4. s[2 * j - 1] = r[2 * j - 1] /\ s[2 * j] = r[2 * j]
    BY <1>18, <2>1
  <2> QED
    BY <2>2, <2>3, <2>4
<1>20. s[2 * D + 1].do = "server" /\ s[2 * D + 2].do = "launcher" /\ s[2 * D + 3].do = "compat"
  <2>1. \A k \in 1..3 : s[2 * D + k] = p2[k]
    <3> TAKE k \in 1..3
    <3>1. 2 * D + k \in 1..(3 * D + 2 * V + 3)
      BY <1>1
    <3> QED
      BY <1>15, <1>18, <3>1
  <2> QED
    BY <1>10, <2>1
<1>21. \A j \in 1..V : /\ s[2 * D + 2 + 2 * j] = [do |-> "record", on |-> Values[j]]
                       /\ s[2 * D + 3 + 2 * j] = [do |-> "set", on |-> Values[j]]
  <2> TAKE j \in 1..V
  <2>1. /\ 2 * j - 1 \in 1..(2 * V) /\ 2 * j \in 1..(2 * V)
        /\ 2 * D + 2 + 2 * j = 2 * D + 3 + (2 * j - 1)
    BY <1>1
  <2>2. \A k \in 1..(2 * V) : s[2 * D + 3 + k] = p3[k]
    <3> TAKE k \in 1..(2 * V)
    <3>1. 2 * D + 3 + k \in 1..(3 * D + 2 * V + 3)
      BY <1>1
    <3> QED
      BY <1>15, <1>18, <3>1
  <2> QED
    BY <1>11, <2>1, <2>2
<1>22. \A j \in 1..D : s[2 * D + 2 * V + 3 + j] = [do |-> "dll", on |-> Dlls[j]]
  <2> TAKE j \in 1..D
  <2>1. /\ 2 * D + 2 * V + 3 + j = 2 * D + 3 + 2 * V + j
        /\ 2 * D + 2 * V + 3 + j \in 1..(3 * D + 2 * V + 3)
    BY <1>1
  <2>2. s[2 * D + 2 * V + 3 + j] = r[2 * D + 2 * V + 3 + j]
    BY <1>18, <2>1
  <2>3. r[2 * D + 3 + 2 * V + j] = p4[j]
    BY <1>15
  <2> QED
    BY <1>12, <2>1, <2>2, <2>3
<1> QED
  BY <1>dlls, <1>values, <1>2, <1>13, <1>17, <1>18, <1>19, <1>20, <1>21, <1>22

LEMMA UninstallStepsAre ==
    /\ UninstallSteps \in Seq(StepsOf(UninstallActs)) /\ Len(UninstallSteps) = Len(Dlls) + Len(Values) + 4
    /\ \A j \in 1..Len(Dlls) : UninstallSteps[j] = [do |-> "restore", on |-> Dlls[j]]
    /\ UninstallSteps[Len(Dlls) + 1].do = "restore server"
    /\ UninstallSteps[Len(Dlls) + 2].do = "remove compat"
    /\ UninstallSteps[Len(Dlls) + 3].do = "restore devcon"
    /\ \A j \in 1..Len(Values) : UninstallSteps[Len(Dlls) + 3 + j] = [do |-> "reset", on |-> Values[j]]
    /\ UninstallSteps[Len(Dlls) + Len(Values) + 4].do = "finish"
<1>dlls. PICK D : D = Len(Dlls)
  OBVIOUS
<1>values. PICK V : V = Len(Values)
  OBVIOUS
<1>1. /\ D \in Nat /\ V \in Nat /\ Dlls \in Seq(Targets) /\ Values \in Seq(Targets)
      /\ "server" \in Targets /\ "units" \in Targets
  BY <1>dlls, <1>values, NamesTargeted DEF Targets
<1>2. PICK T : T = StepsOf(UninstallActs)
  OBVIOUS
<1>3. PICK p1 : p1 = ForEach(Dlls, <<"restore">>)
  OBVIOUS
<1>4. PICK p2 : p2 = Steps(<<"restore server", "remove compat", "restore devcon">>, "server")
  OBVIOUS
<1>5. PICK p3 : p3 = ForEach(Values, <<"reset">>)
  OBVIOUS
<1>6. PICK p4 : p4 = Steps(<<"finish">>, "units")
  OBVIOUS
<1>7. /\ "restore" \in UninstallActs /\ "restore server" \in UninstallActs /\ "remove compat" \in UninstallActs
      /\ "restore devcon" \in UninstallActs /\ "reset" \in UninstallActs /\ "finish" \in UninstallActs
  BY DEF UninstallActs
<1>8. p1 \in Seq(T) /\ Len(p1) = D /\ \A j \in 1..D : p1[j] = [do |-> "restore", on |-> Dlls[j]]
  <2>1. /\ p1 \in Seq(StepsOf(UninstallActs)) /\ Len(p1) = Len(Dlls)
        /\ \A j \in 1..Len(Dlls) : p1[j] = [do |-> "restore", on |-> Dlls[j]]
    <3>1. PICK act : act = "restore"
      OBVIOUS
    <3>2. act \in UninstallActs /\ Dlls \in Seq(Targets) /\ p1 = ForEach(Dlls, <<act>>)
      BY <1>1, <1>3, <1>7, <3>1
    <3>3. /\ p1 \in Seq(StepsOf(UninstallActs)) /\ Len(p1) = Len(Dlls)
          /\ \A j \in 1..Len(Dlls) : p1[j] = [do |-> act, on |-> Dlls[j]]
      BY ONLY <3>2, Singles
    <3> QED
      BY ONLY <3>1, <3>3
  <2> QED
    BY ONLY <1>2, <2>1, <1>dlls
<1>9. /\ p2 \in Seq(T) /\ Len(p2) = 3
      /\ p2[1].do = "restore server" /\ p2[2].do = "remove compat" /\ p2[3].do = "restore devcon"
  <2>1. PICK a : a = "restore server"
    OBVIOUS
  <2>2. PICK b : b = "remove compat"
    OBVIOUS
  <2>3. PICK c : c = "restore devcon"
    OBVIOUS
  <2>4. /\ a \in UninstallActs /\ b \in UninstallActs /\ c \in UninstallActs
        /\ "server" \in Targets /\ p2 = Steps(<<a, b, c>>, "server")
    BY <1>1, <1>4, <1>7, <2>1, <2>2, <2>3
  <2>5. /\ p2 \in Seq(StepsOf(UninstallActs)) /\ Len(p2) = 3
        /\ p2[1].do = a /\ p2[2].do = b /\ p2[3].do = c
    BY ONLY <2>4, Three
  <2> QED
    BY ONLY <1>2, <2>1, <2>2, <2>3, <2>5
<1>10. p3 \in Seq(T) /\ Len(p3) = V /\ \A j \in 1..V : p3[j] = [do |-> "reset", on |-> Values[j]]
  <2>1. /\ p3 \in Seq(StepsOf(UninstallActs)) /\ Len(p3) = Len(Values)
        /\ \A j \in 1..Len(Values) : p3[j] = [do |-> "reset", on |-> Values[j]]
    <3>1. "reset" \in UninstallActs /\ Values \in Seq(Targets)
      BY <1>1, <1>7
    <3> QED
      BY ONLY <1>5, <3>1, Singles
  <2> QED
    BY ONLY <1>2, <2>1, <1>values
<1>11. p4 \in Seq(T) /\ Len(p4) = 1 /\ p4[1].do = "finish"
  <2>1. "finish" \in UninstallActs /\ "units" \in Targets
    BY <1>1, <1>7
  <2> QED
    BY ONLY <1>2, <1>6, <2>1, One
<1>12. PICK s : s = UninstallSteps
  OBVIOUS
<1>13. s = p1 \o p2 \o p3 \o p4
  BY <1>3, <1>4, <1>5, <1>6, <1>12 DEF UninstallSteps
<1>14. /\ s \in Seq(T) /\ Len(s) = D + V + 4
       /\ \A k \in 1..D : s[k] = p1[k]
       /\ \A k \in 1..3 : s[D + k] = p2[k]
       /\ \A k \in 1..V : s[D + 3 + k] = p3[k]
       /\ s[D + V + 4] = p4[1]
  <2>1. /\ s \in Seq(T) /\ Len(s) = Len(p1) + Len(p2) + Len(p3) + Len(p4)
        /\ \A k \in 1..Len(p1) : s[k] = p1[k]
        /\ \A k \in 1..Len(p2) : s[Len(p1) + k] = p2[k]
        /\ \A k \in 1..Len(p3) : s[Len(p1) + Len(p2) + k] = p3[k]
        /\ \A k \in 1..Len(p4) : s[Len(p1) + Len(p2) + Len(p3) + k] = p4[k]
    <3>1. p1 \in Seq(T) /\ p2 \in Seq(T) /\ p3 \in Seq(T) /\ p4 \in Seq(T)
      BY <1>8, <1>9, <1>10, <1>11
    <3> QED
      BY ONLY <1>13, <3>1, FourParts
  <2>2. s[Len(p1) + Len(p2) + Len(p3) + 1] = p4[1] /\ Len(p1) + Len(p2) + Len(p3) + 1 = D + V + 4
    <3>1. Len(p1) = D /\ Len(p2) = 3 /\ Len(p3) = V /\ Len(p4) = 1
      BY <1>8, <1>9, <1>10, <1>11
    <3>2. D + 3 + V + 1 = D + V + 4
      BY <1>1
    <3>3. 1 \in 1..Len(p4)
      BY <3>1
    <3> QED
      BY <2>1, <3>1, <3>2, <3>3
  <2> QED
    BY <1>1, <1>8, <1>9, <1>10, <1>11, <2>1, <2>2
<1>15. s[D + 1] = p2[1] /\ s[D + 2] = p2[2] /\ s[D + 3] = p2[3]
  BY <1>14
<1>16. \A j \in 1..D : s[j] = [do |-> "restore", on |-> Dlls[j]]
  BY <1>8, <1>14
<1>17. \A j \in 1..V : s[D + 3 + j] = [do |-> "reset", on |-> Values[j]]
  BY <1>10, <1>14
<1> QED
  BY <1>dlls, <1>values, <1>2, <1>9, <1>11, <1>12, <1>14, <1>15, <1>16, <1>17

\* Where a step of install.sh stands in its list.
LEMMA InstallStepAt ==
    ASSUME NEW k \in 1..Len(InstallSteps)
    PROVE  \/ /\ k <= 2 * Len(Dlls) /\ k < Len(InstallSteps)
              /\ \E i \in Range(Dlls) : /\ InstallSteps[k] = [do |-> "save", on |-> i]
                                        /\ InstallSteps[k + 1] = [do |-> "mark", on |-> i]
           \/ /\ k <= 2 * Len(Dlls) /\ k # 1
              /\ \E i \in Range(Dlls) : /\ InstallSteps[k] = [do |-> "mark", on |-> i]
                                        /\ InstallSteps[k - 1] = [do |-> "save", on |-> i]
           \/ /\ InstallSteps[k].do \in {"server", "launcher", "compat", "enable"}
              /\ InstallSteps[k].do = "launcher" => k # 1 /\ InstallSteps[k - 1].do = "server"
           \/ \E i \in Range(Values) : InstallSteps[k] = [do |-> "record", on |-> i]
           \/ /\ k # 1
              /\ \E i \in Range(Values) : /\ InstallSteps[k] = [do |-> "set", on |-> i]
                                          /\ InstallSteps[k - 1] = [do |-> "record", on |-> i]
           \/ /\ k > 2 * Len(Dlls)
              /\ \E i \in Range(Dlls) : InstallSteps[k] = [do |-> "dll", on |-> i]
<1>1. PICK D : D = Len(Dlls)
  OBVIOUS
<1>2. PICK V : V = Len(Values)
  OBVIOUS
<1>3. PICK s : s = InstallSteps
  OBVIOUS
<1>4. /\ D \in Nat /\ V \in Nat
      /\ \A j \in 1..D : Dlls[j] \in Range(Dlls)
      /\ \A j \in 1..V : Values[j] \in Range(Values)
  BY <1>1, <1>2, NamesTargeted
<1>5. /\ Len(s) = 3 * D + 2 * V + 4
      /\ \A j \in 1..D : /\ s[2 * j - 1] = [do |-> "save", on |-> Dlls[j]]
                         /\ s[2 * j] = [do |-> "mark", on |-> Dlls[j]]
      /\ s[2 * D + 1].do = "server"
      /\ s[2 * D + 2].do = "launcher"
      /\ s[2 * D + 3].do = "compat"
      /\ \A j \in 1..V : /\ s[2 * D + 2 + 2 * j] = [do |-> "record", on |-> Values[j]]
                         /\ s[2 * D + 3 + 2 * j] = [do |-> "set", on |-> Values[j]]
      /\ \A j \in 1..D : s[2 * D + 2 * V + 3 + j] = [do |-> "dll", on |-> Dlls[j]]
      /\ s[3 * D + 2 * V + 4].do = "enable"
  <2>1. /\ Len(InstallSteps) = 3 * D + 2 * V + 4
        /\ \A j \in 1..D : /\ InstallSteps[2 * j - 1] = [do |-> "save", on |-> Dlls[j]]
                           /\ InstallSteps[2 * j] = [do |-> "mark", on |-> Dlls[j]]
        /\ InstallSteps[2 * D + 1].do = "server"
        /\ InstallSteps[2 * D + 2].do = "launcher"
        /\ InstallSteps[2 * D + 3].do = "compat"
        /\ \A j \in 1..V : /\ InstallSteps[2 * D + 2 + 2 * j] = [do |-> "record", on |-> Values[j]]
                           /\ InstallSteps[2 * D + 3 + 2 * j] = [do |-> "set", on |-> Values[j]]
        /\ \A j \in 1..D : InstallSteps[2 * D + 2 * V + 3 + j] = [do |-> "dll", on |-> Dlls[j]]
        /\ InstallSteps[3 * D + 2 * V + 4].do = "enable"
    BY <1>1, <1>2, InstallStepsAre
  <2> QED
    BY ONLY <1>3, <2>1
<1>6. k \in Nat /\ k >= 1 /\ k <= 3 * D + 2 * V + 4
  BY <1>3, <1>4, <1>5
<1>7. CASE k <= 2 * D
  <2>1. PICK j \in 1..D : k = 2 * j - 1 \/ k = 2 * j
    <3>1. D \in Nat /\ k \in 1..(2 * D)
      BY <1>4, <1>6, <1>7
    <3> QED
      BY ONLY <3>1, PairOf
  <2>2. /\ s[2 * j - 1] = [do |-> "save", on |-> Dlls[j]] /\ s[2 * j] = [do |-> "mark", on |-> Dlls[j]]
        /\ Dlls[j] \in Range(Dlls) /\ j \in Nat /\ j >= 1
    BY <1>4, <1>5, <2>1
  <2>3. CASE k = 2 * j - 1
    <3>1. k < Len(s) /\ k + 1 = 2 * j
      BY <1>4, <1>5, <1>7, <2>2, <2>3
    <3> QED
      BY <1>1, <1>3, <1>7, <2>2, <2>3, <3>1
  <2>4. CASE k = 2 * j
    <3>1. k # 1 /\ k - 1 = 2 * j - 1
      BY <2>2, <2>4
    <3> QED
      BY <1>1, <1>3, <1>7, <2>2, <2>4, <3>1
  <2> QED
    BY <2>1, <2>3, <2>4
<1>8. CASE k \in {2 * D + 1, 2 * D + 2, 2 * D + 3}
  <2>1. k = 2 * D + 2 => k # 1 /\ k - 1 = 2 * D + 1
    BY <1>4
  <2> QED
    BY <1>3, <1>5, <1>8, <2>1
<1>9. CASE k > 2 * D + 3 /\ k <= 2 * D + 2 * V + 3
  <2>1. PICK l \in 1..(2 * V) : k = 2 * D + 3 + l
    <3>1. k - (2 * D + 3) \in 1..(2 * V) /\ k = 2 * D + 3 + (k - (2 * D + 3))
      BY <1>4, <1>6, <1>9
    <3> QED
      BY <3>1
  <2>2. PICK j \in 1..V : l = 2 * j - 1 \/ l = 2 * j
    BY <1>4, PairOf
  <2>3. /\ s[2 * D + 2 + 2 * j] = [do |-> "record", on |-> Values[j]]
        /\ s[2 * D + 3 + 2 * j] = [do |-> "set", on |-> Values[j]]
        /\ Values[j] \in Range(Values) /\ j \in Nat /\ j >= 1
    BY <1>4, <1>5
  <2>4. CASE l = 2 * j - 1
    <3>1. k = 2 * D + 2 + 2 * j
      BY <1>4, <2>1, <2>3, <2>4
    <3> QED
      BY <1>3, <2>3, <3>1
  <2>5. CASE l = 2 * j
    <3>1. k = 2 * D + 3 + 2 * j /\ k - 1 = 2 * D + 2 + 2 * j /\ k # 1
      BY <1>4, <2>1, <2>3, <2>5
    <3> QED
      BY <1>3, <2>3, <3>1
  <2> QED
    BY <2>2, <2>4, <2>5
<1>10. CASE k > 2 * D + 2 * V + 3 /\ k <= 3 * D + 2 * V + 3
  <2>1. PICK j \in 1..D : k = 2 * D + 2 * V + 3 + j
    <3>1. k - (2 * D + 2 * V + 3) \in 1..D /\ k = 2 * D + 2 * V + 3 + (k - (2 * D + 2 * V + 3))
      BY <1>4, <1>6, <1>10
    <3> QED
      BY <3>1
  <2>2. s[k] = [do |-> "dll", on |-> Dlls[j]] /\ Dlls[j] \in Range(Dlls) /\ k > 2 * D
    BY <1>4, <1>5, <1>6, <1>10, <2>1
  <2> QED
    BY <1>1, <1>3, <2>2
<1>11. CASE k = 3 * D + 2 * V + 4
  BY <1>3, <1>5, <1>11
<1>12. \/ k <= 2 * D \/ k \in {2 * D + 1, 2 * D + 2, 2 * D + 3}
       \/ k > 2 * D + 3 /\ k <= 2 * D + 2 * V + 3
       \/ k > 2 * D + 2 * V + 3 /\ k <= 3 * D + 2 * V + 3
       \/ k = 3 * D + 2 * V + 4
  BY <1>4, <1>6
<1> QED
  BY <1>7, <1>8, <1>9, <1>10, <1>11, <1>12, Zenon

\* Both lists are orderly, and have what the invariant looks for ahead.
LEMMA InstallOrderly ==
    /\ Orderly(InstallSteps)
    /\ InstallSteps # <<>>
    /\ \A k \in 1..Len(InstallSteps) : InstallSteps[k].do \in InstallActs
    /\ Head(InstallSteps).do \in InstallActs \ {"mark", "set", "launcher"}
    /\ \A i \in Range(Dlls) : \E k \in 1..Len(InstallSteps) : InstallSteps[k] = [do |-> "mark", on |-> i]
<1>1. PICK s : s = InstallSteps
  OBVIOUS
<1>2. PICK D : D = Len(Dlls)
  OBVIOUS
<1>3. /\ s \in Seq(StepsOf(InstallActs)) /\ Len(s) = 3 * D + 2 * Len(Values) + 4
      /\ \A j \in 1..D : s[2 * j] = [do |-> "mark", on |-> Dlls[j]]
      /\ D \in Nat /\ Len(Values) \in Nat
  BY <1>1, <1>2, InstallStepsAre, NamesTargeted
<1>4. \A k \in 1..Len(s) :
         \/ /\ k <= 2 * D /\ k < Len(s)
            /\ \E i \in Range(Dlls) : s[k] = [do |-> "save", on |-> i] /\ s[k + 1] = [do |-> "mark", on |-> i]
         \/ /\ k <= 2 * D /\ k # 1
            /\ \E i \in Range(Dlls) : s[k] = [do |-> "mark", on |-> i] /\ s[k - 1] = [do |-> "save", on |-> i]
         \/ /\ s[k].do \in {"server", "launcher", "compat", "enable"}
            /\ s[k].do = "launcher" => k # 1 /\ s[k - 1].do = "server"
         \/ \E i \in Range(Values) : s[k] = [do |-> "record", on |-> i]
         \/ /\ k # 1
            /\ \E i \in Range(Values) : s[k] = [do |-> "set", on |-> i] /\ s[k - 1] = [do |-> "record", on |-> i]
         \/ k > 2 * D /\ \E i \in Range(Dlls) : s[k] = [do |-> "dll", on |-> i]
  BY <1>1, <1>2, InstallStepAt
<1>5. Len(s) \in Nat /\ Len(s) >= 4
  BY <1>3
<1>6. \A k \in 1..Len(s) : s[k].do \in InstallActs
  <2>1. \A k \in 1..Len(s) : s[k] \in StepsOf(InstallActs)
    BY <1>3
  <2> QED
    BY ONLY <2>1 DEF StepsOf
<1>7. \A k \in 1..Len(s) :
          /\ s[k].do \in {"save", "mark", "dll", "restore"} => s[k].on \in Range(Dlls)
          /\ s[k].do \in {"record", "set", "reset"} => s[k].on \in Range(Values)
          /\ s[k].do = "save" => k < Len(s) /\ s[k + 1] = [do |-> "mark", on |-> s[k].on]
          /\ s[k].do = "finish" => k = Len(s)
          /\ s[k].do = "mark" => k <= 2 * D /\ k # 1 /\ s[k - 1] = [do |-> "save", on |-> s[k].on]
          /\ s[k].do = "launcher" => k # 1 /\ s[k - 1].do = "server"
          /\ s[k].do = "set" => k # 1 /\ s[k - 1] = [do |-> "record", on |-> s[k].on]
          /\ s[k].do = "dll" => k > 2 * D
  <2> TAKE k \in 1..Len(s)
  <2>1. CASE /\ k <= 2 * D /\ k < Len(s)
             /\ \E i \in Range(Dlls) : s[k] = [do |-> "save", on |-> i] /\ s[k + 1] = [do |-> "mark", on |-> i]
    BY <2>1
  <2>2. CASE /\ k <= 2 * D /\ k # 1
             /\ \E i \in Range(Dlls) : s[k] = [do |-> "mark", on |-> i] /\ s[k - 1] = [do |-> "save", on |-> i]
    BY <2>2
  <2>3. CASE /\ s[k].do \in {"server", "launcher", "compat", "enable"}
             /\ s[k].do = "launcher" => k # 1 /\ s[k - 1].do = "server"
    BY <2>3
  <2>4. CASE \E i \in Range(Values) : s[k] = [do |-> "record", on |-> i]
    BY <2>4
  <2>5. CASE /\ k # 1
             /\ \E i \in Range(Values) : s[k] = [do |-> "set", on |-> i] /\ s[k - 1] = [do |-> "record", on |-> i]
    BY <2>5
  <2>6. CASE k > 2 * D /\ \E i \in Range(Dlls) : s[k] = [do |-> "dll", on |-> i]
    BY <2>6
  <2> QED
    BY <1>4, <2>1, <2>2, <2>3, <2>4, <2>5, <2>6
<1>8. \A k \in 2..Len(s) : k \in 1..Len(s)
  OBVIOUS
<1>9. \A k, l \in 1..Len(s) : s[k].do = "dll" /\ s[l].do = "mark" => l < k
  <2> TAKE k, l \in 1..Len(s)
  <2>1. s[k].do = "dll" => k > 2 * D
    BY <1>7
  <2>2. s[l].do = "mark" => l <= 2 * D
    BY <1>7
  <2> QED
    BY <1>3, <2>1, <2>2
<1>10. Orderly(s)
  BY <1>3, <1>7, <1>8, <1>9 DEF Orderly
<1>11. s # <<>> /\ Head(s) = s[1] /\ 1 \in 1..Len(s)
  BY <1>3, <1>5, HeadTailProperties, EmptySeq
<1>12. Head(s).do \in InstallActs \ {"mark", "set", "launcher"}
  BY <1>6, <1>7, <1>11
<1>13. \A i \in Range(Dlls) : \E k \in 1..Len(s) : s[k] = [do |-> "mark", on |-> i]
  <2> TAKE i \in Range(Dlls)
  <2>1. PICK j \in 1..D : Dlls[j] = i
    BY <1>2, NamesAssumption DEF Range
  <2>2. 2 * j \in 1..Len(s)
    BY <1>3
  <2> QED
    BY <1>3, <2>1, <2>2
<1> QED
  BY <1>1, <1>6, <1>10, <1>11, <1>12, <1>13

LEMMA UninstallOrderly ==
    /\ Orderly(UninstallSteps)
    /\ UninstallSteps # <<>> /\ Head(UninstallSteps).do \in UninstallActs
    /\ \A k \in 1..Len(UninstallSteps) : UninstallSteps[k].do \in UninstallActs
    /\ \A i \in Range(Dlls) : \E k \in 1..Len(UninstallSteps) : UninstallSteps[k] = [do |-> "restore", on |-> i]
    /\ \A i \in Range(Values) : \E k \in 1..Len(UninstallSteps) : UninstallSteps[k] = [do |-> "reset", on |-> i]
    /\ \A act \in {"restore server", "remove compat", "restore devcon"} :
         \E k \in 1..Len(UninstallSteps) : UninstallSteps[k].do = act
<1>1. PICK s : s = UninstallSteps
  OBVIOUS
<1>2. PICK D : D = Len(Dlls)
  OBVIOUS
<1>3. PICK V : V = Len(Values)
  OBVIOUS
<1>4. /\ s \in Seq(StepsOf(UninstallActs)) /\ Len(s) = D + V + 4
      /\ \A j \in 1..D : s[j] = [do |-> "restore", on |-> Dlls[j]]
      /\ s[D + 1].do = "restore server" /\ s[D + 2].do = "remove compat" /\ s[D + 3].do = "restore devcon"
      /\ \A j \in 1..V : s[D + 3 + j] = [do |-> "reset", on |-> Values[j]]
      /\ s[D + V + 4].do = "finish"
      /\ D \in Nat /\ V \in Nat
  BY <1>1, <1>2, <1>3, UninstallStepsAre, NamesTargeted
<1>5. \A j \in 1..D : Dlls[j] \in Range(Dlls)
  BY <1>2, NamesTargeted
<1>6. \A j \in 1..V : Values[j] \in Range(Values)
  BY <1>3, NamesTargeted
<1>7. \A k \in 1..Len(s) : s[k].do \in UninstallActs
  <2>1. s \in Seq(StepsOf(UninstallActs))
    BY <1>4
  <2>2. \A k \in 1..Len(s) : s[k] \in StepsOf(UninstallActs)
    BY ONLY <2>1
  <2> QED
    BY ONLY <2>2 DEF StepsOf
<1>17. Len(s) = D + V + 4 /\ D \in Nat /\ V \in Nat
  BY <1>4
<1>8. \A k \in 1..Len(s) :
         \/ \E i \in Range(Dlls) : s[k] = [do |-> "restore", on |-> i]
         \/ s[k].do \in {"restore server", "remove compat", "restore devcon"}
         \/ \E i \in Range(Values) : s[k] = [do |-> "reset", on |-> i]
         \/ s[k].do = "finish" /\ k = Len(s)
  <2> TAKE k \in 1..Len(s)
  <2>1. CASE k \in 1..D
    BY <1>4, <1>5, <2>1
  <2>2. CASE k \in {D + 1, D + 2, D + 3}
    BY <1>4, <2>2
  <2>3. CASE k - (D + 3) \in 1..V
    <3>1. k = D + 3 + (k - (D + 3))
      BY ONLY <1>17, k \in 1..Len(s)
    <3>2. s[k] = [do |-> "reset", on |-> Values[k - (D + 3)]]
      BY <1>4, <2>3, <3>1
    <3> QED
      BY <1>6, <2>3, <3>2
  <2>4. CASE k = D + V + 4
    BY <1>4, <2>4
  <2>5. k \in 1..D \/ k \in {D + 1, D + 2, D + 3} \/ k - (D + 3) \in 1..V \/ k = D + V + 4
    BY ONLY <1>17, k \in 1..Len(s)
  <2> QED
    BY <2>1, <2>2, <2>3, <2>4, <2>5
<1>9. \A k \in 1..Len(s) :
          /\ s[k].do \in {"restore", "restore server", "remove compat", "restore devcon", "reset", "finish"}
          /\ s[k].do = "restore" => s[k].on \in Range(Dlls)
          /\ s[k].do = "reset" => s[k].on \in Range(Values)
          /\ s[k].do = "finish" => k = Len(s)
  <2> TAKE k \in 1..Len(s)
  <2>1. CASE \E i \in Range(Dlls) : s[k] = [do |-> "restore", on |-> i]
    BY ONLY <2>1
  <2>2. CASE s[k].do \in {"restore server", "remove compat", "restore devcon"}
    BY ONLY <2>2
  <2>3. CASE \E i \in Range(Values) : s[k] = [do |-> "reset", on |-> i]
    BY ONLY <2>3
  <2>4. CASE s[k].do = "finish" /\ k = Len(s)
    BY ONLY <2>4
  <2> QED
    BY <1>8, <2>1, <2>2, <2>3, <2>4
<1>10. \A k \in 1..Len(s) :
          /\ s[k].do \in {"save", "mark", "dll", "restore"} => s[k].on \in Range(Dlls)
          /\ s[k].do \in {"record", "set", "reset"} => s[k].on \in Range(Values)
          /\ s[k].do \notin {"save", "mark", "launcher", "set", "dll"}
  BY <1>9
<1>11. \A k \in 2..Len(s) : k \in 1..Len(s)
  OBVIOUS
<1>12. Orderly(s)
  BY <1>4, <1>9, <1>10, <1>11 DEF Orderly
<1>13. s # <<>> /\ Head(s).do \in UninstallActs
  <2>3. Len(s) >= 4 /\ 1 \in 1..Len(s)
    BY <1>17
  <2>1. s \in Seq(StepsOf(UninstallActs)) /\ Len(s) >= 4 /\ 1 \in 1..Len(s)
    BY <1>4, <2>3
  <2>2. s # <<>> /\ Head(s) = s[1]
    BY <2>1, HeadTailProperties, EmptySeq
  <2> QED
    BY <1>7, <2>1, <2>2
<1>14. \A i \in Range(Dlls) : \E k \in 1..Len(s) : s[k] = [do |-> "restore", on |-> i]
  <2> TAKE i \in Range(Dlls)
  <2>1. PICK j \in 1..D : Dlls[j] = i
    BY <1>2, NamesAssumption DEF Range
  <2>2. j \in 1..Len(s)
    BY <1>17
  <2> QED
    BY <1>4, <2>1, <2>2
<1>15. \A i \in Range(Values) : \E k \in 1..Len(s) : s[k] = [do |-> "reset", on |-> i]
  <2> TAKE i \in Range(Values)
  <2>1. PICK j \in 1..V : Values[j] = i
    BY <1>3, NamesAssumption DEF Range
  <2>2. D + 3 + j \in 1..Len(s)
    BY <1>17
  <2> QED
    BY <1>4, <2>1, <2>2
<1>16. \A act \in {"restore server", "remove compat", "restore devcon"} : \E k \in 1..Len(s) : s[k].do = act
  <2>1. D + 1 \in 1..Len(s) /\ D + 2 \in 1..Len(s) /\ D + 3 \in 1..Len(s)
    BY <1>17
  <2> QED
    BY <1>4, <2>1
<1> QED
  BY <1>1, <1>7, <1>12, <1>13, <1>14, <1>15, <1>16

-----------------------------------------------------------------------------
(* While no script runs *)

\* Nothing is due and nothing is ahead.
LEMMA AtRest ==
    ASSUME Idle
    PROVE  /\ \A act : ~Doing(act) /\ ~Ahead(act)
           /\ ~Installing /\ ~Uninstalling
<1>1. Len(agenda) = 0
  BY DEF Idle
<1> QED
  BY <1>1 DEF Idle, Doing, Ahead, Installing, Uninstalling

\* A step that ends with no script running owes nothing to the next one.
LEMMA ComesToRest ==
    ASSUME Idle', writing' = FALSE
    PROVE  /\ \A act : ~Doing(act)' /\ ~Ahead(act)'
           /\ Orderly(agenda') /\ Prepared' /\ Marked' /\ Removing'
<1>1. agenda' = <<>> /\ Len(agenda') = 0
  BY DEF Idle
<1>2. \A act : ~Doing(act)' /\ ~Ahead(act)'
  BY <1>1 DEF Doing, Ahead
<1>3. ~Installing' /\ ~Uninstalling'
  BY <1>1 DEF Installing, Uninstalling, Idle
<1>4. Orderly(agenda')
  BY <1>1, NothingLeft
<1> QED
  BY <1>2, <1>3, <1>4 DEF Prepared, Marked, Removing

\* What an idle state leaves of the server's part of the invariant.
LEMMA ServerAtRest ==
    ASSUME ServerSafe, Idle, excuses = {}
    PROVE  \/ disk[Server] = Uu(version)
           \/ disk[Real] = Uu(version) /\ disk[Server] \in {Bridge(package), Missing}
  BY AtRest DEF ServerSafe, SetAside

\* It is enough that the server is where it was, when no script runs.
LEMMA ServerRests ==
    ASSUME Idle', writing' = FALSE,
           excuses' = {} => \/ disk'[Server] = Uu(version')
                            \/ disk'[Real] = Uu(version') /\ disk'[Server] \in {Bridge(package'), Missing}
    PROVE  ServerSafe'
  BY ComesToRest DEF ServerSafe, SetAside

\* The scripts start and are cut; the guard; the upgrades: each keeps the invariant.
LEMMA StartInstallStep ==
    ASSUME IInv, StartInstall
    PROVE  IInv'
<1>1. /\ Types /\ KeptAll /\ Prepared /\ Driver /\ ServerSafe
      /\ DiskTypes /\ OtherTypes
  BY DEF IInv, Types
<1>2. /\ Idle /\ agenda' = InstallSteps /\ guard' \in {"none", guard} /\ removed' = FALSE /\ undeleted' = {}
      /\ UNCHANGED <<writing, disk, version, package, original, misread, enabled, outlived, excuses>>
  BY DEF StartInstall, Start, world
<1>3. writing = FALSE
  BY <1>1, <1>2 DEF Prepared, OtherTypes
<1>4. Head(agenda').do \in InstallActs
  BY <1>2, InstallOrderly
<1>5. \A k \in 1..Len(agenda') : agenda'[k].do \in InstallActs
  BY <1>2, InstallOrderly
<1>6. ~Doing("mark")' /\ ~Doing("set")' /\ ~Doing("launcher")'
  BY <1>2, InstallOrderly DEF Doing
<1>7. ~Uninstalling'
  BY <1>4 DEF Uninstalling, InstallActs, UninstallActs
<1>8. ~Ahead("restore server")'
  BY <1>5 DEF Ahead, InstallActs
<1>9. Types'
  BY <1>1, <1>2, InstallOrderly DEF Types, DiskTypes, OtherTypes
<1>10. KeptAll'
  BY <1>1, <1>2, KeptElsewhere DEF KeptAll
<1>11. Prepared'
  BY <1>2, <1>3, <1>6 DEF Prepared
<1>12. Marked'
  BY <1>2, InstallOrderly DEF Marked, AheadFor
<1>13. Removing' /\ AfterRemoval'
  BY <1>2, <1>7 DEF Removing, AfterRemoval
<1>14. Driver'
  BY <1>1, <1>2 DEF Driver, DriverPlaced, DriverThere
<1>15. ServerSafe'
  <2>1. excuses' = {} => disk'[Server] = Uu(version') \/ SetAside'
    BY <1>1, <1>2, ServerAtRest DEF SetAside
  <2> QED
    BY <1>6, <1>8, <2>1 DEF ServerSafe
<1> QED
  BY <1>9, <1>10, <1>11, <1>12, <1>13, <1>14, <1>15 DEF IInv

LEMMA StartUninstallStep ==
    ASSUME IInv, StartUninstall
    PROVE  IInv'
<1>1. /\ Types /\ KeptAll /\ Prepared /\ Driver /\ ServerSafe
      /\ DiskTypes /\ OtherTypes
  BY DEF IInv, Types
<1>2. /\ Idle /\ agenda' = UninstallSteps /\ guard' \in {"none", guard} /\ removed' = FALSE /\ undeleted' = {}
      /\ enabled' \in {FALSE, enabled}
      /\ outlived' = \/ enabled' \/ guard' # "none"
                     \/ outlived /\ disk[Devcon] = Missing /\ disk[Disabled] = Missing
      /\ excuses' = excuses \cup
                    IF disk[Server] = Uu(version) /\ disk[Real] # Missing THEN {"upgrade"} ELSE {}
      /\ UNCHANGED <<writing, disk, version, package, original, misread>>
  BY DEF StartUninstall, Start, world
<1>3. writing = FALSE
  BY <1>1, <1>2 DEF Prepared, OtherTypes
<1>5. Head(agenda').do \in UninstallActs
  BY <1>2, UninstallOrderly
<1>6. ~Doing("mark")' /\ ~Doing("set")' /\ ~Doing("launcher")'
  BY <1>5 DEF Doing, UninstallActs
<1>7. ~Installing'
  BY <1>5 DEF Installing, InstallActs, UninstallActs
<1>8. Types'
  BY <1>1, <1>2, UninstallOrderly DEF Types, DiskTypes, OtherTypes
<1>9. KeptAll'
  BY <1>1, <1>2, KeptElsewhere DEF KeptAll
<1>10. Prepared'
  BY <1>2, <1>3, <1>6 DEF Prepared
<1>11. Marked' /\ AfterRemoval'
  BY <1>2, <1>7 DEF Marked, AfterRemoval
<1>12. Removing'
  <2>1. \A i \in Items : AheadFor("restore", i)' \/ AheadFor("reset", i)'
    BY <1>2, Names, UninstallOrderly DEF AheadFor
  <2>2. Ahead("restore server")' /\ Ahead("remove compat")' /\ Ahead("restore devcon")'
    BY <1>2, UninstallOrderly DEF Ahead
  <2>3. outlived' \/ Stopped'
    BY <1>2 DEF Stopped
  <2> QED
    BY <2>1, <2>2, <2>3 DEF Removing
<1>13. Driver'
  BY <1>1, <1>2 DEF Driver, DriverPlaced, DriverThere
<1>14. ServerSafe'
  <2>1. excuses' = {} => excuses = {} /\ ~(disk[Server] = Uu(version) /\ disk[Real] # Missing)
    BY <1>2
  <2>2. excuses' = {} => disk'[Server] = Uu(version') \/ SetAside'
    BY <1>1, <1>2, <2>1, ServerAtRest DEF SetAside
  <2> QED
    BY <1>2, <1>6, <2>1, <2>2 DEF ServerSafe
<1> QED
  BY <1>8, <1>9, <1>10, <1>11, <1>12, <1>13, <1>14 DEF IInv

LEMMA CrashStep ==
    ASSUME IInv, Crash
    PROVE  IInv'
<1>1. /\ Types /\ KeptAll /\ Driver /\ AfterRemoval /\ ServerSafe /\ DiskTypes /\ OtherTypes
  BY DEF IInv, Types
<1>2. /\ ~Idle /\ agenda' = <<>> /\ writing' = FALSE
      /\ excuses' = excuses \cup IF disk[Server] = Torn THEN {"cut"} ELSE {}
      /\ undeleted' = {}
      /\ UNCHANGED <<disk, enabled, guard, version, package, original, misread, outlived, removed>>
  BY DEF Crash, world
<1>3. Idle'
  BY <1>2 DEF Idle
<1>4. Types'
  BY <1>1, <1>2, <1>3, ComesToRest DEF Types, DiskTypes, OtherTypes
<1>5. KeptAll'
  BY <1>1, <1>2, KeptElsewhere DEF KeptAll
<1>6. Prepared' /\ Marked' /\ Removing'
  BY <1>2, <1>3, ComesToRest
<1>7. Driver'
  BY <1>1, <1>2, DriverFrame
<1>8. AfterRemoval'
  BY <1>1, <1>2 DEF AfterRemoval
<1>9. ServerSafe'
  <2>1. excuses' = {} => excuses = {} /\ disk[Server] # Torn
    BY <1>2
  <2>2. excuses' = {} => \/ disk[Server] = Uu(version)
                         \/ disk[Real] = Uu(version) /\ disk[Server] \in {Bridge(package), Missing}
    BY <1>1, <2>1 DEF ServerSafe, SetAside
  <2> QED
    BY <1>2, <1>3, <2>2, ServerRests
<1> QED
  BY <1>4, <1>5, <1>6, <1>7, <1>8, <1>9 DEF IInv

\* What a step of the guard has to see to.  Beside uninstall.sh, or after it, there
\* is none unless the guard has outlived its start.
LEMMA GuardFrame ==
    ASSUME IInv, guard' \in {"none", "idle", "copy", "remove"}, enabled \/ guard # "none",
           UNCHANGED <<agenda, writing, enabled, version, package>>,
           UNCHANGED <<original, misread, undeleted, outlived, removed, excuses>>,
           DiskTypes', Driver',
           \A p \in DOMAIN disk : p \notin {Devcon, Disabled} => disk'[p] = disk[p]
    PROVE  IInv'
<1>1. /\ Types /\ KeptAll /\ Prepared /\ Marked /\ Removing /\ AfterRemoval /\ ServerSafe
      /\ Orderly(agenda) /\ DiskTypes /\ OtherTypes
  BY DEF IInv, Types
<1>2. /\ \A i \in Items : UNCHANGED <<disk[State(i)], disk[Bin(i)], disk[Backup(i)]>>
      /\ UNCHANGED <<disk[Server], disk[Real], disk[Compat]>>
  BY <1>1, PlacesThere, FixedApart DEF DiskTypes
<1>3. Types'
  BY <1>1 DEF Types, OtherTypes, Orderly
<1>4. KeptAll'
  BY <1>1, <1>2, KeptElsewhere DEF KeptAll
<1>5. Prepared'
  <2>1. \A act \in {"save", "mark", "record", "set", "restore"} : Doing(act) => Item \in Items
    BY <1>1, StepIs, Names
  <2>2. /\ \A act : Doing(act)' <=> Doing(act)
        /\ Item' = Item /\ (Idle' <=> Idle) /\ Head(agenda') = Head(agenda)
    BY DEF Doing, Item, Idle
  <2> QED
    BY <1>1, <1>2, <2>1, <2>2 DEF Prepared
<1>6. Marked'
  BY <1>1, <1>2, Names DEF Marked, Installing, Idle, AheadFor
<1>7. ~Stopped /\ \A i \in Items : PutBack(i) <=> PutBack(i)'
  BY <1>2 DEF Stopped, PutBack
<1>8. Removing'
  BY <1>1, <1>2, <1>7 DEF Removing, Uninstalling, Idle, Ahead, AheadFor
<1>9. AfterRemoval'
  BY <1>1, <1>2, <1>7 DEF AfterRemoval, Removed, Idle
<1>10. ServerSafe'
  BY <1>1, <1>2 DEF ServerSafe, SetAside, Doing, Ahead
<1> QED
  BY <1>3, <1>4, <1>5, <1>6, <1>8, <1>9, <1>10 DEF IInv

\* The two places of the driver installer are places of their own.
LEMMA DriverPlaces ==
    ASSUME DiskTypes
    PROVE  {Devcon, Disabled} \subseteq DOMAIN disk /\ Devcon # Disabled /\ {Devcon, Disabled} \subseteq Places
  BY PlacesThere, FixedApart DEF DiskTypes

\* A step of the guard, as far as it is the same for all of them.
LEMMA GuardStepKeeps ==
    ASSUME IInv, NEW from, NEW to \in {"none", "idle", "copy", "remove"}, NEW files,
           GuardStep(from, to, files), enabled \/ from # "none", DiskTypes', Driver',
           \A p \in DOMAIN disk : p \notin {Devcon, Disabled} => files[p] = disk[p]
    PROVE  IInv'
<1>1. /\ guard = from /\ guard' = to /\ disk' = files
      /\ UNCHANGED <<agenda, writing, enabled, version, package>>
      /\ UNCHANGED <<original, misread, undeleted, outlived, removed, excuses>>
  BY DEF GuardStep, script, world, history
<1> QED
  BY <1>1, GuardFrame

LEMMA GuardStartsStep ==
    ASSUME IInv, GuardStarts
    PROVE  IInv'
<1>1. Driver /\ DiskTypes
  BY DEF IInv, Types
<1>2. enabled /\ GuardStep("none", "idle", disk)
  BY DEF GuardStarts
<1>3. disk' = disk /\ guard' = "idle" /\ outlived' = outlived
  BY <1>2 DEF GuardStep, history
<1>4. DiskTypes' /\ Driver'
  BY <1>1, <1>3 DEF DiskTypes, Driver, DriverPlaced, DriverThere
<1> QED
  BY <1>2, <1>4, GuardStepKeeps

LEMMA DisableDriverStep ==
    ASSUME IInv, DisableDriver
    PROVE  IInv'
<1>1. Driver /\ DiskTypes
  BY DEF IInv, Types
<1>2. {Devcon, Disabled} \subseteq DOMAIN disk /\ Devcon # Disabled /\ {Devcon, Disabled} \subseteq Places
  BY <1>1, DriverPlaces
<1>3. DriverThere
  BY <1>1 DEF DisableDriver, Driver
<1>4. CASE disk[Disabled] = Missing
  <2>1. GuardStep("idle", "copy", Put(Disabled, Torn))
    BY <1>4 DEF DisableDriver
  <2>2. disk' = Put(Disabled, Torn) /\ guard' = "copy"
    BY <2>1 DEF GuardStep
  <2>3. DiskTypes'
    BY <1>1, <1>2, <2>2, PutTyped, ContentsThere
  <2>4. disk'[Disabled] = Torn /\ disk'[Devcon] = disk[Devcon]
    BY <1>2, <2>2, PutIs
  <2>5. Driver'
    BY <1>3, <2>2, <2>4, ContentsApart DEF Driver, DriverPlaced, DriverThere
  <2> QED
    BY <2>1, <2>3, <2>5, PutIs, GuardStepKeeps
<1>5. CASE disk[Disabled] # Missing
  <2>1. GuardStep("idle", "remove", disk)
    BY <1>5 DEF DisableDriver
  <2>2. disk' = disk /\ guard' = "remove"
    BY <2>1 DEF GuardStep
  <2>3. DiskTypes' /\ Driver'
    BY <1>1, <1>3, <1>5, <2>2 DEF DiskTypes, Driver, DriverPlaced, DriverThere
  <2> QED
    BY <2>1, <2>3, GuardStepKeeps
<1> QED
  BY <1>4, <1>5

LEMMA DriverCopiedStep ==
    ASSUME IInv, DriverCopied
    PROVE  IInv'
<1>1. Driver /\ DiskTypes /\ OtherTypes
  BY DEF IInv, Types
<1>2. {Devcon, Disabled} \subseteq DOMAIN disk /\ Devcon # Disabled /\ {Devcon, Disabled} \subseteq Places
  BY <1>1, DriverPlaces
<1>3. CASE disk[Disabled] # Missing /\ GuardStep("copy", "remove", Put(Disabled, disk[Devcon]))
  <2>1. /\ disk' = Put(Disabled, disk[Devcon]) /\ guard' = "remove" /\ guard = "copy"
        /\ outlived' = outlived
    BY <1>3 DEF GuardStep, history
  <2>2. DiskTypes'
    BY <1>1, <1>2, <2>1, PutTyped DEF DiskTypes
  <2>3. disk'[Disabled] = disk[Devcon] /\ disk'[Devcon] = disk[Devcon]
    BY <1>2, <2>1, PutIs
  <2>4. DriverThere => disk[Devcon] # Missing
    BY ContentsApart DEF DriverThere
  <2>5. Driver'
    BY <1>1, <2>1, <2>3, <2>4 DEF Driver, DriverPlaced, DriverThere
  <2> QED
    BY <1>3, <2>2, <2>5, PutIs, GuardStepKeeps
<1>4. ASSUME disk[Disabled] = Missing, NEW source \in {Uu(1), Torn},
             GuardStep("copy", "remove", Put(Devcon, source))
      PROVE  IInv'
  <2>1. /\ disk' = Put(Devcon, source) /\ guard' = "remove" /\ guard = "copy"
        /\ outlived' = outlived
    BY <1>4 DEF GuardStep, history
  <2>2. source \in Contents /\ source.by \in {"uu", "crash"}
    BY VersionsThere, ContentsThere, ContentsApart
  <2>3. DiskTypes'
    BY <1>1, <1>2, <2>1, <2>2, PutTyped
  <2>4. disk'[Disabled] = Missing /\ disk'[Devcon] = source
    BY <1>2, <1>4, <2>1, PutIs
  <2>5. outlived
    BY <1>1, <1>4, <2>1 DEF Driver, DriverPlaced
  <2>6. Driver'
    BY <2>1, <2>2, <2>4, <2>5 DEF Driver, DriverThere
  <2> QED
    BY <1>4, <2>3, <2>6, PutIs, GuardStepKeeps
<1> QED
  BY <1>3, <1>4 DEF DriverCopied

LEMMA DriverRemovedStep ==
    ASSUME IInv, DriverRemoved
    PROVE  IInv'
<1>1. Driver /\ DiskTypes
  BY DEF IInv, Types
<1>2. {Devcon, Disabled} \subseteq DOMAIN disk /\ Devcon # Disabled /\ {Devcon, Disabled} \subseteq Places
  BY <1>1, DriverPlaces
<1>3. GuardStep("remove", "idle", Put(Devcon, Missing))
  BY DEF DriverRemoved
<1>4. /\ disk' = Put(Devcon, Missing) /\ guard' = "idle" /\ guard = "remove"
      /\ outlived' = outlived
  BY <1>3 DEF GuardStep, history
<1>5. DiskTypes'
  BY <1>1, <1>2, <1>4, PutTyped, ContentsThere
<1>6. disk'[Disabled] = disk[Disabled] /\ disk'[Devcon] = Missing
  BY <1>2, <1>4, PutIs
<1>7. Driver'
  BY <1>1, <1>4, <1>6 DEF Driver, DriverPlaced
<1> QED
  BY <1>3, <1>5, <1>7, PutIs, GuardStepKeeps

LEMMA GuardKilledStep ==
    ASSUME IInv, GuardKilled
    PROVE  IInv'
<1>1. Driver /\ DiskTypes
  BY DEF IInv, Types
<1>2. /\ guard # "none" /\ guard' = "none" /\ disk' = disk
      /\ UNCHANGED <<agenda, writing, enabled, version, package>>
      /\ UNCHANGED <<original, misread, undeleted, outlived, removed, excuses>>
  BY DEF GuardKilled, script, world, history
<1>3. DiskTypes' /\ Driver'
  BY <1>1, <1>2 DEF DiskTypes, Driver, DriverPlaced, DriverThere
<1> QED
  BY <1>2, <1>3, GuardFrame

LEMMA UpgradePackageStep ==
    ASSUME IInv, UpgradePackage
    PROVE  IInv'
<1>1. /\ Types /\ KeptAll /\ Prepared /\ Driver /\ AfterRemoval /\ ServerSafe /\ DiskTypes /\ OtherTypes
  BY DEF IInv, Types
<1>2. /\ Idle /\ MoreUpgrades /\ package' = package + 1
      /\ excuses' = excuses \cup IF disk[Server].by = "bridge" THEN {"package"} ELSE {}
      /\ UNCHANGED <<agenda, writing, disk, enabled, guard, version, original, misread, undeleted, outlived, removed>>
  BY DEF UpgradePackage, script
<1>3. Idle' /\ writing' = FALSE
  BY <1>1, <1>2 DEF Idle, Prepared, OtherTypes
<1>4. Types'
  <2>1. package' \in Versions
    BY <1>1, <1>2, VersionsThere DEF OtherTypes, MoreUpgrades
  <2> QED
    BY <1>1, <1>2, <1>3, <2>1, ComesToRest DEF Types, DiskTypes, OtherTypes
<1>5. KeptAll'
  BY <1>1, <1>2, KeptElsewhere DEF KeptAll
<1>6. Prepared' /\ Marked' /\ Removing'
  BY <1>3, ComesToRest
<1>7. Driver' /\ AfterRemoval'
  BY <1>1, <1>2, <1>3 DEF Driver, DriverPlaced, DriverThere, AfterRemoval, Stopped, Removed, PutBack
<1>8. ServerSafe'
  <2>1. excuses' = {} => excuses = {} /\ disk[Server].by # "bridge"
    BY <1>2
  <2>2. excuses' = {} => \/ disk[Server] = Uu(version)
                         \/ disk[Real] = Uu(version) /\ disk[Server] = Missing
    BY <1>1, <1>2, <2>1, ServerAtRest, ContentsApart
  <2> QED
    BY <1>2, <1>3, <2>2, ServerRests
<1> QED
  BY <1>4, <1>5, <1>6, <1>7, <1>8 DEF IInv

LEMMA UpgradeUuStep ==
    ASSUME IInv, UpgradeUu
    PROVE  IInv'
<1>1. /\ Types /\ KeptAll /\ Prepared /\ Driver /\ DiskTypes /\ OtherTypes
  BY DEF IInv, Types
<1>2. PICK ships \in SUBSET Range(Dlls) :
        /\ disk' = [p \in DOMAIN disk |-> CASE p \in {Server} \cup {Bin(d) : d \in ships} -> Uu(version + 1)
                                            [] p = Devcon -> Uu(1)
                                            [] OTHER      -> disk[p]]
        /\ original' = [i \in Items |-> IF i \in ships /\ disk[State(i)] = Missing
                                        THEN Uu(version + 1) ELSE original[i]]
  BY DEF UpgradeUu
<1>3. /\ Idle /\ MoreUpgrades /\ version' = version + 1
      /\ undeleted' = {} /\ removed' = FALSE /\ excuses' = {}
      /\ UNCHANGED <<agenda, writing, enabled, guard, package, misread, outlived>>
  BY DEF UpgradeUu, script
<1>4. Idle' /\ writing' = FALSE
  BY <1>1, <1>3 DEF Idle, Prepared, OtherTypes
<1>5. version' \in Versions /\ version + 1 \in Versions /\ 1 \in Versions
  BY <1>1, <1>3, VersionsThere DEF OtherTypes, MoreUpgrades
<1>6. \A p \in DOMAIN disk : /\ p = Server => disk'[p] = Uu(version + 1)
                             /\ p = Devcon => disk'[p] = Uu(1)
                             /\ p # Server /\ p # Devcon /\ (\A d \in ships : p # Bin(d)) => disk'[p] = disk[p]
  <2>1. \A d \in ships : Devcon # Bin(d)
    BY Names, FixedApart
  <2> QED
    BY <1>2, <2>1, FixedApart
<1>7. \A d \in ships : Bin(d) \in DOMAIN disk => disk'[Bin(d)] = Uu(version + 1)
  <2>1. PICK fresh : fresh = {Server} \cup {Bin(d) : d \in ships}
    OBVIOUS
  <2>2. disk' = [p \in DOMAIN disk |-> CASE p \in fresh -> Uu(version + 1)
                                         [] p = Devcon -> Uu(1)
                                         [] OTHER      -> disk[p]]
    BY <1>2, <2>1
  <2>3. \A p \in fresh : p # Devcon
    BY <2>1, Names, FixedApart
  <2>4. \A p \in DOMAIN disk : p \in fresh => disk'[p] = Uu(version + 1)
    BY ONLY <2>2, <2>3
  <2>5. \A d \in ships : Bin(d) \in fresh
    BY ONLY <2>1
  <2> QED
    BY <2>4, <2>5
<1>8. DOMAIN disk' = DOMAIN disk
  BY <1>2
<1>9. DiskTypes'
  <2>1. \A p \in Places : disk'[p] \in Contents
    <3> TAKE p \in Places
    <3>1. disk'[p] \in {Uu(version + 1), Uu(1), disk[p]} /\ disk[p] \in Contents
      BY <1>1, <1>6, <1>7 DEF DiskTypes
    <3> QED
      BY <1>5, <3>1, ContentsThere
  <2>2. \A p \in States : disk'[p] = disk[p]
    <3> TAKE p \in States
    <3>1. p # Server /\ p # Devcon /\ \A d \in ships : p # Bin(d)
      BY PlacesThere, Names
    <3> QED
      BY <1>1, <1>6, <3>1 DEF DiskTypes
  <2> QED
    BY <1>1, <1>8, <2>1, <2>2 DEF DiskTypes
<1>10. OtherTypes'
  <2>1. original' \in [Items -> Contents]
    BY <1>1, <1>2, <1>5, ContentsThere DEF OtherTypes
  <2> QED
    BY <1>1, <1>3, <1>5, <2>1 DEF OtherTypes
<1>11. Types'
  BY <1>4, <1>9, <1>10, ComesToRest DEF Types
<1>12. KeptAll'
  <2> SUFFICES ASSUME NEW i \in Items PROVE Kept(i)'
    BY DEF KeptAll
  <2>1. /\ {Bin(i), Backup(i), State(i)} \subseteq DOMAIN disk
        /\ Kept(i)
    BY <1>1, PlacesThere DEF DiskTypes, KeptAll
  <2>2. disk'[State(i)] = disk[State(i)] /\ disk'[Backup(i)] = disk[Backup(i)]
    BY <1>6, <2>1, FixedApart, PlacesApart
  <2>3. CASE i \notin ships
    <3>1. \A d \in ships : Bin(i) # Bin(d)
      BY <2>3, PlacesApart
    <3>2. disk'[Bin(i)] = disk[Bin(i)] /\ original'[i] = original[i]
      BY <1>2, <1>6, <2>1, <2>3, <3>1, FixedApart
    <3> QED
      BY <1>3, <2>1, <2>2, <3>2, KeptElsewhere
  <2>4. CASE i \in ships /\ disk[State(i)] = Missing
    <3>1. disk'[Bin(i)] = Uu(version + 1) /\ original'[i] = Uu(version + 1)
      BY <1>2, <1>7, <2>1, <2>4
    <3> QED
      BY <2>2, <2>4, <3>1, ContentsApart DEF Kept
  <2>5. CASE i \in ships /\ disk[State(i)] # Missing
    <3>1. original'[i] = original[i]
      BY <1>2, <2>5
    <3> QED
      BY <1>3, <2>1, <2>2, <2>5, <3>1 DEF Kept
  <2> QED
    BY <2>3, <2>4, <2>5
<1>13. Prepared' /\ Marked' /\ Removing' /\ AfterRemoval'
  BY <1>3, <1>4, ComesToRest DEF AfterRemoval
<1>14. Driver'
  <2>1. disk'[Devcon] = Uu(1) /\ disk'[Disabled] = disk[Disabled]
    <3>1. Devcon \in DOMAIN disk /\ Disabled \in DOMAIN disk
      BY <1>1, PlacesThere DEF DiskTypes
    <3>2. Disabled # Server /\ Disabled # Devcon /\ \A d \in ships : Disabled # Bin(d)
      BY Names, FixedApart
    <3> QED
      BY <1>6, <3>1, <3>2
  <2>2. DriverThere'
    BY <2>1, ContentsApart DEF DriverThere
  <2> QED
    BY <1>1, <1>3, <2>1, <2>2 DEF Driver, DriverPlaced
<1>15. ServerSafe'
  <2>1. disk'[Server] = Uu(version')
    BY <1>1, <1>3, <1>6, PlacesThere DEF DiskTypes
  <2> QED
    BY <1>4, <2>1, ServerRests
<1> QED
  BY <1>11, <1>12, <1>13, <1>14, <1>15 DEF IInv

-----------------------------------------------------------------------------
(* The theorems *)

\* The invariant holds at first and is kept by every step.
LEMMA Begins ==
    ASSUME InstallInit
    PROVE  IInv
<1>1. /\ agenda = <<>> /\ writing = FALSE /\ enabled = FALSE /\ guard = "none"
      /\ version = 1 /\ package = 1 /\ misread = {} /\ undeleted = {} /\ outlived = FALSE /\ removed = FALSE /\ excuses = {}
      /\ original \in [Items -> {Missing, Uu(1)}]
      /\ disk = [p \in Places \cup States |->
                   CASE p \in {Server, Devcon}           -> Uu(1)
                     [] p[1] = "bin" /\ p[2] \in Items -> original[p[2]]
                     [] OTHER                            -> Missing]
  BY DEF InstallInit
<1>2. Idle
  BY <1>1 DEF Idle
<1>3. 1 \in Versions
  BY VersionsThere
<1>4. /\ disk[Server] = Uu(1) /\ disk[Devcon] = Uu(1)
      /\ disk[Real] = Missing /\ disk[Compat] = Missing /\ disk[Disabled] = Missing
  <2>1. {"GameViewerServer.real.exe", "uu-server-compat.dll", "devcon.exe.uu-disabled"} \cap Items = {}
    BY Names DEF Fixed
  <2>2. Real[2] \notin Items /\ Compat[2] \notin Items /\ Disabled[2] \notin Items
    BY <2>1 DEF Real, Compat, Disabled, Bin
  <2>3. {Server, Real, Compat, Devcon, Disabled} \subseteq Places \cup States
    BY PlacesThere
  <2>4. {Real, Compat, Disabled} \cap {Server, Devcon} = {}
    BY FixedApart
  <2>5. \A p \in {Real, Compat, Disabled} : disk[p] = Missing
    BY ONLY <1>1, <2>2, <2>3, <2>4
  <2>6. disk[Server] = Uu(1) /\ disk[Devcon] = Uu(1)
    <3>1. \A p \in Places \cup States : p \in {Server, Devcon} => p[1] = "bin" /\ p[2] \notin Items
      BY Names DEF Server, Devcon, Bin, Fixed
    <3>2. \A p \in Places \cup States : p \in {Server, Devcon} => disk[p] = Uu(1)
      BY ONLY <1>1, <3>1
    <3> QED
      BY <2>3, <3>2
  <2> QED
    BY <2>5, <2>6
<1>5. \A i \in Items : disk[Bin(i)] = original[i] /\ disk[Backup(i)] = Missing /\ disk[State(i)] = Missing
  <2> TAKE i \in Items
  <2>1. /\ Bin(i)[1] = "bin" /\ Bin(i)[2] = i
        /\ Backup(i)[1] # "bin" /\ State(i)[1] # "bin"
    BY DEF Bin, Backup, State
  <2>2. {Bin(i), Backup(i), State(i)} \subseteq Places \cup States
    BY PlacesThere
  <2> QED
    BY <1>1, <2>1, <2>2, FixedApart
<1>6. DiskTypes
  <2>1. \A p \in Places \cup States : disk[p] \in {Uu(1), Missing} \cup {original[i] : i \in Items}
    BY <1>1
  <2>2. {Uu(1), Missing} \cup {original[i] : i \in Items} \subseteq Contents
    BY <1>1, <1>3, ContentsThere
  <2>3. \A s \in States : disk[s] = Missing
    BY <1>5 DEF States
  <2> QED
    BY <1>1, <2>1, <2>2, <2>3 DEF DiskTypes
<1>7. OtherTypes
  <2>1. original \in [Items -> Contents]
    BY <1>1, <1>3, ContentsThere
  <2> QED
    BY <1>1, <1>3, <2>1 DEF OtherTypes
<1>8. Types
  BY <1>1, <1>6, <1>7, NothingLeft DEF Types
<1>9. KeptAll
  BY <1>5, ContentsApart DEF KeptAll, Kept
<1>10. Prepared /\ Marked /\ Removing /\ AfterRemoval
  BY <1>1, <1>2, AtRest DEF Prepared, Marked, Removing, AfterRemoval
<1>11. Driver
  BY <1>1, <1>4, ContentsApart DEF Driver, DriverPlaced, DriverThere
<1>12. ServerSafe
  BY <1>1, <1>2, <1>4, AtRest DEF ServerSafe
<1> QED
  BY <1>8, <1>9, <1>10, <1>11, <1>12 DEF IInv

LEMMA Continues ==
    ASSUME IInv, [InstallNext]_installVars
    PROVE  IInv'
<1>1. CASE StartInstall
  BY <1>1, StartInstallStep
<1>2. CASE SaveOriginal
  BY <1>2, StepIs, SaveStep DEF SaveOriginal, IInv, Types
<1>3. CASE Mark
  BY <1>3, StepIs, MarkStep DEF Mark, IInv, Types
<1>4. CASE MoveServer
  BY <1>4, MoveServerStep
<1>5. CASE InstallLauncher
  BY <1>5, LauncherStep
<1>6. CASE InstallCompat
  BY <1>6, CompatStep
<1>7. CASE Record
  BY <1>7, StepIs, RecordStep DEF Record, IInv, Types
<1>8. CASE SetValue
  BY <1>8, StepIs, SetStep DEF SetValue, IInv, Types
<1>9. CASE InstallDll
  BY <1>9, StepIs, DllStep DEF InstallDll, IInv, Types
<1>10. CASE Enable
  BY <1>10, EnableStep
<1>11. CASE StartUninstall
  BY <1>11, StartUninstallStep
<1>12. CASE Restore
  BY <1>12, StepIs, RestoreStep DEF Restore, IInv, Types
<1>13. CASE RestoreServer
  BY <1>13, RestoreServerStep
<1>14. CASE RemoveCompat
  BY <1>14, RemoveCompatStep
<1>15. CASE RestoreDevcon
  BY <1>15, RestoreDevconStep
<1>16. CASE ResetValue
  BY <1>16, StepIs, ResetStep DEF ResetValue, IInv, Types
<1>17. CASE Finish
  BY <1>17, FinishStep
<1>18. CASE Crash
  BY <1>18, CrashStep
<1>19. CASE Guard
  BY <1>19, GuardStartsStep, DisableDriverStep, DriverCopiedStep, DriverRemovedStep, GuardKilledStep DEF Guard
<1>20. CASE UpgradeUu
  BY <1>20, UpgradeUuStep
<1>21. CASE UpgradePackage
  BY <1>21, UpgradePackageStep
<1>22. CASE UNCHANGED installVars
  <2>1. UNCHANGED <<agenda, writing, disk, enabled, guard, version, package, original, misread, undeleted, outlived, removed, excuses>>
    BY <1>22 DEF installVars, script, world, history
  <2>2. Types'
    BY <2>1 DEF IInv, Types, DiskTypes, OtherTypes, Orderly
  <2>3. KeptAll'
    BY <2>1, KeptElsewhere DEF IInv, KeptAll
  <2>4. Prepared' /\ Marked'
    BY <2>1 DEF IInv, Prepared, Marked, Doing, Item, Idle, AheadFor, Installing
  <2>5. Removing' /\ AfterRemoval'
    BY <2>1 DEF IInv, Removing, AfterRemoval, Stopped, Removed, PutBack, DriverThere, Idle, Ahead, AheadFor, Uninstalling
  <2>6. Driver' /\ ServerSafe'
    BY <2>1 DEF IInv, Driver, DriverPlaced, DriverThere, ServerSafe, SetAside, Doing, Idle, Ahead
  <2> QED
    BY <2>2, <2>3, <2>4, <2>5, <2>6 DEF IInv
<1> QED
  BY <1>1, <1>2, <1>3, <1>4, <1>5, <1>6, <1>7, <1>8, <1>9, <1>10, <1>11, <1>12, <1>13, <1>14,
     <1>15, <1>16, <1>17, <1>18, <1>19, <1>20, <1>21, <1>22 DEF InstallNext, Install, Uninstall

\* The inductive invariant of install.sh, uninstall.sh and the guard's driver step:
\* what a marker or a state file says of an item's backup is true between any two
\* steps (install.sh:60-72, 86-126); nothing that uninstall.sh has dealt with is
\* undone before it ends (uninstall.sh:25-85), but a value that was not deleted
\* there (:50-51) and, by a guard that was not stopped (:19-22), the driver
\* installer; that one is in one of its two places as long as no guard has
\* outlived uninstall.sh; and UU's newest server is in place or set aside as long
\* as nothing excuses its loss (install.sh:76-83).
THEOREM InstallInvariance == InstallSpec => []IInv
<1>1. InstallInit => IInv
  BY Begins
<1>2. IInv /\ [InstallNext]_installVars => IInv'
  BY Continues
<1> QED
  BY <1>1, <1>2, PTL DEF InstallSpec

\* However many runs were cut short in between, uninstall.sh that runs to its end
\* (uninstall.sh:25-85) leaves every DLL and value as it was, but those whose state
\* could not be told, of such a DLL the backup is whole (install.sh:60-72), and the
\* values whose deletion it saw fail and ignored (uninstall.sh:50-51, 65-66, 80-81).
\* UU has its driver installer again, unless the guard could not be stopped
\* (uninstall.sh:19-22).
THEOREM OriginalsRestored == InstallSpec => []RollbackRestores
<1>1. IInv => RollbackRestores
  <2> SUFFICES ASSUME IInv, removed
               PROVE  /\ \A i \in Items :
                           \/ disk[Bin(i)] = original[i]
                           \/ i \in misread \cup undeleted
                           \/ disk[State(i)] = Torn /\ (i \in Range(Dlls) => disk[Backup(i)] = original[i])
                      /\ outlived \/ disk[Devcon].by \in {"uu", "crash"}
                      /\ disk[Compat] = Missing /\ disk[Real] = Missing
    BY DEF RollbackRestores
  <2>1. Removed /\ KeptAll
    BY DEF IInv, AfterRemoval
  <2> QED
    BY <2>1 DEF Removed, PutBack, DriverThere, KeptAll, Kept
<1> QED
  BY <1>1, InstallInvariance, PTL

\* UU's newest server is never lost but in the three ways ServerKept names
\* (install.sh:76-83, uninstall.sh:33-35).
THEOREM NewestServerKept == InstallSpec => []ServerKept
<1>1. IInv => ServerKept
  BY DEF IInv, ServerSafe, SetAside, ServerKept
<1> QED
  BY <1>1, InstallInvariance, PTL

\* What is left of a script is the end of its list of steps.
LeftOf(s) == \E done \in 0..Len(s) : agenda = SubSeq(s, done + 1, Len(s))

\* The end of a list of steps, and the end of that end.
LEMMA EndOfEnd ==
    ASSUME NEW T, NEW s, s \in Seq(T), NEW d \in 0..Len(s), NEW a, a = SubSeq(s, d + 1, Len(s))
    PROVE  /\ a \in Seq(T) /\ Len(a) = Len(s) - d
           /\ \A k \in 1..Len(a) : a[k] = s[k + d]
<1>1. Len(s) \in Nat /\ d \in Nat /\ d <= Len(s)
  OBVIOUS
<1>2. \A k \in (d + 1)..Len(s) : s[k] \in T
  BY <1>1
<1>3. /\ a \in Seq(T)
      /\ Len(a) = IF d + 1 <= Len(s) THEN Len(s) - (d + 1) + 1 ELSE 0
      /\ \A k \in 1..(Len(s) - (d + 1) + 1) : a[k] = s[(d + 1) + k - 1]
  BY <1>1, <1>2, SubSeqProperties
<1>4. Len(a) = Len(s) - d
  BY <1>1, <1>3
<1>5. \A k \in 1..Len(a) : k \in 1..(Len(s) - (d + 1) + 1) /\ (d + 1) + k - 1 = k + d
  BY <1>1, <1>4
<1> QED
  BY <1>3, <1>4, <1>5

LEMMA StillTheEnd ==
    ASSUME NEW T, NEW s, s \in Seq(T), NEW d \in 0..Len(s), NEW a, a = SubSeq(s, d + 1, Len(s)),
           NEW n \in 0..Len(a)
    PROVE  /\ d + n \in 0..Len(s)
           /\ SubSeq(a, n + 1, Len(a)) = SubSeq(s, (d + n) + 1, Len(s))
<1>1. /\ a \in Seq(T) /\ Len(a) = Len(s) - d
      /\ \A k \in 1..Len(a) : a[k] = s[k + d]
  BY EndOfEnd
<1>2. Len(s) \in Nat /\ d + n \in 0..Len(s) /\ n \in Nat /\ d \in Nat
  BY <1>1
<1>3. PICK b : b = SubSeq(a, n + 1, Len(a))
  OBVIOUS
<1>4. PICK c : c = SubSeq(s, (d + n) + 1, Len(s))
  OBVIOUS
<1>5. PICK e : e = d + n
  OBVIOUS
<1>6. /\ b \in Seq(T) /\ Len(b) = Len(a) - n
      /\ \A k \in 1..Len(b) : b[k] = a[k + n]
  <2>1. a \in Seq(T) /\ n \in 0..Len(a)
    BY <1>1
  <2> QED
    BY ONLY <1>3, <2>1, EndOfEnd
<1>7. /\ c \in Seq(T) /\ Len(c) = Len(s) - e
      /\ \A k \in 1..Len(c) : c[k] = s[k + e]
  <2>1. s \in Seq(T) /\ e \in 0..Len(s) /\ c = SubSeq(s, e + 1, Len(s))
    BY <1>2, <1>4, <1>5
  <2> QED
    BY ONLY <2>1, EndOfEnd
<1>8. Len(b) = Len(c)
  BY <1>1, <1>2, <1>5, <1>6, <1>7
<1>9. \A k \in 1..Len(b) : b[k] = c[k]
  <2> TAKE k \in 1..Len(b)
  <2>1. k + n \in 1..Len(a) /\ (k + n) + d = k + e
    BY <1>1, <1>2, <1>5, <1>6
  <2> QED
    BY <1>1, <1>6, <1>7, <1>8, <2>1
<1>10. b = c
  BY ONLY <1>6, <1>7, <1>8, <1>9, SeqEqual
<1> QED
  BY <1>2, <1>3, <1>4, <1>10

\* The ways in which a step moves what is left.
LEMMA AgendaMoves ==
    ASSUME IInv, [InstallNext]_installVars
    PROVE  \/ agenda' \in {agenda, <<>>, InstallSteps, UninstallSteps}
           \/ \E n \in 1..Len(agenda) : Skip(n)
<1>1. Orderly(agenda)
  BY DEF IInv, Types
<1>2. ~Idle => Len(agenda) \in Nat /\ Len(agenda) >= 1
  BY <1>1, HeadIs
<1>3. Doing("save") => Len(agenda) >= 2
  <2>1. \A k \in 1..Len(agenda) : agenda[k].do = "save" => k < Len(agenda)
    BY <1>1 DEF Orderly
  <2>2. Doing("save") => ~Idle /\ agenda[1].do = "save"
    BY <1>1, HeadIs DEF Doing, Idle
  <2> QED
    BY <1>2, <2>1, <2>2
<1>4. \A act : Doing(act) => ~Idle
  BY DEF Doing, Idle
<1>5. ~Idle /\ Skip(1) => \E n \in 1..Len(agenda) : Skip(n)
  <2> SUFFICES ASSUME ~Idle, Skip(1) PROVE \E n \in 1..Len(agenda) : Skip(n)
    OBVIOUS
  <2>1. 1 \in 1..Len(agenda)
    BY <1>2
  <2> QED
    BY <2>1
<1>6. Doing("save") /\ Skip(2) => \E n \in 1..Len(agenda) : Skip(n)
  <2> SUFFICES ASSUME Doing("save"), Skip(2) PROVE \E n \in 1..Len(agenda) : Skip(n)
    OBVIOUS
  <2>1. 2 \in 1..Len(agenda)
    BY <1>2, <1>3, <1>4
  <2> QED
    BY <2>1
<1>7. \A p, c : Write(p, c) => UNCHANGED agenda \/ Skip(1)
  BY DEF Write
<1>8. CASE SaveOriginal
  BY <1>4, <1>5, <1>6, <1>7, <1>8 DEF SaveOriginal, Pass
<1>9. CASE Mark \/ InstallLauncher \/ InstallCompat \/ InstallDll
  BY <1>4, <1>5, <1>7, <1>9 DEF Mark, InstallLauncher, InstallCompat, InstallDll
<1>10. CASE MoveServer \/ SetValue \/ RestoreServer \/ RemoveCompat \/ RestoreDevcon \/ ResetValue
  BY <1>4, <1>5, <1>10 DEF MoveServer, SetValue, RestoreServer, RemoveCompat, RestoreDevcon, ResetValue,
                           Pass, Do, Exit, NotDeleted
<1>11. CASE Record \/ Restore
  BY <1>4, <1>5, <1>7, <1>11 DEF Record, Restore, Pass, Do
<1>12. CASE Enable \/ Finish
  BY <1>4, <1>5, <1>12 DEF Enable, Finish
<1>13. CASE StartInstall \/ StartUninstall \/ Crash
  BY <1>13 DEF StartInstall, StartUninstall, Start, Crash
<1>14. CASE Guard \/ UpgradeUu \/ UpgradePackage \/ UNCHANGED installVars
  BY <1>14 DEF Guard, GuardStarts, DisableDriver, DriverCopied, DriverRemoved, GuardStep, GuardKilled, UpgradeUu,
               UpgradePackage, script, installVars
<1> QED
  BY <1>8, <1>9, <1>10, <1>11, <1>12, <1>13, <1>14 DEF InstallNext, Install, Uninstall

\* A whole list is an end of itself, and so is nothing.
LEMMA WholeAndNothing ==
    ASSUME NEW T, NEW s, s \in Seq(T)
    PROVE  /\ agenda = s \/ agenda = <<>> => LeftOf(s)
           /\ agenda' = s \/ agenda' = <<>> => LeftOf(s)'
<1>1. Len(s) \in Nat /\ 0 \in 0..Len(s) /\ Len(s) \in 0..Len(s)
  OBVIOUS
<1>2. SubSeq(s, 0 + 1, Len(s)) = s
  <2>1. PICK a : a = SubSeq(s, 0 + 1, Len(s))
    OBVIOUS
  <2>2. a \in Seq(T) /\ Len(a) = Len(s) - 0 /\ \A k \in 1..Len(a) : a[k] = s[k + 0]
    BY ONLY <1>1, <2>1, s \in Seq(T), EndOfEnd
  <2>3. Len(a) = Len(s) /\ \A k \in 1..Len(a) : a[k] = s[k]
    BY <1>1, <2>2
  <2>4. a = s
    BY ONLY s \in Seq(T), <2>2, <2>3, SeqEqual
  <2> QED
    BY <2>1, <2>4
<1>3. SubSeq(s, Len(s) + 1, Len(s)) = <<>>
  <2>1. PICK a : a = SubSeq(s, Len(s) + 1, Len(s))
    OBVIOUS
  <2>2. a \in Seq(T) /\ Len(a) = Len(s) - Len(s)
    BY ONLY <1>1, <2>1, s \in Seq(T), EndOfEnd
  <2>3. Len(a) = 0
    BY <1>1, <2>2
  <2> QED
    BY <2>1, <2>2, <2>3, EmptySeq
<1> QED
  BY <1>1, <1>2, <1>3 DEF LeftOf

\* Every step leaves an end of one of the two lists.
LEMMA EndsStay ==
    ASSUME IInv, LeftOf(InstallSteps) \/ LeftOf(UninstallSteps), [InstallNext]_installVars
    PROVE  LeftOf(InstallSteps)' \/ LeftOf(UninstallSteps)'
<1>1. InstallSteps \in Seq(StepsOf(InstallActs)) /\ UninstallSteps \in Seq(StepsOf(UninstallActs))
  BY InstallStepsAre, UninstallStepsAre
<1>2. CASE agenda' = agenda
  BY <1>2 DEF LeftOf
<1>3. CASE agenda' \in {<<>>, InstallSteps, UninstallSteps}
  BY <1>1, <1>3, WholeAndNothing
<1>4. CASE \E n \in 1..Len(agenda) : Skip(n)
  <2>1. PICK n \in 1..Len(agenda) : agenda' = SubSeq(agenda, n + 1, Len(agenda))
    BY <1>4 DEF Skip
  <2>2. ASSUME NEW T, NEW s, s \in Seq(T), LeftOf(s)
        PROVE  LeftOf(s)'
    <3>1. PICK d \in 0..Len(s) : agenda = SubSeq(s, d + 1, Len(s))
      BY <2>2 DEF LeftOf
    <3>2. Len(agenda) \in Nat /\ n \in 0..Len(agenda)
      BY <2>2, <3>1, EndOfEnd
    <3>3. /\ d + n \in 0..Len(s)
          /\ SubSeq(agenda, n + 1, Len(agenda)) = SubSeq(s, (d + n) + 1, Len(s))
      BY ONLY <2>2, <3>1, <3>2, StillTheEnd
    <3> QED
      BY <2>1, <3>3 DEF LeftOf
  <2> QED
    BY <1>1, <2>2
<1> QED
  BY <1>2, <1>3, <1>4, AgendaMoves

\* Types, and that what is left of a running script is always the end of one of the
\* two lists of steps: no step is left out or taken twice (install.sh, uninstall.sh,
\* both under set -e).
THEOREM InstallTypeCorrect == InstallSpec => []InstallTypeOK
<1> DEFINE Ends == LeftOf(InstallSteps) \/ LeftOf(UninstallSteps)
<1>1. InstallInit => Ends
  BY InstallStepsAre, WholeAndNothing DEF InstallInit
<1>2. IInv /\ IInv' /\ Ends /\ [InstallNext]_installVars => Ends'
  BY EndsStay
<1>3. IInv /\ Ends => InstallTypeOK
  BY DEF IInv, Types, DiskTypes, OtherTypes, InstallTypeOK, LeftOf
<1> HIDE DEF Ends
<1> QED
  BY <1>1, <1>2, <1>3, InstallInvariance, PTL DEF InstallSpec

=============================================================================
