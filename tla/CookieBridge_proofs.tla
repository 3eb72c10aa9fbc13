-------------------------- MODULE CookieBridge_proofs --------------------------
(***************************************************************************)
(* Proofs about CookieBridge for any number of workspaces, runs and        *)
(* commands: type correctness, that cookies stay in their workspace unless *)
(* a run straddles a switch, and that the file of the open workspace holds *)
(* the jar whenever nothing is under way.                                  *)
(***************************************************************************)
EXTENDS CookieBridge, TLAPS

Loading == bridge \in {"restore", "setpath"}

(* The workspace the jar is, or is about to be, filled from. *)
Current == IF Loading THEN loading ELSE path

(* w is the workspace the i-th command of channel q will be taken in: that of
   the last load before it, or the one that is current now. *)
NoLoad(q, i, j) == \A k \in i..j : q[k].cmd # "load"
InContext(q, cur, i, w) ==
  \/ w = cur /\ NoLoad(q, 1, i - 1)
  \/ \E j \in 1..(i - 1) : /\ q[j].cmd = "load" /\ q[j].arg = w
                           /\ NoLoad(q, j + 1, i - 1)

(* The bridge follows the user: a run is taken in the workspace it was sent
   from, although the user may have switched several times since. *)
QueueFits ==
  /\ InContext(cmds, Current, Len(cmds) + 1, open)
  /\ \A i \in DOMAIN cmds :
       cmds[i].cmd \in {"run", "v1"} =>
         /\ InContext(cmds, Current, i, owner[cmds[i].arg])
         /\ owner[cmds[i].arg] # NoPath
  /\ \A r \in Runs : UnderWay(r) => owner[r] # NoPath

(* The bridge's own save is over before it takes the next command. *)
MainSave ==
  Saving(Main) => /\ ~Loading
                  /\ saver[Main].at \in {"json", "write"} => saver[Main].path = path

(* While no run has straddled a switch: the jar, the files and the copies on
   their way to a file only hold the cookies of their workspace, and who is
   under way belongs to the workspace that is open. *)
OwnWorld ==
  ~straddled =>
    /\ \A w \in Workspaces : files[w] \subseteq {w}
    /\ jar \subseteq {Current}
    /\ \A r \in Runs :
         /\ UnderWay(r) => owner[r] = Current /\ owner[r] = path
         /\ saver[r].at \in {"json", "write"} => saver[r].path = owner[r]
    /\ \A a \in Agents : saver[a].at = "write" => saver[a].json \subseteq {saver[a].path}

(* A run that will save the jar when it ends. *)
RunGoing == \E r \in Runs : task[r] = "running" /\ kind[r] = "run"

(* Without a race there is one save at a time, and none during a load. *)
OneSave ==
  ~raced =>
    /\ \A a, b \in Agents : Saving(a) /\ Saving(b) => a = b
    /\ \A a \in Agents : Saving(a) => ~Loading
    /\ \A a \in Agents : saver[a].at \in {"json", "write"} => saver[a].path = path

(* The jar is in the file, on its way there, or some run will save it. *)
SaveDue ==
  ~raced /\ ~unsaved =>
    /\ bridge = "restore" => jar = {} \/ RunGoing
    /\ bridge = "setpath" => jar = files[loading] \/ RunGoing
    /\ ~Loading /\ path # NoPath =>
         files[path] = jar \/ RunGoing \/ \E a \in Agents : Saving(a)
    /\ \A a \in Agents : saver[a].at = "write" => saver[a].json = jar \/ RunGoing

LoadTyped == Loading => loading \in Workspaces

BridgeInv ==
  TypeOK /\ LoadTyped /\ QueueFits /\ MainSave /\ OwnWorld /\ OneSave /\ SaveDue

-----------------------------------------------------------------------------
LEMMA Agency == Main \in Agents /\ Main \notin Runs /\ Runs \subseteq Agents
                /\ \A a \in Agents : a \in Runs \/ a = Main
  BY CookieAssumption DEF Agents, Main

(* Typing of the bookkeeping of saves. *)
LEMMA SaverTyped ==
  ASSUME TypeOK, NEW a \in Agents
  PROVE  /\ saver[a] = [at |-> saver[a].at, path |-> saver[a].path, json |-> saver[a].json]
         /\ saver[a].at \in {"idle", "path", "json", "write"}
         /\ saver[a].path \in Workspaces \cup {NoPath}
         /\ saver[a].json \in SUBSET Workspaces
  BY DEF TypeOK

LEMMA BeginSaveTyped ==
  ASSUME TypeOK, NEW a \in Agents, BeginSave(a)
  PROVE  /\ saver' \in [Agents -> [at : {"idle", "path", "json", "write"},
                                  path : Workspaces \cup {NoPath},
                                  json : SUBSET Workspaces]]
         /\ saver'[a].at = "path" /\ \A b \in Agents : b # a => saver'[b] = saver[b]
         /\ raced' \in BOOLEAN
         /\ ~raced' => ~raced /\ ~Loading /\ \A b \in Agents : b # a => ~Saving(b)
<1>1. saver' = [saver EXCEPT ![a] = [@ EXCEPT !.at = "path"]]
  BY DEF BeginSave
<1>2. saver \in [Agents -> [at : {"idle", "path", "json", "write"},
                            path : Workspaces \cup {NoPath},
                            json : SUBSET Workspaces]]
  BY DEF TypeOK
<1>3. raced' \in BOOLEAN /\ (~raced' => ~raced /\ ~Loading
                              /\ \A b \in Agents : b # a => ~Saving(b))
  BY DEF BeginSave, Loading, TypeOK
<1>. QED
  BY <1>1, <1>2, <1>3

(* What the head of the channel is, by its command. *)
LEMMA HeadTyped ==
  ASSUME TypeOK, cmds # <<>>
  PROVE  /\ Tail(cmds) \in Seq(Command) /\ Len(cmds) >= 1 /\ Len(cmds) \in Nat
         /\ Head(cmds) = cmds[1] /\ 1 \in DOMAIN cmds
         /\ Len(Tail(cmds)) = Len(cmds) - 1
         /\ DOMAIN Tail(cmds) = 1..(Len(cmds) - 1)
         /\ \A k \in 1..(Len(cmds) - 1) : Tail(cmds)[k] = cmds[k + 1]
         /\ Head(cmds).cmd \in {"run", "v1"} => Head(cmds).arg \in Runs
         /\ Head(cmds).cmd \in {"load", "remove"} => Head(cmds).arg \in Workspaces
<1>1. cmds \in Seq(Command)
  BY DEF TypeOK
<1>2. Head(cmds) \in Command
  BY <1>1
<1>3. /\ Head(cmds).cmd \in {"run", "v1"} => Head(cmds).arg \in Runs
      /\ Head(cmds).cmd \in {"load", "remove"} => Head(cmds).arg \in Workspaces
  BY <1>2 DEF Command
<1>. QED
  BY <1>1, <1>3

(* A command appended does not change the context of those before it; a load
   is the context of what comes after. *)
LEMMA ContextAppend ==
  ASSUME NEW q \in Seq(Command), NEW c \in Command, NEW cur
  PROVE  /\ \A i \in 1..(Len(q) + 1) : \A w :
              InContext(q, cur, i, w) => InContext(Append(q, c), cur, i, w)
         /\ c.cmd = "load" => InContext(Append(q, c), cur, Len(q) + 2, c.arg)
         /\ c.cmd # "load" =>
              \A w : InContext(q, cur, Len(q) + 1, w) =>
                       InContext(Append(q, c), cur, Len(q) + 2, w)
<1> DEFINE p == Append(q, c)
<1>1. /\ Len(q) \in Nat /\ \A i \in 1..Len(q) : p[i] = q[i]
      /\ p[Len(q) + 1] = c
  OBVIOUS
<1> HIDE DEF p
<1>2. \A i \in 1..(Len(q) + 1), j \in Nat \ {0} :
        NoLoad(q, j, i - 1) => NoLoad(p, j, i - 1)
  BY <1>1 DEF NoLoad
<1>3. ASSUME NEW i \in 1..(Len(q) + 1), NEW w, InContext(q, cur, i, w)
      PROVE  InContext(p, cur, i, w)
  BY <1>1, <1>2, <1>3 DEF InContext
<1>4. ASSUME c.cmd = "load" PROVE InContext(p, cur, Len(q) + 2, c.arg)
  <2>1. NoLoad(p, Len(q) + 2, Len(q) + 1)
    BY <1>1 DEF NoLoad
  <2>. QED
    BY <1>1, <1>4, <2>1 DEF InContext
<1>5. ASSUME c.cmd # "load", NEW w, InContext(q, cur, Len(q) + 1, w)
      PROVE  InContext(p, cur, Len(q) + 2, w)
  <2>1. \A j \in Nat \ {0} : NoLoad(q, j, Len(q)) => NoLoad(p, j, Len(q) + 1)
    BY <1>1, <1>5 DEF NoLoad
  <2>. QED
    BY <1>1, <1>5, <2>1 DEF InContext
<1>. QED
  BY <1>3, <1>4, <1>5 DEF p

(* Taking a command moves the others up; a load makes its workspace current. *)
LEMMA ContextTail ==
  ASSUME NEW q \in Seq(Command), q # <<>>, NEW cur, NEW next,
         next = IF q[1].cmd = "load" THEN q[1].arg ELSE cur,
         NEW i \in 1..Len(q), NEW w, InContext(q, cur, i + 1, w)
  PROVE  InContext(Tail(q), next, i, w)
<1> DEFINE p == Tail(q)
<1>1. Len(q) \in Nat /\ \A k \in 1..(Len(q) - 1) : p[k] = q[k + 1]
  OBVIOUS
<1> HIDE DEF p
<1>2. \A j \in 1..i : NoLoad(q, j + 1, i) => NoLoad(p, j, i - 1)
  BY <1>1 DEF NoLoad
<1>3. CASE w = cur /\ NoLoad(q, 1, i)
  <2>1. q[1].cmd # "load" /\ NoLoad(q, 2, i)
    BY <1>3, <1>1 DEF NoLoad
  <2>2. NoLoad(p, 1, i - 1)
    BY <2>1, <1>2, <1>1
  <2>. QED
    BY <2>1, <2>2, <1>3 DEF InContext, p
<1>4. ASSUME NEW j \in 1..i, q[j].cmd = "load", q[j].arg = w, NoLoad(q, j + 1, i)
      PROVE  InContext(p, next, i, w)
  <2>1. NoLoad(p, j, i - 1)
    BY <1>4, <1>2
  <2>2. CASE j = 1
    BY <1>4, <2>1, <2>2 DEF InContext
  <2>3. CASE j > 1
    <3>1. j - 1 \in 1..(i - 1) /\ p[j - 1] = q[j] /\ j - 1 + 1 = j
      BY <2>3, <1>1
    <3>. QED
      BY <3>1, <1>4, <2>1 DEF InContext
  <2>. QED
    BY <2>2, <2>3, <1>1
<1>5. i + 1 - 1 = i
  OBVIOUS
<1>. QED
  BY <1>3, <1>4, <1>5 DEF InContext, p

LEMMA QueueTaken ==
  ASSUME BridgeInv, cmds # <<>>, cmds' = Tail(cmds), UNCHANGED <<open, owner>>,
         Current' = IF cmds[1].cmd = "load" THEN cmds[1].arg ELSE Current,
         \A r \in Runs : UnderWay(r)' => owner[r] # NoPath
  PROVE  QueueFits'
<1>0. TypeOK /\ QueueFits /\ cmds \in Seq(Command)
  BY DEF BridgeInv, TypeOK
<1>1. /\ Len(cmds) >= 1 /\ Len(cmds) \in Nat /\ DOMAIN cmds = 1..Len(cmds)
      /\ Len(cmds') = Len(cmds) - 1 /\ DOMAIN cmds' = 1..(Len(cmds) - 1)
      /\ \A k \in 1..(Len(cmds) - 1) : cmds'[k] = cmds[k + 1]
  BY <1>0, HeadTyped
<1> DEFINE cur == Current
           next == Current'
<1>2. next = IF cmds[1].cmd = "load" THEN cmds[1].arg ELSE cur
  OBVIOUS
<1> HIDE DEF cur, next
<1>3. \A i \in 1..Len(cmds) : \A w :
        InContext(cmds, cur, i + 1, w) => InContext(cmds', next, i, w)
  BY <1>0, <1>2, ContextTail
<1>4. InContext(cmds', next, Len(cmds') + 1, open')
  <2>1. Len(cmds') + 1 = Len(cmds) /\ Len(cmds) \in 1..Len(cmds)
    BY <1>1
  <2>2. InContext(cmds, cur, Len(cmds) + 1, open)
    BY <1>0 DEF QueueFits, cur
  <2>. QED
    BY <1>3, <2>1, <2>2
<1>5. \A i \in DOMAIN cmds' :
        cmds'[i].cmd \in {"run", "v1"} =>
          InContext(cmds', next, i, owner'[cmds'[i].arg]) /\ owner'[cmds'[i].arg] # NoPath
  <2> SUFFICES ASSUME NEW i \in 1..(Len(cmds) - 1), cmds'[i].cmd \in {"run", "v1"}
               PROVE  InContext(cmds', next, i, owner[cmds'[i].arg])
                      /\ owner[cmds'[i].arg] # NoPath
    BY <1>1
  <2>1. i \in 1..Len(cmds) /\ i + 1 \in DOMAIN cmds /\ cmds'[i] = cmds[i + 1]
    BY <1>1
  <2>2. InContext(cmds, cur, i + 1, owner[cmds[i + 1].arg])
        /\ owner[cmds[i + 1].arg] # NoPath
    BY <2>1, <1>0 DEF QueueFits, cur
  <2>. QED
    BY <2>1, <2>2, <1>3
<1>. QED
  BY <1>4, <1>5 DEF QueueFits, next

LEMMA QueueGrows ==
  ASSUME BridgeInv, NEW c \in Command, cmds' = Append(cmds, c),
         UNCHANGED <<bridge, loading, path, task, saver>>,
         \A r \in Runs : owner[r] # NoPath => owner'[r] = owner[r],
         open' = IF c.cmd = "load" THEN c.arg ELSE open,
         c.cmd \in {"run", "v1"} => owner'[c.arg] = open /\ open # NoPath
  PROVE  QueueFits'
<1>0. TypeOK /\ QueueFits /\ cmds \in Seq(Command)
  BY DEF BridgeInv, TypeOK
<1>1. Current' = Current
  BY DEF Current, Loading
<1>2. /\ Len(cmds') = Len(cmds) + 1 /\ Len(cmds) \in Nat
      /\ DOMAIN cmds = 1..Len(cmds) /\ DOMAIN cmds' = 1..(Len(cmds) + 1)
      /\ \A i \in 1..Len(cmds) : cmds'[i] = cmds[i]
      /\ cmds'[Len(cmds) + 1] = c
  BY <1>0
<1>3. /\ \A i \in 1..(Len(cmds) + 1) : \A w :
           InContext(cmds, Current, i, w) => InContext(cmds', Current', i, w)
      /\ c.cmd = "load" => InContext(cmds', Current', Len(cmds) + 2, c.arg)
      /\ c.cmd # "load" =>
           \A w : InContext(cmds, Current, Len(cmds) + 1, w) =>
                    InContext(cmds', Current', Len(cmds) + 2, w)
  BY <1>0, <1>1, ContextAppend
<1>4. InContext(cmds, Current, Len(cmds) + 1, open)
  BY <1>0 DEF QueueFits
<1>5. InContext(cmds', Current', Len(cmds') + 1, open')
  <2>1. Len(cmds') + 1 = Len(cmds) + 2
    BY <1>2
  <2>. QED
    BY <2>1, <1>3, <1>4
<1>6. ASSUME NEW i \in DOMAIN cmds', cmds'[i].cmd \in {"run", "v1"}
      PROVE  InContext(cmds', Current', i, owner'[cmds'[i].arg])
             /\ owner'[cmds'[i].arg] # NoPath
  <2>1. CASE i = Len(cmds) + 1
    BY <2>1, <1>2, <1>3, <1>4, <1>6
  <2>2. CASE i \in 1..Len(cmds)
    <3>1. cmds'[i] = cmds[i] /\ i \in DOMAIN cmds /\ i \in 1..(Len(cmds) + 1)
      BY <2>2, <1>2
    <3>2. cmds[i].arg \in Runs
      BY <3>1, <1>0, <1>6 DEF Command
    <3>3. InContext(cmds, Current, i, owner[cmds[i].arg]) /\ owner[cmds[i].arg] # NoPath
      BY <3>1, <1>0, <1>6 DEF QueueFits
    <3>4. owner'[cmds[i].arg] = owner[cmds[i].arg]
      BY <3>2, <3>3
    <3>. QED
      BY <3>1, <3>3, <3>4, <1>3
  <2>. QED
    BY <2>1, <2>2, <1>2
<1>7. \A r \in Runs : UnderWay(r)' => owner'[r] # NoPath
  BY <1>0 DEF QueueFits, UnderWay, Saving
<1>. QED
  BY <1>5, <1>6, <1>7 DEF QueueFits

LEMMA QueueStays ==
  ASSUME BridgeInv, UNCHANGED <<cmds, open, owner>>, Current' = Current,
         \A r \in Runs : UnderWay(r)' => UnderWay(r)
  PROVE  QueueFits'
  BY DEF BridgeInv, QueueFits

-----------------------------------------------------------------------------
LEMMA InitInv == Init => BridgeInv
<1> SUFFICES ASSUME Init PROVE BridgeInv
  OBVIOUS
<1> USE CookieAssumption
<1>0. Idle \in [at : {"idle", "path", "json", "write"},
                path : Workspaces \cup {NoPath}, json : SUBSET Workspaces]
      /\ Idle.at = "idle"
  BY DEF Idle
<1>1. \A a \in Agents : saver[a].at = "idle" /\ ~Saving(a)
  BY <1>0 DEF Init, Saving
<1>2. \A r \in Runs : ~UnderWay(r)
  BY <1>1, Agency DEF Init, UnderWay
<1>3. bridge = "recv" /\ path = NoPath /\ ~Loading /\ Current = NoPath
  BY DEF Init, Loading, Current
<1>4. TypeOK
  <2>1. cmds \in Seq(Command)
    <3>1. CASE cmds = <<>>
      BY <3>1
    <3>2. CASE open \in Workspaces /\ cmds = <<[cmd |-> "load", arg |-> open]>>
      BY <3>2 DEF Command
    <3>. QED
      BY <3>1, <3>2 DEF Init
  <2>2. straddled \in BOOLEAN /\ raced \in BOOLEAN /\ unsaved \in BOOLEAN
    BY DEF Init
  <2>. QED
    BY <1>0, <1>1, <2>1, <2>2 DEF Init, TypeOK
<1>5. QueueFits
  <2>1. CASE open = NoPath /\ cmds = <<>>
    BY <2>1, <1>2, <1>3 DEF QueueFits, InContext, NoLoad
  <2>2. CASE open \in Workspaces /\ cmds = <<[cmd |-> "load", arg |-> open]>>
    <3>1. Len(cmds) = 1 /\ DOMAIN cmds = {1} /\ cmds[1].cmd = "load" /\ cmds[1].arg = open
      BY <2>2
    <3>2. InContext(cmds, Current, 2, open)
      BY <3>1 DEF InContext, NoLoad
    <3>. QED
      BY <3>1, <3>2, <1>2 DEF QueueFits
  <2>. QED
    BY <2>1, <2>2 DEF Init
<1>6. LoadTyped /\ MainSave /\ OneSave
  BY <1>1, <1>3, Agency DEF LoadTyped, MainSave, OneSave
<1>7. OwnWorld
  BY <1>1, <1>2, <1>3, Agency DEF Init, OwnWorld
<1>8. SaveDue
  BY <1>1, <1>3 DEF SaveDue
<1>. QED
  BY <1>4, <1>5, <1>6, <1>7, <1>8 DEF BridgeInv

(* What the user does only adds to the channel; a run gets its workspace
   before it is under way. *)
LEMMA IssueKeeps ==
  ASSUME BridgeInv, NEW c \in Command, Issue(c),
         owner' \in [Runs -> Workspaces \cup {NoPath}],
         kind' \in [Runs -> {"run", "v1"}],
         \A r \in Runs : owner[r] # NoPath => owner'[r] = owner[r] /\ kind'[r] = kind[r],
         open' = IF c.cmd = "load" THEN c.arg ELSE open,
         c.cmd \in {"run", "v1"} => owner'[c.arg] = open /\ open # NoPath
  PROVE  BridgeInv'
<1>0. TypeOK /\ cmds' = Append(cmds, c) /\ issued' = issued + 1 /\ issued < MaxCommands
      /\ UNCHANGED <<bridge, loading, path, jar, files, task, saver, history>>
  BY DEF BridgeInv, Issue
<1>1. QueueFits'
  BY <1>0, QueueGrows
<1>2. TypeOK'
  <2>1. cmds' \in Seq(Command) /\ issued' \in 0..MaxCommands
    BY <1>0, CookieAssumption DEF TypeOK
  <2>2. open' \in Workspaces \cup {NoPath}
    BY <1>0 DEF TypeOK, Command
  <2>3. straddled' \in BOOLEAN /\ raced' \in BOOLEAN /\ unsaved' \in BOOLEAN
    BY <1>0, Zenon DEF TypeOK, history
  <2>. QED
    BY <1>0, <2>1, <2>2, <2>3 DEF TypeOK
<1>3. \A r \in Runs : UnderWay(r) => owner'[r] = owner[r] /\ kind'[r] = kind[r]
  BY DEF BridgeInv, QueueFits
<1>4. LoadTyped' /\ MainSave' /\ OneSave'
  BY <1>0 DEF BridgeInv, LoadTyped, MainSave, OneSave, Loading, Saving, history
<1>5. OwnWorld'
  <2>1. \A r \in Runs : saver[r].at \in {"json", "write"} => UnderWay(r)
    BY DEF UnderWay, Saving
  <2>2. /\ \A r \in Runs : UnderWay(r)' <=> UnderWay(r)
        /\ Current' = Current /\ straddled' = straddled
    BY <1>0 DEF UnderWay, Saving, Current, Loading, history
  <2>. QED
    BY <1>0, <1>3, <2>1, <2>2 DEF BridgeInv, OwnWorld
<1>6. SaveDue'
  <2>1. RunGoing => RunGoing'
    BY <1>0, <1>3 DEF RunGoing, UnderWay
  <2>. QED
    BY <1>0, <2>1 DEF BridgeInv, SaveDue, Loading, Saving, history
<1>. QED
  BY <1>1, <1>2, <1>4, <1>5, <1>6 DEF BridgeInv

LEMMA UserKeeps ==
  ASSUME BridgeInv,
         \/ \E w \in Workspaces : SwitchWorkspace(w) \/ Remove(w)
         \/ \E r \in Runs, k \in {"run", "v1"} : SendRun(r, k)
         \/ ClearAll \/ Quit
  PROVE  BridgeInv'
<1>0. TypeOK /\ owner \in [Runs -> Workspaces \cup {NoPath}]
      /\ kind \in [Runs -> {"run", "v1"}]
  BY DEF BridgeInv, TypeOK
<1>1. ASSUME NEW w \in Workspaces, SwitchWorkspace(w) PROVE BridgeInv'
  <2> DEFINE c == [cmd |-> "load", arg |-> w]
  <2>1. c \in Command /\ c.cmd = "load" /\ c.arg = w
    BY DEF Command
  <2>2. Issue(c) /\ open' = w /\ UNCHANGED <<owner, kind>>
    BY <1>1 DEF SwitchWorkspace
  <2> HIDE DEF c
  <2>. QED
    BY <1>0, <2>1, <2>2, IssueKeeps
<1>2. ASSUME NEW w \in Workspaces, Remove(w) PROVE BridgeInv'
  <2> DEFINE c == [cmd |-> "remove", arg |-> w]
  <2>1. c \in Command /\ c.cmd = "remove"
    BY DEF Command
  <2>2. Issue(c) /\ UNCHANGED <<open, owner, kind>>
    BY <1>2 DEF Remove
  <2> HIDE DEF c
  <2>. QED
    BY <1>0, <2>1, <2>2, IssueKeeps
<1>3. ASSUME NEW r \in Runs, NEW k \in {"run", "v1"}, SendRun(r, k) PROVE BridgeInv'
  <2> DEFINE c == [cmd |-> k, arg |-> r]
  <2>1. c \in Command /\ c.cmd = k /\ c.arg = r
    BY DEF Command
  <2>2. Issue(c) /\ UNCHANGED open /\ open # NoPath /\ owner[r] = NoPath
        /\ owner' = [owner EXCEPT ![r] = open] /\ kind' = [kind EXCEPT ![r] = k]
    BY <1>3 DEF SendRun
  <2> HIDE DEF c
  <2>3. open \in Workspaces \cup {NoPath}
    BY <1>0 DEF TypeOK
  <2>4. /\ owner' \in [Runs -> Workspaces \cup {NoPath}] /\ owner'[r] = open
        /\ kind' \in [Runs -> {"run", "v1"}]
        /\ \A q \in Runs : owner[q] # NoPath => owner'[q] = owner[q] /\ kind'[q] = kind[q]
    BY <1>0, <2>2, <2>3
  <2>. QED
    BY <2>1, <2>2, <2>4, IssueKeeps
<1>4. CASE ClearAll \/ Quit
  <2>1. PICK k \in {"clear", "shutdown"} :
          Issue([cmd |-> k, arg |-> Main]) /\ UNCHANGED <<open, owner, kind>>
    BY <1>4 DEF ClearAll, Quit
  <2> DEFINE c == [cmd |-> k, arg |-> Main]
  <2>2. c \in Command /\ c.cmd = k
    BY DEF Command
  <2> HIDE DEF c
  <2>. QED
    BY <1>0, <2>1, <2>2, IssueKeeps DEF c
<1>. QED
  BY <1>1, <1>2, <1>3, <1>4

LEMMA RecvRunKeeps ==
  ASSUME BridgeInv, RecvRun
  PROVE  BridgeInv'
<1> DEFINE r == Head(cmds).arg
<1>0. TypeOK /\ bridge = "recv" /\ ~Saving(Main) /\ cmds # <<>>
      /\ Head(cmds).cmd \in {"run", "v1"} /\ cmds' = Tail(cmds)
      /\ task' = [task EXCEPT ![r] = "running"]
      /\ UNCHANGED <<open, issued, owner, kind, bridge, loading, path, jar, files,
                     saver, history>>
  BY DEF BridgeInv, RecvRun, Recv
<1>1. r \in Runs /\ Head(cmds) = cmds[1] /\ 1 \in DOMAIN cmds
      /\ Tail(cmds) \in Seq(Command)
  BY <1>0, HeadTyped
<1> HIDE DEF r
<1>2. /\ \A q \in Runs : task'[q] = IF q = r THEN "running" ELSE task[q]
      /\ task' \in [Runs -> {"none", "running", "over"}]
  BY <1>0, <1>1 DEF TypeOK
<1>3. owner[r] = path /\ owner[r] # NoPath /\ Current = path /\ ~Loading
  <2>1. InContext(cmds, Current, 1, owner[r]) /\ owner[r] # NoPath
    BY <1>0, <1>1 DEF BridgeInv, QueueFits, r
  <2>. QED
    BY <2>1, <1>0 DEF InContext, Current, Loading
<1>4. \A q \in Runs : UnderWay(q)' <=> q = r \/ UnderWay(q)
  BY <1>0, <1>2 DEF UnderWay, Saving
<1>5. QueueFits'
  <2>1. \A q \in Runs : UnderWay(q)' => owner[q] # NoPath
    BY <1>3, <1>4 DEF BridgeInv, QueueFits
  <2>2. Current' = IF cmds[1].cmd = "load" THEN cmds[1].arg ELSE Current
    BY <1>0, <1>1 DEF Current, Loading
  <2>. QED
    BY <1>0, <2>1, <2>2, QueueTaken
<1>6. TypeOK'
  <2>1. straddled' \in BOOLEAN /\ raced' \in BOOLEAN /\ unsaved' \in BOOLEAN
    BY <1>0, Zenon DEF TypeOK, history
  <2>. QED
    BY <1>0, <1>1, <1>2, <2>1 DEF TypeOK
<1>7. LoadTyped' /\ MainSave' /\ OneSave'
  BY <1>0 DEF BridgeInv, LoadTyped, MainSave, OneSave, Loading, Saving, history
<1>8. OwnWorld'
  <2>1. Current' = Current /\ straddled' = straddled
    BY <1>0 DEF Current, Loading, history
  <2>. QED
    BY <1>0, <1>3, <1>4, <2>1 DEF BridgeInv, OwnWorld
<1>9. SaveDue'
  <2>1. RunGoing => RunGoing'
    BY <1>0, <1>2 DEF RunGoing
  <2>. QED
    BY <1>0, <2>1 DEF BridgeInv, SaveDue, Loading, Saving, history
<1>. QED
  BY <1>5, <1>6, <1>7, <1>8, <1>9 DEF BridgeInv

LEMMA RecvLoadKeeps ==
  ASSUME BridgeInv, RecvLoad
  PROVE  BridgeInv'
<1> DEFINE w == Head(cmds).arg
<1>0. TypeOK /\ bridge = "recv" /\ ~Saving(Main) /\ cmds # <<>>
      /\ Head(cmds).cmd = "load" /\ cmds' = Tail(cmds)
      /\ loading' = w /\ bridge' = "restore" /\ jar' = {} /\ unsaved' = FALSE
      /\ straddled' = (straddled \/ \E r \in Runs : UnderWay(r) /\ owner[r] # loading')
      /\ raced' = (raced \/ \E a \in Agents : Saving(a))
      /\ UNCHANGED <<open, issued, owner, kind, path, files, task, saver>>
  BY DEF BridgeInv, RecvLoad, Recv
<1>1. w \in Workspaces /\ Head(cmds) = cmds[1] /\ Tail(cmds) \in Seq(Command)
  BY <1>0, HeadTyped
<1> HIDE DEF w
<1>2. Current' = w /\ Current = path /\ Loading'
  BY <1>0 DEF Current, Loading
<1>3. /\ \A r \in Runs : UnderWay(r)' <=> UnderWay(r)
      /\ \A a \in Agents : Saving(a)' <=> Saving(a)
  BY <1>0 DEF UnderWay, Saving
<1>4. QueueFits'
  <2>1. \A r \in Runs : UnderWay(r)' => owner[r] # NoPath
    BY <1>3 DEF BridgeInv, QueueFits
  <2>. QED
    BY <1>0, <1>1, <1>2, <2>1, QueueTaken DEF w
<1>5. TypeOK'
  <2>1. straddled' \in BOOLEAN /\ raced' \in BOOLEAN /\ unsaved' \in BOOLEAN
    BY <1>0, Zenon DEF TypeOK
  <2>. QED
    BY <1>0, <1>1, <2>1 DEF TypeOK
<1>6. LoadTyped' /\ MainSave' /\ OneSave'
  <2>1. ~Saving(Main)'
    BY <1>0 DEF Saving
  <2>2. ~raced' => ~raced /\ \A a \in Agents : ~Saving(a)'
    BY <1>0, <1>3
  <2>3. ~raced' => \A a \in Agents : saver'[a].at = "idle"
    BY <2>2 DEF Saving
  <2>. QED
    BY <1>0, <1>1, <2>1, <2>2, <2>3 DEF LoadTyped, MainSave, OneSave
<1>7. OwnWorld'
  <2> SUFFICES ASSUME ~straddled'
      PROVE  /\ \A v \in Workspaces : files'[v] \subseteq {v}
             /\ jar' \subseteq {Current'}
             /\ \A r \in Runs :
                  /\ UnderWay(r)' => owner'[r] = Current' /\ owner'[r] = path'
                  /\ saver'[r].at \in {"json", "write"} => saver'[r].path = owner'[r]
             /\ \A a \in Agents : saver'[a].at = "write" =>
                                    saver'[a].json \subseteq {saver'[a].path}
    BY DEF OwnWorld
  <2>1. ~straddled /\ \A r \in Runs : UnderWay(r) => owner[r] = w
    BY <1>0
  <2>2. OwnWorld
    BY DEF BridgeInv
  <2>. QED
    BY <1>0, <1>2, <1>3, <2>1, <2>2 DEF OwnWorld
<1>8. SaveDue'
  <2>1. ~raced' => \A a \in Agents : saver'[a].at # "write"
    BY <1>0 DEF Saving
  <2>. QED
    BY <1>0, <1>2, <2>1 DEF SaveDue
<1>. QED
  BY <1>4, <1>5, <1>6, <1>7, <1>8 DEF BridgeInv

(* The load's last two steps: the file is added to the emptied jar, then its
   path takes over. *)
LEMMA RestoreKeeps ==
  ASSUME BridgeInv, Restore
  PROVE  BridgeInv'
<1>0. TypeOK /\ bridge = "restore" /\ bridge' = "setpath"
      /\ jar' = jar \cup files[loading] /\ loading \in Workspaces
      /\ UNCHANGED <<open, cmds, issued, loading, path, files, task, owner, kind,
                     saver, history>>
  BY DEF BridgeInv, Restore, LoadTyped, Loading
<1>1. Loading /\ Loading' /\ Current = loading /\ Current' = Current
  BY <1>0 DEF Loading, Current
<1>2. /\ \A r \in Runs : UnderWay(r)' <=> UnderWay(r)
      /\ \A a \in Agents : Saving(a)' <=> Saving(a)
      /\ RunGoing' <=> RunGoing
  BY <1>0 DEF UnderWay, Saving, RunGoing
<1>3. QueueFits'
  BY <1>0, <1>1, <1>2, QueueStays
<1>4. TypeOK'
  <2>1. straddled' \in BOOLEAN /\ raced' \in BOOLEAN /\ unsaved' \in BOOLEAN
    BY <1>0, Zenon DEF TypeOK, history
  <2>. QED
    BY <1>0, <2>1 DEF TypeOK
<1>5. LoadTyped' /\ MainSave' /\ OneSave'
  BY <1>0, <1>1, <1>2, Agency DEF BridgeInv, LoadTyped, MainSave, OneSave, history
<1>6. OwnWorld'
  BY <1>0, <1>1, <1>2 DEF BridgeInv, OwnWorld, history
<1>7. SaveDue'
  <2>1. ~raced' /\ ~unsaved' => /\ jar = {} \/ RunGoing
                                /\ \A a \in Agents : saver'[a].at # "write"
    BY <1>0, <1>1 DEF BridgeInv, SaveDue, OneSave, Saving, history
  <2>. QED
    BY <1>0, <1>1, <1>2, <2>1 DEF SaveDue
<1>. QED
  BY <1>3, <1>4, <1>5, <1>6, <1>7 DEF BridgeInv

LEMMA SetPathKeeps ==
  ASSUME BridgeInv, SetPath
  PROVE  BridgeInv'
<1>0. TypeOK /\ bridge = "setpath" /\ bridge' = "recv" /\ path' = loading
      /\ loading \in Workspaces
      /\ UNCHANGED <<open, cmds, issued, loading, jar, files, task, owner, kind,
                     saver, history>>
  BY DEF BridgeInv, SetPath, LoadTyped, Loading
<1>1. Loading /\ ~Loading' /\ Current = loading /\ Current' = loading
  BY <1>0 DEF Loading, Current
<1>2. /\ \A r \in Runs : UnderWay(r)' <=> UnderWay(r)
      /\ \A a \in Agents : Saving(a)' <=> Saving(a)
      /\ RunGoing' <=> RunGoing
  BY <1>0 DEF UnderWay, Saving, RunGoing
<1>3. QueueFits'
  BY <1>0, <1>1, <1>2, QueueStays
<1>4. TypeOK'
  <2>1. straddled' \in BOOLEAN /\ raced' \in BOOLEAN /\ unsaved' \in BOOLEAN
    BY <1>0, Zenon DEF TypeOK, history
  <2>. QED
    BY <1>0, <2>1 DEF TypeOK
<1>5. ~raced' => \A a \in Agents : ~Saving(a) /\ saver'[a].at = "idle"
  BY <1>0, <1>1 DEF BridgeInv, OneSave, Saving, history
<1>6. LoadTyped' /\ MainSave' /\ OneSave'
  <2>1. ~Saving(Main)'
    BY <1>1, <1>2, Agency DEF BridgeInv, MainSave
  <2>. QED
    BY <1>1, <1>2, <1>5, <2>1 DEF LoadTyped, MainSave, OneSave
<1>7. OwnWorld'
  BY <1>0, <1>1, <1>2 DEF BridgeInv, OwnWorld, history
<1>8. SaveDue'
  <2>1. ~raced' /\ ~unsaved' => jar = files[loading] \/ RunGoing
    BY <1>0 DEF BridgeInv, SaveDue, history
  <2>. QED
    BY <1>0, <1>1, <1>2, <1>5, <2>1 DEF SaveDue
<1>. QED
  BY <1>3, <1>4, <1>6, <1>7, <1>8 DEF BridgeInv

(* The bridge's own saves: nobody else is in one, or it is a race. *)
LEMMA MainSaveBegins ==
  ASSUME BridgeInv, NEW c \in {"clear", "remove", "shutdown"}, Recv(c), BeginSave(Main),
         bridge' \in {"recv", "stopping"}, jar' \subseteq jar,
         UNCHANGED <<loading, path, files, task, straddled, unsaved>>
  PROVE  BridgeInv'
<1>0. TypeOK /\ bridge = "recv" /\ ~Saving(Main) /\ cmds # <<>>
      /\ Head(cmds).cmd = c /\ cmds' = Tail(cmds)
      /\ UNCHANGED <<open, issued, owner, kind>>
  BY DEF BridgeInv, Recv
<1>1. Head(cmds) = cmds[1] /\ Tail(cmds) \in Seq(Command)
  BY <1>0, HeadTyped
<1>2. ~Loading /\ ~Loading' /\ Current = path /\ Current' = path
  BY <1>0 DEF Loading, Current
<1>3. /\ saver' \in [Agents -> [at : {"idle", "path", "json", "write"},
                                path : Workspaces \cup {NoPath},
                                json : SUBSET Workspaces]]
      /\ saver'[Main].at = "path" /\ \A b \in Agents : b # Main => saver'[b] = saver[b]
      /\ raced' \in BOOLEAN
      /\ ~raced' => ~raced /\ \A b \in Agents : b # Main => ~Saving(b)
  BY <1>0, Agency, BeginSaveTyped
<1>4. \A r \in Runs : saver'[r] = saver[r] /\ (UnderWay(r)' <=> UnderWay(r))
  BY <1>0, <1>3, Agency DEF UnderWay, Saving
<1>5. QueueFits'
  <2>1. \A r \in Runs : UnderWay(r)' => owner[r] # NoPath
    BY <1>4 DEF BridgeInv, QueueFits
  <2>2. Current' = IF cmds[1].cmd = "load" THEN cmds[1].arg ELSE Current
    BY <1>0, <1>1, <1>2
  <2>. QED
    BY <1>0, <2>1, <2>2, QueueTaken
<1>6. TypeOK'
  <2>1. straddled' \in BOOLEAN /\ unsaved' \in BOOLEAN
    BY <1>0, Zenon DEF TypeOK
  <2>2. \A a \in Agents : saver'[a].at \in {"json", "write"} => saver'[a].path \in Workspaces
    BY <1>0, <1>3 DEF TypeOK
  <2>. QED
    BY <1>0, <1>1, <1>3, <2>1, <2>2 DEF TypeOK
<1>7. LoadTyped' /\ MainSave'
  BY <1>2, <1>3 DEF LoadTyped, MainSave
<1>8. OneSave' /\ \A a \in Agents : ~raced' => saver'[a].at # "write"
  <2>1. ~raced' => \A b \in Agents : b # Main => ~Saving(b)' /\ saver'[b].at = "idle"
    BY <1>3 DEF Saving
  <2>. QED
    BY <1>2, <1>3, <2>1 DEF OneSave
<1>9. OwnWorld'
  BY <1>0, <1>2, <1>3, <1>4, Agency DEF BridgeInv, OwnWorld
<1>10. SaveDue'
  <2>1. Saving(Main)' /\ Main \in Agents
    BY <1>3, Agency DEF Saving
  <2>2. bridge' # "restore" /\ bridge' # "setpath"
    OBVIOUS
  <2>. QED
    BY <1>8, <2>1, <2>2 DEF SaveDue
<1>. QED
  BY <1>5, <1>6, <1>7, <1>8, <1>9, <1>10 DEF BridgeInv

LEMMA RecvClearKeeps ==
  ASSUME BridgeInv, RecvClear
  PROVE  BridgeInv'
<1>1. PICK c \in {"clear", "remove"} : Recv(c)
  BY DEF RecvClear
<1>2. bridge' = "recv" /\ jar' \subseteq jar
  BY DEF RecvClear, Recv
<1>. QED
  BY <1>1, <1>2, MainSaveBegins DEF RecvClear

LEMMA RecvShutdownKeeps ==
  ASSUME BridgeInv, RecvShutdown
  PROVE  BridgeInv'
  BY MainSaveBegins DEF RecvShutdown

LEMMA StopKeeps ==
  ASSUME BridgeInv, Stop
  PROVE  BridgeInv'
<1>0. TypeOK /\ bridge = "stopping" /\ bridge' = "stopped"
      /\ UNCHANGED <<open, cmds, issued, loading, path, jar, files, task, owner,
                     kind, saver, history>>
  BY DEF BridgeInv, Stop
<1>1. ~Loading /\ ~Loading' /\ Current' = Current
  BY <1>0 DEF Loading, Current
<1>2. /\ \A r \in Runs : UnderWay(r)' <=> UnderWay(r)
      /\ \A a \in Agents : Saving(a)' <=> Saving(a)
      /\ RunGoing' <=> RunGoing
  BY <1>0 DEF UnderWay, Saving, RunGoing
<1>3. QueueFits'
  BY <1>0, <1>1, <1>2, QueueStays
<1>4. TypeOK'
  <2>1. straddled' \in BOOLEAN /\ raced' \in BOOLEAN /\ unsaved' \in BOOLEAN
    BY <1>0, Zenon DEF TypeOK, history
  <2>. QED
    BY <1>0, <2>1 DEF TypeOK
<1>5. LoadTyped' /\ MainSave' /\ OneSave'
  BY <1>0, <1>1, <1>2, Agency DEF BridgeInv, LoadTyped, MainSave, OneSave, history
<1>6. OwnWorld'
  BY <1>0, <1>1, <1>2 DEF BridgeInv, OwnWorld, history
<1>7. SaveDue'
  BY <1>0, <1>1, <1>2 DEF BridgeInv, SaveDue, history
<1>. QED
  BY <1>3, <1>4, <1>5, <1>6, <1>7 DEF BridgeInv

-----------------------------------------------------------------------------
(* Runs and saves leave the channel, the load and the user alone. *)
Quiet == UNCHANGED <<open, cmds, issued, bridge, loading, path, owner, kind, straddled>>

LEMMA QuietKeeps ==
  ASSUME BridgeInv, Quiet, \A r \in Runs : UnderWay(r)' => UnderWay(r)
  PROVE  QueueFits' /\ LoadTyped' /\ Current' = Current /\ (Loading' <=> Loading)
<1>1. Current' = Current /\ (Loading' <=> Loading)
  BY DEF Quiet, Current, Loading
<1>2. QueueFits'
  BY <1>1, QueueStays DEF Quiet
<1>. QED
  BY <1>1, <1>2 DEF Quiet, BridgeInv, LoadTyped

LEMMA RespondKeeps ==
  ASSUME BridgeInv, NEW r \in Runs, Respond(r)
  PROVE  BridgeInv'
<1>0. TypeOK /\ Quiet /\ task[r] = "running" /\ jar' = jar \cup {owner[r]}
      /\ unsaved' = (unsaved \/ kind[r] = "v1")
      /\ UNCHANGED <<files, task, saver, raced>>
  BY DEF BridgeInv, Respond, Quiet
<1>1. UnderWay(r) /\ owner[r] \in Workspaces
  BY <1>0 DEF BridgeInv, TypeOK, QueueFits, UnderWay
<1>2. /\ \A q \in Runs : UnderWay(q)' <=> UnderWay(q)
      /\ \A a \in Agents : Saving(a)' <=> Saving(a)
      /\ RunGoing' <=> RunGoing
  BY <1>0 DEF UnderWay, Saving, RunGoing, Quiet
<1>3. QueueFits' /\ LoadTyped' /\ Current' = Current /\ (Loading' <=> Loading)
  BY <1>0, <1>2, QuietKeeps
<1>4. TypeOK'
  <2>1. straddled' \in BOOLEAN /\ raced' \in BOOLEAN
    BY <1>0, Zenon DEF TypeOK, Quiet
  <2>2. unsaved' \in BOOLEAN
    BY <1>0 DEF TypeOK
  <2>. QED
    BY <1>0, <1>1, <2>1, <2>2 DEF TypeOK, Quiet
<1>5. MainSave' /\ OneSave'
  BY <1>0, <1>2, <1>3, Agency DEF BridgeInv, MainSave, OneSave, Quiet
<1>6. OwnWorld'
  BY <1>0, <1>1, <1>2, <1>3 DEF BridgeInv, OwnWorld, Quiet
<1>7. SaveDue'
  <2>1. ~unsaved' => RunGoing'
    <3>1. kind[r] \in {"run", "v1"}
      BY DEF BridgeInv, TypeOK
    <3>. QED
      BY <1>0, <3>1 DEF RunGoing, Quiet
  <2>. QED
    BY <2>1 DEF SaveDue
<1>. QED
  BY <1>3, <1>4, <1>5, <1>6, <1>7 DEF BridgeInv

LEMMA EndV1Keeps ==
  ASSUME BridgeInv, NEW r \in Runs, EndV1(r)
  PROVE  BridgeInv'
<1>0. TypeOK /\ Quiet /\ task[r] = "running" /\ kind[r] = "v1"
      /\ task' = [task EXCEPT ![r] = "over"]
      /\ UNCHANGED <<jar, files, saver, raced, unsaved>>
  BY DEF BridgeInv, EndV1, Quiet, history
<1>1. /\ \A q \in Runs : task'[q] = IF q = r THEN "over" ELSE task[q]
      /\ task' \in [Runs -> {"none", "running", "over"}]
  BY <1>0 DEF TypeOK
<1>2. /\ \A q \in Runs : UnderWay(q)' => UnderWay(q)
      /\ \A a \in Agents : Saving(a)' <=> Saving(a)
      /\ RunGoing => RunGoing'
  BY <1>0, <1>1 DEF UnderWay, Saving, RunGoing, Quiet
<1>3. QueueFits' /\ LoadTyped' /\ Current' = Current /\ (Loading' <=> Loading)
  BY <1>0, <1>2, QuietKeeps
<1>4. TypeOK'
  <2>1. straddled' \in BOOLEAN /\ raced' \in BOOLEAN /\ unsaved' \in BOOLEAN
    BY <1>0, Zenon DEF TypeOK, Quiet
  <2>. QED
    BY <1>0, <1>1, <2>1 DEF TypeOK, Quiet
<1>5. MainSave' /\ OneSave'
  BY <1>0, <1>2, <1>3, Agency DEF BridgeInv, MainSave, OneSave, Quiet
<1>6. OwnWorld'
  BY <1>0, <1>2, <1>3 DEF BridgeInv, OwnWorld, Quiet
<1>7. SaveDue'
  BY <1>0, <1>2, <1>3 DEF BridgeInv, SaveDue, Quiet
<1>. QED
  BY <1>3, <1>4, <1>5, <1>6, <1>7 DEF BridgeInv

(* A run that ends hands over to its save. *)
LEMMA EndRunKeeps ==
  ASSUME BridgeInv, NEW r \in Runs, EndRun(r)
  PROVE  BridgeInv'
<1>0. TypeOK /\ Quiet /\ task[r] = "running"
      /\ task' = [task EXCEPT ![r] = "over"] /\ BeginSave(r)
      /\ UNCHANGED <<jar, files, unsaved>> /\ r \in Agents /\ r # Main
  BY Agency DEF BridgeInv, EndRun, Quiet
<1>1. /\ \A q \in Runs : task'[q] = IF q = r THEN "over" ELSE task[q]
      /\ task' \in [Runs -> {"none", "running", "over"}]
  BY <1>0 DEF TypeOK
<1>2. /\ saver' \in [Agents -> [at : {"idle", "path", "json", "write"},
                                path : Workspaces \cup {NoPath},
                                json : SUBSET Workspaces]]
      /\ saver'[r].at = "path" /\ \A b \in Agents : b # r => saver'[b] = saver[b]
      /\ raced' \in BOOLEAN
      /\ ~raced' => ~raced /\ ~Loading /\ \A b \in Agents : b # r => ~Saving(b)
  BY <1>0, BeginSaveTyped
<1>3. \A q \in Runs : UnderWay(q)' => UnderWay(q)
  BY <1>0, <1>1, <1>2, Agency DEF UnderWay, Saving
<1>4. QueueFits' /\ LoadTyped' /\ Current' = Current /\ (Loading' <=> Loading)
  BY <1>0, <1>3, QuietKeeps
<1>5. TypeOK'
  <2>1. straddled' \in BOOLEAN /\ unsaved' \in BOOLEAN
    BY <1>0, Zenon DEF TypeOK, Quiet
  <2>2. \A a \in Agents : saver'[a].at \in {"json", "write"} => saver'[a].path \in Workspaces
    BY <1>0, <1>2 DEF TypeOK
  <2>. QED
    BY <1>0, <1>1, <1>2, <2>1, <2>2 DEF TypeOK, Quiet
<1>6. MainSave'
  BY <1>0, <1>2, <1>4, Agency DEF BridgeInv, MainSave, Quiet, Saving
<1>7. OneSave' /\ \A a \in Agents : ~raced' => saver'[a].at # "write"
  <2>1. ~raced' => \A b \in Agents : b # r => ~Saving(b)' /\ saver'[b].at = "idle"
    BY <1>2 DEF Saving
  <2>. QED
    BY <1>2, <1>4, <2>1 DEF OneSave
<1>8. OwnWorld'
  <2>1. \A a \in Agents : saver'[a].at \in {"json", "write"} =>
          saver'[a] = saver[a]
    BY <1>2
  <2>. QED
    BY <1>0, <1>3, <1>4, <2>1, Agency DEF BridgeInv, OwnWorld, Quiet
<1>9. SaveDue'
  <2>1. Saving(r)'
    BY <1>2 DEF Saving
  <2>2. ~raced' => ~Loading'
    BY <1>2, <1>4
  <2>. QED
    BY <1>0, <1>7, <2>1, <2>2 DEF SaveDue, Loading
<1>. QED
  BY <1>4, <1>5, <1>6, <1>7, <1>8, <1>9 DEF BridgeInv

-----------------------------------------------------------------------------
(* The three steps of save_cookies. *)
LEMMA SaveReadsPathKeeps ==
  ASSUME BridgeInv, NEW a \in Agents, SaveReadsPath(a)
  PROVE  BridgeInv'
<1> DEFINE s == IF path = NoPath THEN Idle ELSE [at |-> "json", path |-> path, json |-> {}]
<1>0. TypeOK /\ Quiet /\ saver[a].at = "path" /\ saver' = [saver EXCEPT ![a] = s]
      /\ UNCHANGED <<jar, files, task, raced, unsaved>>
  BY DEF BridgeInv, SaveReadsPath, Quiet, history
<1>1. /\ s \in [at : {"idle", "path", "json", "write"},
                path : Workspaces \cup {NoPath}, json : SUBSET Workspaces]
      /\ path = NoPath => s.at = "idle"
      /\ path # NoPath => s.at = "json" /\ s.path = path /\ path \in Workspaces
  BY <1>0 DEF TypeOK, Idle
<1> HIDE DEF s
<1>2. /\ saver' \in [Agents -> [at : {"idle", "path", "json", "write"},
                                path : Workspaces \cup {NoPath},
                                json : SUBSET Workspaces]]
      /\ saver'[a] = s /\ \A b \in Agents : b # a => saver'[b] = saver[b]
  BY <1>0, <1>1 DEF TypeOK
<1>3. /\ \A b \in Agents : Saving(b)' => Saving(b)
      /\ \A q \in Runs : UnderWay(q)' => UnderWay(q)
      /\ RunGoing' <=> RunGoing
  <2>1. \A b \in Agents : Saving(b)' => Saving(b)
    BY <1>0, <1>2 DEF Saving
  <2>. QED
    BY <1>0, <2>1, Agency DEF UnderWay, RunGoing, Quiet
<1>4. QueueFits' /\ LoadTyped' /\ Current' = Current /\ (Loading' <=> Loading)
  BY <1>0, <1>3, QuietKeeps
<1>5. TypeOK'
  <2>1. straddled' \in BOOLEAN /\ raced' \in BOOLEAN /\ unsaved' \in BOOLEAN
    BY <1>0, Zenon DEF TypeOK, Quiet
  <2>2. \A b \in Agents : saver'[b].at \in {"json", "write"} => saver'[b].path \in Workspaces
    BY <1>0, <1>1, <1>2 DEF TypeOK
  <2>. QED
    BY <1>0, <1>2, <2>1, <2>2 DEF TypeOK, Quiet
<1>6. \A b \in Agents : saver'[b].at \in {"json", "write"} =>
        \/ b = a /\ saver'[b].at = "json" /\ saver'[b].path = path /\ UnderWay(b)
        \/ saver'[b] = saver[b]
  BY <1>0, <1>1, <1>2 DEF UnderWay, Saving
<1>7. MainSave'
  BY <1>0, <1>3, <1>4, <1>6, Agency DEF BridgeInv, MainSave, Quiet
<1>8. OneSave'
  BY <1>0, <1>3, <1>4, <1>6 DEF BridgeInv, OneSave, Quiet
<1>9. OwnWorld'
  BY <1>0, <1>3, <1>4, <1>6, Agency DEF BridgeInv, OwnWorld, Quiet
<1>10. SaveDue'
  <2>1. path # NoPath => Saving(a)'
    BY <1>1, <1>2 DEF Saving
  <2>2. \A b \in Agents : saver'[b].at = "write" => saver'[b] = saver[b]
    BY <1>6
  <2>. QED
    BY <1>0, <1>3, <1>4, <2>1, <2>2 DEF BridgeInv, SaveDue, Quiet
<1>. QED
  BY <1>4, <1>5, <1>7, <1>8, <1>9, <1>10 DEF BridgeInv

LEMMA SaveReadsJarKeeps ==
  ASSUME BridgeInv, NEW a \in Agents, SaveReadsJar(a)
  PROVE  BridgeInv'
<1>0. TypeOK /\ Quiet /\ saver[a].at = "json"
      /\ saver' = [saver EXCEPT ![a] = [@ EXCEPT !.at = "write", !.json = jar]]
      /\ unsaved' = (unsaved /\ saver[a].path # path)
      /\ UNCHANGED <<jar, files, task, raced>>
  BY DEF BridgeInv, SaveReadsJar, Quiet
<1>2. /\ saver' \in [Agents -> [at : {"idle", "path", "json", "write"},
                                path : Workspaces \cup {NoPath},
                                json : SUBSET Workspaces]]
      /\ saver'[a].at = "write" /\ saver'[a].path = saver[a].path /\ saver'[a].json = jar
      /\ \A b \in Agents : b # a => saver'[b] = saver[b]
  BY <1>0 DEF TypeOK
<1>3. /\ \A b \in Agents : Saving(b)' <=> Saving(b)
      /\ \A q \in Runs : UnderWay(q)' <=> UnderWay(q)
      /\ RunGoing' <=> RunGoing
  <2>1. \A b \in Agents : Saving(b)' <=> Saving(b)
    BY <1>0, <1>2 DEF Saving
  <2>. QED
    BY <1>0, <2>1, Agency DEF UnderWay, RunGoing, Quiet
<1>4. QueueFits' /\ LoadTyped' /\ Current' = Current /\ (Loading' <=> Loading)
  BY <1>0, <1>3, QuietKeeps
<1>5. TypeOK'
  <2>1. straddled' \in BOOLEAN /\ raced' \in BOOLEAN
    BY <1>0, Zenon DEF TypeOK, Quiet
  <2>2. unsaved' \in BOOLEAN
    BY <1>0 DEF TypeOK
  <2>3. \A b \in Agents : saver'[b].at \in {"json", "write"} => saver'[b].path \in Workspaces
    BY <1>0, <1>2 DEF TypeOK
  <2>. QED
    BY <1>0, <1>2, <2>1, <2>2, <2>3 DEF TypeOK, Quiet
<1>6. \A b \in Agents : saver'[b].at \in {"json", "write"} =>
        saver[b].at \in {"json", "write"} /\ saver'[b].path = saver[b].path
  BY <1>0, <1>2
<1>7. MainSave'
  BY <1>0, <1>3, <1>4, <1>6, Agency DEF BridgeInv, MainSave, Quiet
<1>8. OneSave'
  BY <1>0, <1>3, <1>4, <1>6 DEF BridgeInv, OneSave, Quiet
<1>9. OwnWorld'
  <2>1. ~straddled => Current = saver[a].path
    <3>1. CASE a \in Runs
      BY <3>1, <1>0 DEF BridgeInv, OwnWorld, UnderWay, Saving
    <3>2. CASE a = Main
      BY <3>2, <1>0 DEF BridgeInv, MainSave, Saving, Current
    <3>. QED
      BY <3>1, <3>2, Agency
  <2>2. ~straddled => jar \subseteq {Current}
    BY DEF BridgeInv, OwnWorld
  <2>. QED
    BY <1>0, <1>2, <1>3, <1>4, <1>6, <2>1, <2>2, Agency DEF BridgeInv, OwnWorld, Quiet
<1>10. SaveDue'
  <2>1. Saving(a)' /\ Saving(a)
    BY <1>0, <1>2 DEF Saving
  <2>2. ~raced => ~Loading /\ \A b \in Agents : saver'[b].at = "write" => b = a
    BY <1>3, <2>1 DEF BridgeInv, OneSave, Saving
  <2>. QED
    BY <1>0, <1>2, <1>4, <2>1, <2>2 DEF SaveDue, Loading
<1>. QED
  BY <1>4, <1>5, <1>7, <1>8, <1>9, <1>10 DEF BridgeInv

LEMMA SaveWritesKeeps ==
  ASSUME BridgeInv, NEW a \in Agents, SaveWrites(a)
  PROVE  BridgeInv'
<1> DEFINE w == saver[a].path
<1>0. TypeOK /\ Quiet /\ saver[a].at = "write" /\ w \in Workspaces
      /\ files' = [files EXCEPT ![w] = saver[a].json]
      /\ saver' = [saver EXCEPT ![a] = Idle] /\ saver[a].json \in SUBSET Workspaces
      /\ UNCHANGED <<jar, task, raced, unsaved>>
  BY SaverTyped DEF BridgeInv, SaveWrites, Quiet, history, TypeOK
<1>1. /\ files' \in [Workspaces -> SUBSET Workspaces] /\ files'[w] = saver[a].json
      /\ \A v \in Workspaces : v # w => files'[v] = files[v]
  BY <1>0 DEF TypeOK
<1>2. /\ saver' \in [Agents -> [at : {"idle", "path", "json", "write"},
                                path : Workspaces \cup {NoPath},
                                json : SUBSET Workspaces]]
      /\ saver'[a].at = "idle"
      /\ \A b \in Agents : b # a => saver'[b] = saver[b]
  BY <1>0 DEF TypeOK, Idle
<1>3. /\ \A b \in Agents : Saving(b)' <=> b # a /\ Saving(b)
      /\ \A q \in Runs : UnderWay(q)' => UnderWay(q)
      /\ RunGoing' <=> RunGoing
  <2>1. \A b \in Agents : Saving(b)' <=> b # a /\ Saving(b)
    BY <1>0, <1>2 DEF Saving
  <2>. QED
    BY <1>0, <2>1, Agency DEF UnderWay, RunGoing, Quiet
<1>4. QueueFits' /\ LoadTyped' /\ Current' = Current /\ (Loading' <=> Loading)
  BY <1>0, <1>3, QuietKeeps
<1>5. TypeOK'
  <2>1. straddled' \in BOOLEAN /\ raced' \in BOOLEAN /\ unsaved' \in BOOLEAN
    BY <1>0, Zenon DEF TypeOK, Quiet
  <2>2. \A b \in Agents : saver'[b].at \in {"json", "write"} => saver'[b].path \in Workspaces
    BY <1>0, <1>2 DEF TypeOK
  <2>. QED
    BY <1>0, <1>1, <1>2, <2>1, <2>2 DEF TypeOK, Quiet
<1>6. \A b \in Agents : saver'[b].at \in {"json", "write"} => saver'[b] = saver[b]
  BY <1>2
<1>7. MainSave' /\ OneSave'
  BY <1>0, <1>3, <1>4, <1>6, Agency DEF BridgeInv, MainSave, OneSave, Quiet
<1>8. OwnWorld'
  <2>1. ~straddled => \A v \in Workspaces : files'[v] \subseteq {v}
    BY <1>0, <1>1 DEF BridgeInv, OwnWorld
  <2>. QED
    BY <1>0, <1>3, <1>4, <1>6, <2>1, Agency DEF BridgeInv, OwnWorld, Quiet
<1>9. SaveDue'
  <2>1. ~raced => ~Loading /\ w = path /\ \A b \in Agents : saver'[b].at = "idle"
    BY <1>0, <1>2 DEF BridgeInv, OneSave, Saving
  <2>2. ~raced /\ ~unsaved => saver[a].json = jar \/ RunGoing
    BY <1>0 DEF BridgeInv, SaveDue
  <2>. QED
    BY <1>0, <1>1, <1>3, <1>4, <2>1, <2>2 DEF SaveDue, Quiet, Loading
<1>. QED
  BY <1>4, <1>5, <1>7, <1>8, <1>9 DEF BridgeInv

-----------------------------------------------------------------------------
LEMMA StutterKeeps ==
  ASSUME BridgeInv, UNCHANGED vars
  PROVE  BridgeInv'
<1>0. Quiet /\ UNCHANGED <<jar, files, task, saver, raced, unsaved>>
  BY DEF vars, Quiet
<1>1. /\ \A r \in Runs : UnderWay(r)' <=> UnderWay(r)
      /\ \A a \in Agents : Saving(a)' <=> Saving(a)
      /\ RunGoing' <=> RunGoing
  BY <1>0 DEF UnderWay, Saving, RunGoing, Quiet
<1>2. QueueFits' /\ LoadTyped' /\ Current' = Current /\ (Loading' <=> Loading)
  BY <1>0, <1>1, QuietKeeps
<1>3. TypeOK'
  <2>1. straddled' \in BOOLEAN /\ raced' \in BOOLEAN /\ unsaved' \in BOOLEAN
    BY <1>0, Zenon DEF BridgeInv, TypeOK, Quiet
  <2>. QED
    BY <1>0, <2>1 DEF BridgeInv, TypeOK, Quiet
<1>4. MainSave' /\ OneSave'
  BY <1>0, <1>1, <1>2, Agency DEF BridgeInv, MainSave, OneSave, Quiet
<1>5. OwnWorld' /\ SaveDue'
  BY <1>0, <1>1, <1>2 DEF BridgeInv, OwnWorld, SaveDue, Quiet
<1>. QED
  BY <1>2, <1>3, <1>4, <1>5 DEF BridgeInv

(* BridgeInv is an invariant: every step of the user, the bridge thread and
   the runs preserves it. *)
LEMMA InvariantHolds == Spec => []BridgeInv
<1>1. BridgeInv /\ [Next]_vars => BridgeInv'
  <2> SUFFICES ASSUME BridgeInv, [Next]_vars PROVE BridgeInv'
    OBVIOUS
  <2>1. CASE \/ \E w \in Workspaces : SwitchWorkspace(w) \/ Remove(w)
             \/ \E r \in Runs, k \in {"run", "v1"} : SendRun(r, k)
             \/ ClearAll \/ Quit
    BY <2>1, UserKeeps
  <2>2. CASE RecvRun
    BY <2>2, RecvRunKeeps
  <2>3. CASE RecvLoad
    BY <2>3, RecvLoadKeeps
  <2>4. CASE Restore
    BY <2>4, RestoreKeeps
  <2>5. CASE SetPath
    BY <2>5, SetPathKeeps
  <2>6. CASE RecvClear
    BY <2>6, RecvClearKeeps
  <2>7. CASE RecvShutdown
    BY <2>7, RecvShutdownKeeps
  <2>8. CASE Stop
    BY <2>8, StopKeeps
  <2>9. ASSUME NEW r \in Runs, Respond(r) \/ EndV1(r) \/ EndRun(r) PROVE BridgeInv'
    BY <2>9, RespondKeeps, EndV1Keeps, EndRunKeeps
  <2>10. ASSUME NEW a \in Agents, SaveReadsPath(a) \/ SaveReadsJar(a) \/ SaveWrites(a)
         PROVE  BridgeInv'
    BY <2>10, SaveReadsPathKeeps, SaveReadsJarKeeps, SaveWritesKeeps
  <2>11. CASE UNCHANGED vars
    BY <2>11, StutterKeeps
  <2>. QED
    BY <2>1, <2>2, <2>3, <2>4, <2>5, <2>6, <2>7, <2>8, <2>9, <2>10, <2>11 DEF Next
<1>. QED
  BY <1>1, InitInv, PTL DEF Spec

(* The bridge's state keeps its types, and a save that goes on has a path
   (save_cookies returns when there is none). *)
THEOREM TypeCorrect == Spec => []TypeOK
<1>1. BridgeInv => TypeOK
  BY DEF BridgeInv
<1>. QED
  BY <1>1, InvariantHolds, PTL

(* Cookies stay in the workspace they were received in as long as no run is
   under way when the workspace is switched: neither a file nor the jar a run
   sends its requests with holds another's (LoadCookies, save_cookies). *)
THEOREM CookiesStayHome == Spec => []OwnCookiesUnlessStraddled
<1>1. BridgeInv => OwnCookiesUnlessStraddled
  <2> SUFFICES ASSUME BridgeInv, ~straddled
               PROVE  /\ \A w \in Workspaces : files[w] \subseteq {w}
                      /\ \A r \in Runs : task[r] = "running" => jar \subseteq {owner[r]}
    BY DEF OwnCookiesUnlessStraddled
  <2>1. OwnWorld
    BY DEF BridgeInv
  <2>. QED
    BY <2>1 DEF OwnWorld, UnderWay
<1>. QED
  BY <1>1, InvariantHolds, PTL

(* When no run, save or load is under way, the open workspace's file holds the
   jar: every change was followed by a save (the spawned run's, ClearCookies',
   Shutdown's), except a v1 run's, and except when two saves or a save and a
   load overlapped. *)
THEOREM JarIsSaved == Spec => []SettledJarIsSaved
<1>1. BridgeInv => SettledJarIsSaved
  <2> SUFFICES ASSUME BridgeInv, Settled, ~raced, ~unsaved PROVE files[path] = jar
    BY DEF SettledJarIsSaved
  <2>1. ~Loading /\ path # NoPath /\ ~RunGoing /\ \A a \in Agents : ~Saving(a)
    BY Agency DEF Settled, Loading, RunGoing, UnderWay
  <2>. QED
    BY <2>1 DEF BridgeInv, SaveDue
<1>. QED
  BY <1>1, InvariantHolds, PTL
=============================================================================
