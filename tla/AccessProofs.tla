------------------------------ MODULE AccessProofs ------------------------------
(***************************************************************************)
(* Who may enter, for every set of users, tabs, groups and policies.  That *)
(* an administrator remains rests on what a decision under way still knows *)
(* when it writes: another administrator was counted, and without a second *)
(* decision nobody takes the other one's place away.                       *)
(***************************************************************************)
EXTENDS Access, TLAPS

Decides(t) == call[t].pc \in {"count", "write"}

\* The row a sign-up is about to create may not be used unless a group lets it in.
SignsUp(t) ==
  call[t].pc = "create" =>
    call[t].group # NoOne \/ call[t].seen.status \in {"REJECTED", "PENDING"}

\* A decision has a user; access is taken from and given back to those who had it.
HasTarget(t) ==
  Decides(t) =>
    /\ call[t].op \in Ops
    /\ call[t].to \in Users
    /\ call[t].op \in {"enable", "disable"} => call[t].to \in let_in

\* Somebody else is an administrator, or the decision leaves its user one.
DoorStaysOpen(c, row) ==
  \/ \E u \in Users \ {c.to} : row[u] = Admin
  \/ c.op = "update" /\ c.role = "admin"

WritesSafely(t) == ~excused /\ call[t].pc = "write" => DoorStaysOpen(call[t], user)

OneDecision == ~excused => \A s, t \in Tabs : Decides(s) /\ Decides(t) => s = t

AccessInv ==
  /\ AccessTypeOK
  /\ NobodyWalksIn
  /\ AloneAdminRemains
  /\ OneDecision
  /\ \A t \in Tabs : SignsUp(t) /\ HasTarget(t) /\ WritesSafely(t)

\* What a step does to everything but the requests and the users.
AroundTyped ==
  /\ owner \in Owners
  /\ group \in [Users -> RoleNames \cup {NoOne}]
  /\ open \in BOOLEAN /\ limited \in BOOLEAN
  /\ screen \in [Tabs -> Statuses \cup {NoOne}]
  /\ failures \in 0..MaxFailures

Quiet == {"idle", "find", "new", "activate", "sync", "handle", "open", "limit"}

-----------------------------------------------------------------------------
LEMMA Names ==
  /\ NoUser \in Row /\ Admin \in Row /\ NoUser # Admin
  /\ NoOne \notin Users /\ NoOne \notin RoleNames /\ NoOne \notin Statuses
  /\ "ACTIVE" \in Statuses /\ "DISABLED" \in Statuses
  /\ "REJECTED" \in Statuses /\ "PENDING" \in Statuses
  /\ "admin" \in RoleNames
  BY AccessAssumption DEF NoUser, Admin, Row, RoleNames, Statuses

LEMMA NoCallFacts ==
  /\ NoCall \in Call
  /\ NoCall.pc = "idle"
  /\ NoCall.pc \in Quiet
  <1>1. NoUser \in Row
    BY Names
  <1>2. NoCall \in Call
    BY <1>1 DEF NoCall, Call, Phases
  <1>. QED
    BY <1>2 DEF NoCall, Quiet

LEMMA PcFacts ==
  ASSUME NEW c \in Call, NEW p \in Phases
  PROVE  /\ [c EXCEPT !.pc = p] \in Call
         /\ [c EXCEPT !.pc = p].pc = p
  BY DEF Call

LEMMA SeenFacts ==
  ASSUME NEW c \in Call, NEW p \in Phases, NEW row \in Row
  PROVE  /\ [c EXCEPT !.seen = row, !.pc = p] \in Call
         /\ [c EXCEPT !.seen = row, !.pc = p].pc = p
  BY DEF Call

\* The request of one tab moves on, and users change in a way that lets nobody in,
\* leaves an administrator, and takes nobody's place from under another decision.
LEMMA MoveOn ==
  ASSUME AccessInv,
         NEW t \in Tabs, NEW next \in Call,
         call' = [call EXCEPT ![t] = next],
         next.pc \notin {"count", "write"},
         next.pc = "create" => next.group # NoOne \/ next.seen.status \in {"REJECTED", "PENDING"},
         AroundTyped',
         user' \in [Users -> Row], let_in' \subseteq Users, excused' \in BOOLEAN,
         let_in \subseteq let_in', ~excused' => ~excused,
         NobodyWalksIn', AloneAdminRemains',
         \A s \in Tabs \ {t} :
           ~excused' /\ call[s].pc = "write" => DoorStaysOpen(call[s], user')
  PROVE  AccessInv'
  <1>1. AccessTypeOK'
    BY DEF AccessInv, AccessTypeOK, AroundTyped
  <1>2. \A s \in Tabs : call'[s] = IF s = t THEN next ELSE call[s]
    BY DEF AccessInv, AccessTypeOK
  <1>3. \A s \in Tabs : Decides(s)' => Decides(s) /\ s # t
    BY <1>2 DEF Decides
  <1>4. OneDecision'
    BY <1>3 DEF OneDecision, AccessInv
  <1>5. ASSUME NEW s \in Tabs
        PROVE  SignsUp(s)' /\ HasTarget(s)' /\ WritesSafely(s)'
    <2>1. CASE s = t
      BY <1>2, <2>1 DEF SignsUp, HasTarget, WritesSafely, Decides
    <2>2. CASE s # t
      <3>1. call'[s] = call[s]
        BY <1>2, <2>2
      <3>2. SignsUp(s)'
        BY <3>1 DEF SignsUp, AccessInv
      <3>3. HasTarget(s)'
        BY <3>1 DEF HasTarget, Decides, AccessInv
      <3>4. WritesSafely(s)'
        BY <2>2, <3>1 DEF WritesSafely
      <3>. QED
        BY <3>2, <3>3, <3>4
    <2>. QED
      BY <2>1, <2>2
  <1>. QED
    BY <1>1, <1>4, <1>5 DEF AccessInv

\* Where no administrator's row changes, what a decision relies on stays.
LEMMA AdminsStay ==
  ASSUME AccessInv,
         ~excused' => ~excused /\ \A u \in Users : user[u] = Admin => user'[u] = Admin
  PROVE  /\ AloneAdminRemains'
         /\ \A s \in Tabs :
              ~excused' /\ call[s].pc = "write" => DoorStaysOpen(call[s], user')
  BY DEF AccessInv, AloneAdminRemains, WritesSafely, DoorStaysOpen

\* The request of one tab moves on and no user changes.
LEMMA MoveOnly ==
  ASSUME AccessInv,
         NEW t \in Tabs, NEW next \in Call,
         call' = [call EXCEPT ![t] = next],
         next.pc \in Quiet,
         AroundTyped',
         UNCHANGED <<user, let_in, excused>>
  PROVE  AccessInv'
  <1>1. next.pc \notin {"count", "write", "create"}
    BY DEF Quiet
  <1>2. user' \in [Users -> Row] /\ let_in' \subseteq Users /\ excused' \in BOOLEAN
    BY DEF AccessInv, AccessTypeOK
  <1>3. NobodyWalksIn'
    BY DEF AccessInv, NobodyWalksIn
  <1>4. /\ AloneAdminRemains'
        /\ \A s \in Tabs :
             ~excused' /\ call[s].pc = "write" => DoorStaysOpen(call[s], user')
    BY AdminsStay
  <1>5. let_in \subseteq let_in' /\ (~excused' => ~excused)
    OBVIOUS
  <1>. QED
    BY <1>1, <1>2, <1>3, <1>4, <1>5, MoveOn

LEMMA Typed ==
  ASSUME AccessInv, NEW t \in Tabs
  PROVE  /\ call[t] \in Call /\ call[t].pc \in Phases /\ call[t].seen \in Row
         /\ call[t].group \in RoleNames \cup {NoOne} /\ call[t].to \in Users \cup {NoOne}
         /\ call[t].role \in RoleNames \cup {NoOne}
         /\ call[t].opens \in BOOLEAN /\ call[t].limits \in BOOLEAN
         /\ Me(t) \in Users /\ user[Me(t)] \in Row
         /\ AroundTyped
  <1>1. call[t] \in Call /\ owner \in [Tabs -> Users] /\ user \in [Users -> Row] /\ AroundTyped
    BY AccessAssumption DEF AccessInv, AccessTypeOK, AroundTyped
  <1>. QED
    BY <1>1 DEF Call, Me

\* Where the guard goes on decides nothing.
LEMMA KnownGoesOn ==
  ASSUME AccessInv, NEW t \in Tabs, NEW row \in Row, Known(t, row)
  PROVE  \E next \in Call : call' = [call EXCEPT ![t] = next] /\ next.pc \in Quiet
  <1>. DEFINE waits == call[t].group # NoOne /\ row.status = "PENDING"
              syncs == call[t].group \notin {NoOne, row.role}
              p == IF waits THEN "activate" ELSE IF syncs THEN "sync" ELSE "handle"
              goes == [call[t] EXCEPT !.seen = row, !.pc = p]
              next == IF ~waits /\ ~Usable(t, row.status) THEN NoCall ELSE goes
  <1>1. p \in Phases /\ p \in Quiet
    BY DEF Phases, Quiet
  <1>2. call' = [call EXCEPT ![t] = next]
    BY DEF Known
  <1>. HIDE DEF p
  <1>3. goes \in Call /\ goes.pc \in Quiet
    <2>1. call[t] \in Call
      BY Typed
    <2>. QED
      BY <1>1, <2>1, SeenFacts
  <1>. HIDE DEF goes, waits
  <1>4. next \in Call /\ next.pc \in Quiet
    BY <1>3, NoCallFacts
  <1>. HIDE DEF next
  <1>. QED
    BY <1>2, <1>4

-----------------------------------------------------------------------------
LEMMA AccessStarts == AccessInit => AccessInv
  <1>. SUFFICES ASSUME AccessInit PROVE AccessInv
    OBVIOUS
  <1>. USE DEF AccessInit
  <1>1. FirstAdmin \in Users /\ owner \in [Tabs -> Users] /\ MaxFailures \in Nat
    BY AccessAssumption
  <1>2. /\ user \in [Users -> Row] /\ user[FirstAdmin] = Admin
        /\ \A u \in Users \ {FirstAdmin} : user[u].status = NoOne
    BY <1>1, Names DEF NoUser
  <1>3. \A u \in Users : user[u].status \in Statuses \cup {NoOne}
    BY <1>2 DEF Row
  <1>4. AccessTypeOK
    <2>1. screen \in [Tabs -> Statuses \cup {NoOne}]
      BY <1>1, <1>3
    <2>2. call \in [Tabs -> Call]
      BY NoCallFacts
    <2>3. group \in [Users -> RoleNames \cup {NoOne}] /\ let_in \subseteq Users
      BY <1>1
    <2>4. open \in BOOLEAN /\ limited \in BOOLEAN /\ excused \in BOOLEAN
      OBVIOUS
    <2>5. failures \in 0..MaxFailures
      <3>1. failures = 0
        OBVIOUS
      <3>. HIDE DEF AccessInit
      <3>. QED
        BY <1>1, <3>1
    <2>. QED
      BY <1>2, <2>1, <2>2, <2>3, <2>4, <2>5 DEF AccessTypeOK
  <1>5. \A t \in Tabs : call[t].pc = "idle"
    BY NoCallFacts
  <1>6. \A t \in Tabs : SignsUp(t) /\ HasTarget(t) /\ WritesSafely(t) /\ ~Decides(t)
    BY <1>5 DEF SignsUp, HasTarget, WritesSafely, Decides
  <1>7. NobodyWalksIn
    BY <1>2, Names DEF NobodyWalksIn
  <1>8. AloneAdminRemains
    BY <1>1, <1>2 DEF AloneAdminRemains
  <1>. QED
    BY <1>4, <1>6, <1>7, <1>8 DEF AccessInv, OneDecision

LEMMA GroupChangesKeeps ==
  ASSUME AccessInv, NEW u \in Users, NEW g \in Groups[u] \cup {NoOne}, GroupChanges(u, g)
  PROVE  AccessInv'
  <1>1. g \in RoleNames \cup {NoOne}
    BY AccessAssumption
  <1>2. group' \in [Users -> RoleNames \cup {NoOne}]
    BY <1>1 DEF GroupChanges, AccessInv, AccessTypeOK
  <1>. QED
    BY <1>2 DEF GroupChanges, AccessInv, AccessTypeOK, NobodyWalksIn, AloneAdminRemains,
       OneDecision, SignsUp, HasTarget, WritesSafely, DoorStaysOpen, Decides

LEMMA SendKeeps ==
  ASSUME AccessInv, NEW t \in Tabs, NEW op \in {"me", "any"}, Send(t, op)
  PROVE  AccessInv'
  <1>. DEFINE next == [NoCall EXCEPT !.pc = "find", !.op = op, !.group = group[Me(t)]]
  <1>1. group[Me(t)] \in RoleNames \cup {NoOne}
    BY Typed DEF AroundTyped
  <1>2. next \in Call
    BY <1>1, Names DEF NoCall, Call, Phases
  <1>3. next.pc \in Quiet
    BY DEF NoCall, Quiet
  <1>4. call' = [call EXCEPT ![t] = next] /\ UNCHANGED <<user, let_in, excused>>
    BY DEF Send
  <1>5. AroundTyped'
    BY Typed DEF Send, AroundTyped
  <1>. HIDE DEF next
  <1>. QED
    BY <1>2, <1>3, <1>4, <1>5, MoveOnly

LEMMA FindUserKeeps ==
  ASSUME AccessInv, NEW t \in Tabs, FindUser(t)
  PROVE  AccessInv'
  <1>1. AroundTyped' /\ UNCHANGED <<user, let_in, excused>>
    BY Typed DEF FindUser, AroundTyped
  <1>2. CASE user[Me(t)] = NoUser
    <2>. DEFINE next == [call[t] EXCEPT !.pc = "new"]
    <2>1. "new" \in Phases /\ "new" \in Quiet
      BY DEF Phases, Quiet
    <2>2. next \in Call /\ next.pc \in Quiet
      BY <2>1, Typed, PcFacts
    <2>3. call' = [call EXCEPT ![t] = next]
      BY <1>2 DEF FindUser
    <2>. HIDE DEF next
    <2>. QED
      BY <1>1, <2>2, <2>3, MoveOnly
  <1>3. CASE user[Me(t)] # NoUser
    <2>1. Known(t, user[Me(t)])
      BY <1>3 DEF FindUser
    <2>2. PICK next \in Call : call' = [call EXCEPT ![t] = next] /\ next.pc \in Quiet
      BY <2>1, Typed, KnownGoesOn
    <2>. QED
      BY <1>1, <2>2, MoveOnly
  <1>. QED
    BY <1>2, <1>3

LEMMA DecideSignupKeeps ==
  ASSUME AccessInv, NEW t \in Tabs, DecideSignup(t)
  PROVE  AccessInv'
  <1>. DEFINE status == IF call[t].group # NoOne THEN "ACTIVE"
                        ELSE IF Blocked(Me(t)) THEN "REJECTED" ELSE "PENDING"
              row == [status |-> status, role |-> NoOne]
              next == [call[t] EXCEPT !.pc = "create", !.seen = row]
  <1>1. /\ status \in Statuses
        /\ call[t].group # NoOne \/ status \in {"REJECTED", "PENDING"}
    BY DEF Statuses
  <1>2. call' = [call EXCEPT ![t] = next] /\ UNCHANGED <<user, let_in, excused>>
    BY DEF DecideSignup
  <1>. HIDE DEF status
  <1>3. row \in Row /\ row.status = status
    BY <1>1 DEF Row
  <1>. HIDE DEF row
  <1>4. "create" \in Phases
    BY DEF Phases
  <1>5. next \in Call /\ next.pc = "create" /\ next.seen = row /\ next.group = call[t].group
    <2>1. call[t] \in Call
      BY Typed
    <2>2. row \in Row /\ "create" \in Phases
      BY <1>3, <1>4
    <2>. QED
      BY <2>1, <2>2 DEF Call
  <1>. HIDE DEF next
  <1>6. AroundTyped'
    BY Typed DEF DecideSignup, AroundTyped
  <1>7. /\ user' \in [Users -> Row] /\ let_in' \subseteq Users /\ excused' \in BOOLEAN
        /\ NobodyWalksIn'
    BY <1>2 DEF AccessInv, AccessTypeOK, NobodyWalksIn
  <1>8. /\ AloneAdminRemains'
        /\ \A s \in Tabs :
             ~excused' /\ call[s].pc = "write" => DoorStaysOpen(call[s], user')
    BY <1>2, AdminsStay
  <1>9. let_in \subseteq let_in' /\ (~excused' => ~excused)
    BY <1>2
  <1>10. next.pc \notin {"count", "write"}
    BY <1>5
  <1>11. next.group # NoOne \/ next.seen.status \in {"REJECTED", "PENDING"}
    BY <1>1, <1>3, <1>5
  <1>. QED
    BY <1>2, <1>5, <1>6, <1>7, <1>8, <1>9, <1>10, <1>11, MoveOn

\* A new row may be used only by somebody a group lets in; nobody's row is replaced.
LEMMA CreateUserKeeps ==
  ASSUME AccessInv, NEW t \in Tabs, CreateUser(t)
  PROVE  AccessInv'
  <1>1. AroundTyped' /\ excused' = excused /\ call[t].pc = "create"
    BY Typed DEF CreateUser, AroundTyped
  <1>2. CASE user[Me(t)] # NoUser
    <2>1. call' = [call EXCEPT ![t] = NoCall] /\ UNCHANGED <<user, let_in>>
      BY <1>2 DEF CreateUser
    <2>. QED
      BY <1>1, <2>1, NoCallFacts, MoveOnly
  <1>3. CASE user[Me(t)] = NoUser
    <2>1. /\ user' = [user EXCEPT ![Me(t)] = call[t].seen] /\ Known(t, call[t].seen)
          /\ let_in' = IF call[t].group # NoOne THEN let_in \cup {Me(t)} ELSE let_in
      BY <1>3 DEF CreateUser
    <2>2. PICK next \in Call : call' = [call EXCEPT ![t] = next] /\ next.pc \in Quiet
      BY <2>1, Typed, KnownGoesOn
    <2>3. user \in [Users -> Row] /\ let_in \subseteq Users /\ excused \in BOOLEAN
      BY DEF AccessInv, AccessTypeOK
    <2>4. user' \in [Users -> Row] /\ let_in' \subseteq Users /\ let_in \subseteq let_in'
      BY <2>1, <2>3, Typed
    <2>5. \A u \in Users : user[u] = Admin => user'[u] = Admin
      BY <1>3, <2>1, <2>3, Names
    <2>6. call[t].group # NoOne \/ call[t].seen.status \in {"REJECTED", "PENDING"}
      BY <1>1 DEF AccessInv, SignsUp
    <2>7. NobodyWalksIn'
      BY <2>1, <2>3, <2>6, Typed DEF AccessInv, NobodyWalksIn
    <2>8. /\ AloneAdminRemains'
          /\ \A s \in Tabs :
               ~excused' /\ call[s].pc = "write" => DoorStaysOpen(call[s], user')
      BY <1>1, <2>5, AdminsStay
    <2>9. next.pc \notin {"count", "write", "create"}
      BY <2>2 DEF Quiet
    <2>. QED
      BY <1>1, <2>2, <2>3, <2>4, <2>7, <2>8, <2>9, MoveOn
  <1>. QED
    BY <1>2, <1>3

\* An administrator who is activated again stays one.
LEMMA ActivateByGroupKeeps ==
  ASSUME AccessInv, NEW t \in Tabs, ActivateByGroup(t)
  PROVE  AccessInv'
  <1>. DEFINE row == [user[Me(t)] EXCEPT !.status = "ACTIVE"]
  <1>1. row \in Row /\ (user[Me(t)] = Admin => row = Admin)
    BY Typed, Names DEF Row, Admin
  <1>2. /\ user' = [user EXCEPT ![Me(t)] = row] /\ Known(t, row)
        /\ let_in' = let_in \cup {Me(t)} /\ excused' = excused
    BY DEF ActivateByGroup
  <1>. HIDE DEF row
  <1>3. PICK next \in Call : call' = [call EXCEPT ![t] = next] /\ next.pc \in Quiet
    BY <1>1, <1>2, KnownGoesOn
  <1>4. user \in [Users -> Row] /\ let_in \subseteq Users /\ excused \in BOOLEAN
    BY DEF AccessInv, AccessTypeOK
  <1>5. user' \in [Users -> Row] /\ let_in' \subseteq Users /\ let_in \subseteq let_in'
    BY <1>1, <1>2, <1>4, Typed
  <1>6. \A u \in Users : user[u] = Admin => user'[u] = Admin
    BY <1>1, <1>2, <1>4
  <1>7. NobodyWalksIn'
    BY <1>2, <1>4, Typed DEF AccessInv, NobodyWalksIn
  <1>8. /\ AloneAdminRemains'
        /\ \A s \in Tabs :
             ~excused' /\ call[s].pc = "write" => DoorStaysOpen(call[s], user')
    BY <1>2, <1>6, AdminsStay
  <1>9. next.pc \notin {"count", "write", "create"}
    BY <1>3 DEF Quiet
  <1>10. AroundTyped'
    BY Typed DEF ActivateByGroup, AroundTyped
  <1>. QED
    BY <1>2, <1>3, <1>4, <1>5, <1>7, <1>8, <1>9, <1>10, MoveOn

\* A group that takes an administrator's role is what excuses the loss.
LEMMA SyncRoleKeeps ==
  ASSUME AccessInv, NEW t \in Tabs, SyncRole(t)
  PROVE  AccessInv'
  <1>. DEFINE row == [user[Me(t)] EXCEPT !.role = call[t].group]
              next == [call[t] EXCEPT !.pc = "handle"]
  <1>1. row \in Row /\ row.status = user[Me(t)].status
    BY Typed DEF Row
  <1>2. /\ user' = [user EXCEPT ![Me(t)] = row] /\ call' = [call EXCEPT ![t] = next]
        /\ let_in' = let_in /\ excused' = (excused \/ user[Me(t)].role = "admin")
    BY DEF SyncRole
  <1>. HIDE DEF row
  <1>3. "handle" \in Phases
    BY DEF Phases
  <1>4. next \in Call /\ next.pc = "handle"
    BY <1>3, Typed, PcFacts
  <1>. HIDE DEF next
  <1>5. user \in [Users -> Row] /\ let_in \subseteq Users /\ excused \in BOOLEAN
    BY DEF AccessInv, AccessTypeOK
  <1>6. user' \in [Users -> Row] /\ excused' \in BOOLEAN
    BY <1>1, <1>2, <1>5, Typed
  <1>7. ~excused' => ~excused /\ \A u \in Users : user[u] = Admin => user'[u] = Admin
    <2>. SUFFICES ASSUME ~excused'
                  PROVE  ~excused /\ \A u \in Users : user[u] = Admin => user'[u] = Admin
      OBVIOUS
    <2>1. ~excused /\ user[Me(t)].role # "admin"
      BY <1>2, <1>5
    <2>2. user[Me(t)] # Admin
      BY <2>1 DEF Admin
    <2>. QED
      BY <1>2, <1>5, <2>1, <2>2
  <1>8. NobodyWalksIn'
    BY <1>1, <1>2, <1>5, Typed DEF AccessInv, NobodyWalksIn
  <1>9. /\ AloneAdminRemains'
        /\ \A s \in Tabs :
             ~excused' /\ call[s].pc = "write" => DoorStaysOpen(call[s], user')
    BY <1>7, AdminsStay
  <1>10. AroundTyped'
    BY Typed DEF SyncRole, AroundTyped
  <1>11. next.pc \notin {"count", "write", "create"}
    BY <1>4
  <1>. QED
    BY <1>2, <1>4, <1>5, <1>6, <1>7, <1>8, <1>9, <1>10, <1>11, MoveOn

-----------------------------------------------------------------------------
\* A step that ends the request of a tab and changes no user.
LEMMA EndKeeps ==
  ASSUME AccessInv, NEW t \in Tabs,
         call' = [call EXCEPT ![t] = NoCall],
         AroundTyped',
         UNCHANGED <<user, let_in, excused>>
  PROVE  AccessInv'
  BY NoCallFacts, MoveOnly

LEMMA AnswerMeKeeps ==
  ASSUME AccessInv, NEW t \in Tabs, AnswerMe(t)
  PROVE  AccessInv'
  <1>1. call[t].seen.status \in Statuses \cup {NoOne}
    BY Typed DEF Row
  <1>2. AroundTyped'
    BY <1>1, Typed DEF AnswerMe, AroundTyped
  <1>. QED
    BY <1>2, EndKeeps DEF AnswerMe

LEMMA LeaveKeeps ==
  ASSUME AccessInv, NEW t \in Tabs, Leave(t)
  PROVE  AccessInv'
  <1>1. AroundTyped'
    BY Typed DEF Leave, AroundTyped
  <1>. QED
    BY <1>1, EndKeeps DEF Leave

LEMMA FailKeeps ==
  ASSUME AccessInv, NEW t \in Tabs, Fail(t)
  PROVE  AccessInv'
  <1>1. AroundTyped'
    BY Typed, AccessAssumption DEF Fail, AroundTyped
  <1>. QED
    BY <1>1, EndKeeps DEF Fail

LEMMA UpdateAccessKeeps ==
  ASSUME AccessInv, NEW t \in Tabs, NEW opens \in BOOLEAN, NEW limits \in BOOLEAN,
         UpdateAccess(t, opens, limits)
  PROVE  AccessInv'
  <1>. DEFINE next == [NoCall EXCEPT !.pc = "open", !.op = "settings",
                                     !.opens = opens, !.limits = limits]
  <1>1. next \in Call
    BY Names DEF NoCall, Call, Phases
  <1>2. next.pc \in Quiet
    BY DEF NoCall, Quiet
  <1>3. call' = [call EXCEPT ![t] = next] /\ UNCHANGED <<user, let_in, excused>>
    BY DEF UpdateAccess
  <1>4. AroundTyped'
    BY Typed DEF UpdateAccess, AroundTyped
  <1>. HIDE DEF next
  <1>. QED
    BY <1>1, <1>2, <1>3, <1>4, MoveOnly

LEMMA WriteOpenKeeps ==
  ASSUME AccessInv, NEW t \in Tabs, WriteOpen(t)
  PROVE  AccessInv'
  <1>. DEFINE next == [call[t] EXCEPT !.pc = "limit"]
  <1>1. "limit" \in Phases /\ "limit" \in Quiet
    BY DEF Phases, Quiet
  <1>2. next \in Call /\ next.pc \in Quiet
    BY <1>1, Typed, PcFacts
  <1>3. call' = [call EXCEPT ![t] = next] /\ UNCHANGED <<user, let_in, excused>>
    BY DEF WriteOpen
  <1>4. AroundTyped'
    BY Typed DEF WriteOpen, AroundTyped
  <1>. HIDE DEF next
  <1>. QED
    BY <1>2, <1>3, <1>4, MoveOnly

LEMMA WriteLimitedKeeps ==
  ASSUME AccessInv, NEW t \in Tabs, WriteLimited(t)
  PROVE  AccessInv'
  <1>1. AroundTyped'
    BY Typed DEF WriteLimited, AroundTyped
  <1>. QED
    BY <1>1, EndKeeps DEF WriteLimited

-----------------------------------------------------------------------------
\* The request of one tab becomes or stays a decision, the only one unless excused.
LEMMA DecisionMoves ==
  ASSUME AccessInv,
         NEW t \in Tabs, NEW next \in Call,
         call' = [call EXCEPT ![t] = next],
         next.pc \in {"count", "write"},
         next.op \in Ops, next.to \in Users,
         next.op \in {"enable", "disable"} => next.to \in let_in,
         ~excused' /\ next.pc = "write" => DoorStaysOpen(next, user),
         excused' \in BOOLEAN, ~excused' => ~excused,
         ~excused' => \A s \in Tabs \ {t} : ~Decides(s),
         AroundTyped', UNCHANGED <<user, let_in>>
  PROVE  AccessInv'
  <1>1. AccessTypeOK'
    BY DEF AccessInv, AccessTypeOK, AroundTyped
  <1>2. \A s \in Tabs : call'[s] = IF s = t THEN next ELSE call[s]
    BY DEF AccessInv, AccessTypeOK
  <1>3. \A s \in Tabs : s # t => Decides(s)' = Decides(s)
    BY <1>2 DEF Decides
  <1>4. OneDecision'
    BY <1>3 DEF OneDecision
  <1>5. ASSUME NEW s \in Tabs
        PROVE  SignsUp(s)' /\ HasTarget(s)' /\ WritesSafely(s)'
    <2>1. CASE s = t
      BY <1>2, <2>1 DEF SignsUp, HasTarget, WritesSafely, DoorStaysOpen
    <2>2. CASE s # t
      <3>1. call'[s] = call[s]
        BY <1>2, <2>2
      <3>. QED
        BY <3>1 DEF SignsUp, HasTarget, Decides, WritesSafely, DoorStaysOpen, AccessInv
    <2>. QED
      BY <2>1, <2>2
  <1>6. NobodyWalksIn' /\ AloneAdminRemains'
    BY DEF AccessInv, NobodyWalksIn, AloneAdminRemains
  <1>. QED
    BY <1>1, <1>4, <1>5, <1>6 DEF AccessInv

\* To write at once, a decision is about a user who is no administrator, so another
\* one is there, or leaves the role.
LEMMA DecideKeeps ==
  ASSUME AccessInv, NEW t \in Tabs, NEW op \in Ops, NEW u \in Users, NEW role \in RoleNames,
         Decide(t, op, u, role)
  PROVE  AccessInv'
  <1>. DEFINE last == user[u] = Admin /\ (op = "disable" \/ (op = "update" /\ role # "admin"))
              given == IF op \in {"approve", "update"} THEN role ELSE NoOne
              p == IF last THEN "count" ELSE "write"
              next == [NoCall EXCEPT !.op = op, !.to = u, !.role = given, !.pc = p]
  <1>1. /\ call' = [call EXCEPT ![t] = next]
        /\ excused' = (excused \/ Deciding # {})
        /\ UNCHANGED <<user, let_in>>
        /\ \/ op = "approve" /\ user[u].status \in {"PENDING", "REJECTED"}
           \/ op = "reject"  /\ user[u].status = "PENDING"
           \/ op = "disable" /\ user[u].status = "ACTIVE" /\ u # Me(t)
           \/ op = "enable"  /\ user[u].status = "DISABLED" /\ user[u].role # NoOne
           \/ op = "update"
    BY DEF Decide
  <1>2. given \in RoleNames \cup {NoOne} /\ p \in Phases /\ p \in {"count", "write"}
    BY DEF Phases
  <1>3. op = "update" => given = role
    OBVIOUS
  <1>4. p = "write" => ~last
    OBVIOUS
  <1>. HIDE DEF given, p
  <1>5. next \in Call /\ next.pc = p /\ next.op = op /\ next.to = u /\ next.role = given
    BY <1>2, Names DEF NoCall, Call
  <1>. HIDE DEF next
  <1>6. op \in {"enable", "disable"} => u \in let_in
    BY <1>1 DEF AccessInv, NobodyWalksIn
  <1>7. /\ excused' \in BOOLEAN /\ (~excused' => ~excused)
        /\ ~excused' => \A s \in Tabs : ~Decides(s)
    BY <1>1 DEF AccessInv, AccessTypeOK, Deciding, Decides
  <1>8. ASSUME ~excused', next.pc = "write"
        PROVE  DoorStaysOpen(next, user)
    <2>1. PICK v \in Users : user[v] = Admin
      BY <1>7, <1>8 DEF AccessInv, AloneAdminRemains
    <2>2. CASE user[u] # Admin
      BY <1>5, <2>1, <2>2 DEF DoorStaysOpen
    <2>3. CASE user[u] = Admin
      <3>1. user[u].status = "ACTIVE"
        BY <2>3 DEF Admin
      <3>2. op \in {"disable", "update"}
        BY <1>1, <3>1
      <3>3. op = "update" /\ role = "admin"
        BY <1>4, <1>5, <1>8, <2>3, <3>2
      <3>. QED
        BY <1>3, <1>5, <3>3 DEF DoorStaysOpen
    <2>. QED
      BY <2>2, <2>3
  <1>9. AroundTyped'
    BY Typed DEF Decide, AroundTyped
  <1>10. /\ next.pc \in {"count", "write"} /\ next.op \in Ops /\ next.to \in Users
         /\ next.op \in {"enable", "disable"} => next.to \in let_in
         /\ ~excused' => \A s \in Tabs \ {t} : ~Decides(s)
    BY <1>2, <1>5, <1>6, <1>7
  <1>. QED
    BY <1>1, <1>5, <1>7, <1>8, <1>9, <1>10, DecisionMoves

LEMMA CountAdminsKeeps ==
  ASSUME AccessInv, NEW t \in Tabs, CountAdmins(t)
  PROVE  AccessInv'
  <1>1. /\ AroundTyped' /\ UNCHANGED <<user, let_in, excused>> /\ call[t].pc = "count"
        /\ call' = [call EXCEPT ![t] =
             IF \E u \in Users \ {call[t].to} : user[u] = Admin
             THEN [call[t] EXCEPT !.pc = "write"] ELSE NoCall]
    BY Typed DEF CountAdmins, AroundTyped
  <1>2. CASE \E u \in Users \ {call[t].to} : user[u] = Admin
    <2>. DEFINE next == [call[t] EXCEPT !.pc = "write"]
    <2>1. call' = [call EXCEPT ![t] = next]
      BY <1>1, <1>2
    <2>2. "write" \in Phases
      BY DEF Phases
    <2>3. next \in Call /\ next.pc = "write"
      BY <2>2, Typed, PcFacts
    <2>4. next.op = call[t].op /\ next.to = call[t].to
      BY Typed DEF Call
    <2>. HIDE DEF next
    <2>5. Decides(t) /\ HasTarget(t)
      BY <1>1 DEF AccessInv, Decides
    <2>6. /\ next.op \in Ops /\ next.to \in Users
          /\ next.op \in {"enable", "disable"} => next.to \in let_in
      BY <2>4, <2>5 DEF HasTarget
    <2>7. DoorStaysOpen(next, user)
      BY <1>2, <2>4 DEF DoorStaysOpen
    <2>8. ~excused => \A s \in Tabs \ {t} : ~Decides(s)
      BY <2>5 DEF AccessInv, OneDecision
    <2>9. excused \in BOOLEAN
      BY DEF AccessInv, AccessTypeOK
    <2>. QED
      BY <1>1, <2>1, <2>3, <2>6, <2>7, <2>8, <2>9, DecisionMoves
  <1>3. CASE ~\E u \in Users \ {call[t].to} : user[u] = Admin
    BY <1>1, <1>3, EndKeeps
  <1>. QED
    BY <1>2, <1>3

\* What is written gives access to whom an admin approves or who had it; and where this
\* is the only decision, another administrator is there or its user stays one.
LEMMA WriteUserKeeps ==
  ASSUME AccessInv, NEW t \in Tabs, WriteUser(t)
  PROVE  AccessInv'
  <1>. DEFINE u == call[t].to
              op == call[t].op
              status == IF op \in DOMAIN Becomes THEN Becomes[op] ELSE user[u].status
              role == IF op \in {"approve", "update"} THEN call[t].role ELSE user[u].role
              row == [status |-> status, role |-> role]
  <1>1. /\ call[t].pc = "write" /\ call' = [call EXCEPT ![t] = NoCall]
        /\ user' = [user EXCEPT ![u] = row]
        /\ let_in' = IF op = "approve" THEN let_in \cup {u} ELSE let_in
        /\ excused' = excused
    BY DEF WriteUser
  <1>2. Decides(t) /\ HasTarget(t) /\ WritesSafely(t)
    BY <1>1 DEF AccessInv, Decides
  <1>3. op \in Ops /\ u \in Users /\ (op \in {"enable", "disable"} => u \in let_in)
    BY <1>2 DEF HasTarget
  <1>4. user \in [Users -> Row] /\ let_in \subseteq Users /\ excused \in BOOLEAN
    BY DEF AccessInv, AccessTypeOK
  <1>5. user[u].status \in Statuses \cup {NoOne} /\ user[u].role \in RoleNames \cup {NoOne}
    BY <1>3, <1>4 DEF Row
  <1>. HIDE DEF u, op
  <1>6. /\ op = "approve" => status = "ACTIVE"
        /\ op = "reject" => status = "REJECTED"
        /\ op = "disable" => status = "DISABLED"
        /\ op = "enable" => status = "ACTIVE"
        /\ op = "update" => status = user[u].status
    BY DEF Becomes
  <1>7. role \in RoleNames \cup {NoOne} /\ (op = "update" => role = call[t].role)
    BY <1>5, Typed
  <1>. HIDE DEF status, role
  <1>8. op \in {"approve", "reject", "disable", "enable", "update"}
    BY <1>3 DEF Ops
  <1>9. status \in Statuses \cup {NoOne}
    BY <1>5, <1>6, <1>8, Names
  <1>10. row \in Row /\ row.status = status /\ row.role = role
    BY <1>7, <1>9 DEF Row
  <1>11. row = Admin <=> status = "ACTIVE" /\ role = "admin"
    BY DEF Admin
  <1>. HIDE DEF row
  <1>12. user' \in [Users -> Row] /\ let_in' \subseteq Users /\ let_in \subseteq let_in'
    BY <1>1, <1>3, <1>4, <1>10
  <1>13. NobodyWalksIn'
    <2>. SUFFICES ASSUME NEW v \in Users, user'[v].status \in {"ACTIVE", "DISABLED"}
                  PROVE  v \in let_in'
      BY DEF NobodyWalksIn
    <2>1. CASE v # u
      BY <1>1, <1>4, <1>12, <2>1 DEF AccessInv, NobodyWalksIn
    <2>2. CASE v = u
      <3>1. status \in {"ACTIVE", "DISABLED"}
        BY <1>1, <1>3, <1>4, <1>10, <2>2
      <3>2. op = "update" => user[u].status \in {"ACTIVE", "DISABLED"}
        BY <1>6, <3>1
      <3>3. op # "reject"
        BY <1>6, <3>1
      <3>. QED
        BY <1>1, <1>3, <1>8, <1>12, <2>2, <3>2, <3>3 DEF AccessInv, NobodyWalksIn
    <2>. QED
      BY <2>1, <2>2
  <1>14. AloneAdminRemains'
    <2>. SUFFICES ASSUME ~excused PROVE \E v \in Users : user'[v] = Admin
      BY <1>1 DEF AloneAdminRemains
    <2>1. CASE \E v \in Users \ {u} : user[v] = Admin
      BY <1>1, <1>4, <2>1
    <2>2. CASE ~\E v \in Users \ {u} : user[v] = Admin
      <3>1. op = "update" /\ call[t].role = "admin"
        BY <1>1, <1>2, <2>2 DEF WritesSafely, DoorStaysOpen, u, op
      <3>2. user[u] = Admin
        BY <2>2 DEF AccessInv, AloneAdminRemains
      <3>3. user[u].status = "ACTIVE"
        BY <3>2 DEF Admin
      <3>4. row = Admin
        BY <1>6, <1>7, <1>11, <3>1, <3>3
      <3>. QED
        BY <1>1, <1>3, <1>4, <3>4
    <2>. QED
      BY <2>1, <2>2
  <1>15. \A s \in Tabs \ {t} :
           ~excused' /\ call[s].pc = "write" => DoorStaysOpen(call[s], user')
    BY <1>1, <1>2 DEF AccessInv, OneDecision, Decides
  <1>16. AroundTyped'
    BY Typed DEF WriteUser, AroundTyped
  <1>17. NoCall.pc \notin {"count", "write", "create"} /\ NoCall \in Call
    BY NoCallFacts
  <1>. QED
    BY <1>1, <1>4, <1>12, <1>13, <1>14, <1>15, <1>16, <1>17, MoveOn

LEMMA ProceedKeeps ==
  ASSUME AccessInv, NEW t \in Tabs, Proceed(t)
  PROVE  AccessInv'
  <1>1. CASE FindUser(t)
    BY <1>1, FindUserKeeps
  <1>2. CASE DecideSignup(t)
    BY <1>2, DecideSignupKeeps
  <1>3. CASE CreateUser(t)
    BY <1>3, CreateUserKeeps
  <1>4. CASE ActivateByGroup(t)
    BY <1>4, ActivateByGroupKeeps
  <1>5. CASE SyncRole(t)
    BY <1>5, SyncRoleKeeps
  <1>6. CASE AnswerMe(t)
    BY <1>6, AnswerMeKeeps
  <1>7. CASE Leave(t)
    BY <1>7, LeaveKeeps
  <1>8. CASE CountAdmins(t)
    BY <1>8, CountAdminsKeeps
  <1>9. CASE WriteUser(t)
    BY <1>9, WriteUserKeeps
  <1>10. CASE WriteOpen(t)
    BY <1>10, WriteOpenKeeps
  <1>11. CASE WriteLimited(t)
    BY <1>11, WriteLimitedKeeps
  <1>. QED
    BY <1>1, <1>2, <1>3, <1>4, <1>5, <1>6, <1>7, <1>8, <1>9, <1>10, <1>11 DEF Proceed

LEMMA AccessStep == AccessInv /\ [AccessNext]_accessVars => AccessInv'
  <1>. SUFFICES ASSUME AccessInv, [AccessNext]_accessVars PROVE AccessInv'
    OBVIOUS
  <1>1. ASSUME NEW u \in Users, NEW g \in Groups[u] \cup {NoOne}, GroupChanges(u, g)
        PROVE  AccessInv'
    BY <1>1, GroupChangesKeeps
  <1>2. ASSUME NEW t \in Tabs, Load(t) \/ Use(t) \/ Poll(t) PROVE AccessInv'
    BY <1>2, SendKeeps DEF Load, Use, Poll
  <1>3. ASSUME NEW t \in Tabs, Proceed(t) PROVE AccessInv'
    BY <1>3, ProceedKeeps
  <1>4. ASSUME NEW t \in Tabs, NEW op \in Ops, NEW u \in Users, NEW role \in RoleNames,
               Decide(t, op, u, role)
        PROVE  AccessInv'
    BY <1>4, DecideKeeps
  <1>5. ASSUME NEW t \in Tabs, NEW policy \in Policies,
               UpdateAccess(t, policy.open, policy.limited)
        PROVE  AccessInv'
    BY <1>5, AccessAssumption, UpdateAccessKeeps
  <1>6. ASSUME NEW t \in Tabs, Fail(t) PROVE AccessInv'
    BY <1>6, FailKeeps
  <1>7. CASE UNCHANGED accessVars
    BY <1>7 DEF accessVars, AccessInv, AccessTypeOK, NobodyWalksIn, AloneAdminRemains,
       OneDecision, SignsUp, HasTarget, WritesSafely, DoorStaysOpen, Decides
  <1>. QED
    BY <1>1, <1>2, <1>3, <1>4, <1>5, <1>6, <1>7 DEF AccessNext

-----------------------------------------------------------------------------
\* What requests have read of users stays true enough to act on it, however the guard,
\* the management of users and the settings interleave (cognito-auth.guard.ts,
\* users.service.ts).
THEOREM AccessInvariant == AccessSpec => []AccessInv
  BY AccessStarts, AccessStep, PTL DEF AccessSpec

\* The types of all the state, for every set of users, tabs, groups and policies.
THEOREM AccessTypeCorrect == AccessSpec => []AccessTypeOK
  <1>1. AccessInv => AccessTypeOK
    BY DEF AccessInv
  <1>. QED
    BY <1>1, AccessInvariant, PTL

\* Nobody uses an account that no admin has approved and no group lets in; and unless two
\* decisions overlap or a group takes the role away, an active administrator remains
\* (cognito-auth.guard.ts:80-130, users.service.ts:217-228).
THEOREM DoorIsKept == AccessSpec => []AdminsKeepTheDoor
  <1>1. AccessInv => AdminsKeepTheDoor
    BY DEF AccessInv, AdminsKeepTheDoor
  <1>. QED
    BY <1>1, AccessInvariant, PTL

=============================================================================
