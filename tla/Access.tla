-------------------------------- MODULE Access --------------------------------
(***************************************************************************)
(* Who may enter: the guard every request passes (backend/src/auth/        *)
(* cognito-auth.guard.ts, user-status.ts, roles.guard.ts), the management  *)
(* of users (modules/users/users.service.ts), the sign-up settings         *)
(* (modules/settings/access-settings.ts) and the screen that waits for an  *)
(* approval (frontend/src/auth/AuthGate.tsx).                              *)
(*                                                                         *)
(* A tab is a browser tab of one user with at most one request in flight.  *)
(* Requests interleave statement by statement; none opens a transaction.   *)
(* Names, departments and the mail that follows a decision are left out.   *)
(***************************************************************************)
EXTENDS Integers

CONSTANTS
  Users,       \* people with an account at Cognito
  FirstAdmin,  \* the one who already administers the system
  Outsiders,   \* those whose address is not in the company's domains
  Tabs,        \* browser tabs
  Owners,      \* who may sit at which tab: functions from tabs to users
  Groups,      \* the groups Cognito may put each user in
  Policies,    \* what an admin may set signup.open and the limit to domains to
  MaxFailures, \* requests that may fail for another reason than a refusal
  NoOne        \* absence of a row, a role, a group, a target

RoleNames == {"admin", "staff"}
Statuses  == {"PENDING", "ACTIVE", "REJECTED", "DISABLED"}

ASSUME AccessAssumption ==
  /\ FirstAdmin \in Users
  /\ Owners \subseteq [Tabs -> Users]
  /\ Groups \in [Users -> SUBSET RoleNames]
  /\ Policies \subseteq [open : BOOLEAN, limited : BOOLEAN]
  /\ MaxFailures \in Nat
  /\ NoOne \notin Users \cup RoleNames \cup Statuses

VARIABLES
  owner,     \* the user of each tab, for good
  user,      \* the User row of each user: status and role
  group,     \* the Cognito group in each user's token
  open,      \* signup.open
  limited,   \* signup.allowedDomains is the company's, not empty
  call,      \* the request of each tab
  screen,    \* the account status the tab shows
  failures,  \* requests that have failed
  let_in,    \* history: users an admin has approved or Cognito has put in a group
  excused    \* history: two decisions on users have been in flight at once, or the
             \* group in a token has taken an admin's role

accessVars == <<owner, user, group, open, limited, call, screen, failures, let_in, excused>>

Row    == [status : Statuses \cup {NoOne}, role : RoleNames \cup {NoOne}]
NoUser == [status |-> NoOne, role |-> NoOne]
Admin  == [status |-> "ACTIVE", role |-> "admin"]

\* What a request has read of its own user (the guard), what it asks for, and
\* what it is about to write.
NoCall == [pc |-> "idle", group |-> NoOne, seen |-> NoUser, op |-> NoOne, to |-> NoOne,
           role |-> NoOne, opens |-> FALSE, limits |-> FALSE]

Ops == {"approve", "reject", "disable", "enable", "update"}

Phases == {"idle", "find", "new", "create", "activate", "sync", "handle", "count", "write",
           "open", "limit"}

Call == [pc : Phases, group : RoleNames \cup {NoOne}, seen : Row,
         op : Ops \cup {"me", "any", "settings", NoOne}, to : Users \cup {NoOne},
         role : RoleNames \cup {NoOne}, opens : BOOLEAN, limits : BOOLEAN]

AccessTypeOK ==
  /\ owner \in Owners
  /\ user \in [Users -> Row]
  /\ group \in [Users -> RoleNames \cup {NoOne}]
  /\ open \in BOOLEAN /\ limited \in BOOLEAN
  /\ call \in [Tabs -> Call]
  /\ screen \in [Tabs -> Statuses \cup {NoOne}]
  /\ failures \in 0..MaxFailures
  /\ let_in \subseteq Users
  /\ excused \in BOOLEAN

AccessInit ==
  /\ owner \in Owners
  /\ user = [u \in Users |-> IF u = FirstAdmin THEN Admin ELSE NoUser]
  /\ group = [u \in Users |-> NoOne]
  /\ open = TRUE /\ limited = FALSE
  /\ call = [t \in Tabs |-> NoCall]
  /\ screen = [t \in Tabs |-> user[owner[t]].status]
  /\ failures = 0
  /\ let_in = {FirstAdmin}
  /\ excused = FALSE

-----------------------------------------------------------------------------
Me(t) == owner[t]

\* Membership of groups is managed at Cognito and reaches the system in tokens.
GroupChanges(u, g) ==
  /\ group' = [group EXCEPT ![u] = g]
  /\ UNCHANGED <<owner, user, open, limited, call, screen, failures, let_in, excused>>

\* A request: GET /auth/me, which AllowInactive lets through, or any other.
Send(t, op) ==
  /\ call[t] = NoCall
  /\ call' = [call EXCEPT ![t] = [NoCall EXCEPT !.pc = "find", !.op = op, !.group = group[Me(t)]]]
  /\ UNCHANGED <<owner, user, group, open, limited, screen, failures, let_in, excused>>

\* The page is loaded, or a tab that is not let in gets the focus again.
Load(t) == screen[t] \notin {"PENDING", "ACTIVE"} /\ Send(t, "me")

\* Any other request; the waiting screen makes none.
Use(t) == screen[t] # "PENDING" /\ Send(t, "any")

\* MUTANT of Poll: an answer that never came ends the polling.
Poll_UntilError(t) == failures = 0 /\ screen[t] = "PENDING" /\ Send(t, "me")

\* AuthGate: a tab that shows PENDING asks again every ten seconds.
Poll(t) == screen[t] = "PENDING" /\ Send(t, "me")

\* assertAccountUsable.
Usable(t, status) == status = "ACTIVE" \/ call[t].op = "me"

\* Where the guard goes on once it knows the row: the group approves a waiting
\* user, an unusable account is refused, the group's role is written when the
\* row has another one.
Known(t, row) ==
  LET waits == call[t].group # NoOne /\ row.status = "PENDING"
      syncs == call[t].group \notin {NoOne, row.role}
  IN  call' = [call EXCEPT ![t] =
        IF ~waits /\ ~Usable(t, row.status) THEN NoCall
        ELSE [call[t] EXCEPT !.seen = row,
                !.pc = IF waits THEN "activate" ELSE IF syncs THEN "sync" ELSE "handle"]]

FindUser(t) ==
  /\ call[t].pc = "find"
  /\ IF user[Me(t)] = NoUser THEN call' = [call EXCEPT ![t].pc = "new"] ELSE Known(t, user[Me(t)])
  /\ UNCHANGED <<owner, user, group, open, limited, screen, failures, let_in, excused>>

\* signupBlockedReason.
Blocked(u) == ~open \/ (limited /\ u \in Outsiders)

\* The first request of a user: the settings decide on the status ...
DecideSignup(t) ==
  /\ call[t].pc = "new"
  /\ call' = [call EXCEPT ![t] = [call[t] EXCEPT !.pc = "create",
       !.seen = [status |-> IF call[t].group # NoOne THEN "ACTIVE"
                            ELSE IF Blocked(Me(t)) THEN "REJECTED" ELSE "PENDING",
                 role |-> NoOne]]]
  /\ UNCHANGED <<owner, user, group, open, limited, screen, failures, let_in, excused>>

\* ... and the row is created; cognitoSub is unique, a second row is an error.
CreateUser(t) ==
  /\ call[t].pc = "create"
  /\ IF user[Me(t)] = NoUser
     THEN /\ user' = [user EXCEPT ![Me(t)] = call[t].seen]
          /\ let_in' = IF call[t].group # NoOne THEN let_in \cup {Me(t)} ELSE let_in
          /\ Known(t, call[t].seen)
     ELSE /\ call' = [call EXCEPT ![t] = NoCall]
          /\ UNCHANGED <<user, let_in>>
  /\ UNCHANGED <<owner, group, open, limited, screen, failures, excused>>

\* Whatever the row says by now, it becomes ACTIVE.
ActivateByGroup(t) ==
  LET row == [user[Me(t)] EXCEPT !.status = "ACTIVE"]
  IN  /\ call[t].pc = "activate"
      /\ user' = [user EXCEPT ![Me(t)] = row]
      /\ let_in' = let_in \cup {Me(t)}
      /\ Known(t, row)
      /\ UNCHANGED <<owner, group, open, limited, screen, failures, excused>>

\* syncRoleFromCognitoGroups.
SyncRole(t) ==
  /\ call[t].pc = "sync"
  /\ user' = [user EXCEPT ![Me(t)].role = call[t].group]
  /\ excused' = (excused \/ user[Me(t)].role = "admin")
  /\ call' = [call EXCEPT ![t].pc = "handle"]
  /\ UNCHANGED <<owner, group, open, limited, screen, failures, let_in>>

-----------------------------------------------------------------------------
\* GET /auth/me answers the status the guard has read.
AnswerMe(t) ==
  /\ call[t].pc = "handle" /\ call[t].op = "me"
  /\ screen' = [screen EXCEPT ![t] = call[t].seen.status]
  /\ call' = [call EXCEPT ![t] = NoCall]
  /\ UNCHANGED <<owner, user, group, open, limited, failures, let_in, excused>>

\* RolesGuard: the role of the group comes before the one of the row.
IsAdmin(t) ==
  "admin" = IF call[t].group # NoOne THEN call[t].group ELSE call[t].seen.role

\* Anybody but an admin is refused; who is let through may ask for nothing that
\* matters here.
Leave(t) ==
  /\ call[t].pc = "handle" /\ call[t].op = "any"
  /\ call' = [call EXCEPT ![t] = NoCall]
  /\ UNCHANGED <<owner, user, group, open, limited, screen, failures, let_in, excused>>

Deciding == {t \in Tabs : call[t].pc \in {"count", "write"}}

\* approve, reject, disable, enable, update: the reads and the checks.  To take
\* the role or the access of an active admin, the others are counted first.
Decide(t, op, u, role) ==
  LET row  == user[u]
      last == row = Admin /\ (op = "disable" \/ (op = "update" /\ role # "admin"))
  IN  /\ call[t].pc = "handle" /\ call[t].op = "any"
      /\ IsAdmin(t)
      /\ row # NoUser
      /\ \/ op = "approve" /\ row.status \in {"PENDING", "REJECTED"}
         \/ op = "reject"  /\ row.status = "PENDING"
         \/ op = "disable" /\ row.status = "ACTIVE" /\ u # Me(t)
         \/ op = "enable"  /\ row.status = "DISABLED" /\ row.role # NoOne
         \/ op = "update"
      /\ call' = [call EXCEPT ![t] = [NoCall EXCEPT !.op = op, !.to = u,
           !.role = IF op \in {"approve", "update"} THEN role ELSE NoOne,
           !.pc = IF last THEN "count" ELSE "write"]]
      /\ excused' = (excused \/ Deciding # {})
      /\ UNCHANGED <<owner, user, group, open, limited, screen, failures, let_in>>

\* MUTANT of CountAdmins: the one who is about to go is counted.
CountAdmins_WithTarget(t) ==
  /\ call[t].pc = "count"
  /\ call' = [call EXCEPT ![t] =
       IF \E u \in Users : user[u] = Admin THEN [call[t] EXCEPT !.pc = "write"] ELSE NoCall]
  /\ UNCHANGED <<owner, user, group, open, limited, screen, failures, let_in, excused>>

\* assertNotLastAdmin.
CountAdmins(t) ==
  /\ call[t].pc = "count"
  /\ call' = [call EXCEPT ![t] =
       IF \E u \in Users \ {call[t].to} : user[u] = Admin
       THEN [call[t] EXCEPT !.pc = "write"] ELSE NoCall]
  /\ UNCHANGED <<owner, user, group, open, limited, screen, failures, let_in, excused>>

\* MUTANT of Becomes: the word of another table.
Becomes_Declined ==
  [approve |-> "ACTIVE", reject |-> "DECLINED", disable |-> "DISABLED", enable |-> "ACTIVE"]

Becomes == [approve |-> "ACTIVE", reject |-> "REJECTED", disable |-> "DISABLED", enable |-> "ACTIVE"]

\* The write, whatever the row says by now.
WriteUser(t) ==
  LET u   == call[t].to
      row == user[u]
  IN  /\ call[t].pc = "write"
      /\ user' = [user EXCEPT ![u] =
           [status |-> IF call[t].op \in DOMAIN Becomes THEN Becomes[call[t].op] ELSE row.status,
            role   |-> IF call[t].op \in {"approve", "update"} THEN call[t].role ELSE row.role]]
      /\ let_in' = IF call[t].op = "approve" THEN let_in \cup {u} ELSE let_in
      /\ call' = [call EXCEPT ![t] = NoCall]
      /\ UNCHANGED <<owner, group, open, limited, screen, failures, excused>>

-----------------------------------------------------------------------------
\* SettingsService.updateAccess: the two settings are written one by one.
UpdateAccess(t, opens, limits) ==
  /\ call[t].pc = "handle" /\ call[t].op = "any"
  /\ IsAdmin(t)
  /\ call' = [call EXCEPT ![t] =
       [NoCall EXCEPT !.pc = "open", !.op = "settings", !.opens = opens, !.limits = limits]]
  /\ UNCHANGED <<owner, user, group, open, limited, screen, failures, let_in, excused>>

WriteOpen(t) ==
  /\ call[t].pc = "open"
  /\ open' = call[t].opens
  /\ call' = [call EXCEPT ![t].pc = "limit"]
  /\ UNCHANGED <<owner, user, group, limited, screen, failures, let_in, excused>>

WriteLimited(t) ==
  /\ call[t].pc = "limit"
  /\ limited' = call[t].limits
  /\ call' = [call EXCEPT ![t] = NoCall]
  /\ UNCHANGED <<owner, user, group, open, screen, failures, let_in, excused>>

\* A statement fails, the server dies or the answer is lost on its way.
Fail(t) ==
  /\ failures < MaxFailures
  /\ call[t] # NoCall
  /\ failures' = failures + 1
  /\ call' = [call EXCEPT ![t] = NoCall]
  /\ UNCHANGED <<owner, user, group, open, limited, screen, let_in, excused>>

\* A step of a request that is under way.
Proceed(t) ==
  \/ FindUser(t)
  \/ DecideSignup(t)
  \/ CreateUser(t)
  \/ ActivateByGroup(t)
  \/ SyncRole(t)
  \/ AnswerMe(t)
  \/ Leave(t)
  \/ CountAdmins(t)
  \/ WriteUser(t)
  \/ WriteOpen(t)
  \/ WriteLimited(t)

AccessNext ==
  \/ \E u \in Users : \E g \in Groups[u] \cup {NoOne} : GroupChanges(u, g)
  \/ \E t \in Tabs :
       \/ Load(t)
       \/ Use(t)
       \/ Poll(t)
       \/ Proceed(t)
       \/ \E op \in Ops, u \in Users, role \in RoleNames : Decide(t, op, u, role)
       \/ \E policy \in Policies : UpdateAccess(t, policy.open, policy.limited)
       \/ Fail(t)

\* The browser keeps polling and the server goes on with every request.
AccessFairness == \A t \in Tabs : WF_accessVars(Poll(t)) /\ WF_accessVars(Proceed(t))

AccessSpec == AccessInit /\ [][AccessNext]_accessVars

-----------------------------------------------------------------------------
(***************************************************************************)
(* Properties.                                                             *)
(***************************************************************************)

\* Whatever overlaps, an account is only ever used by somebody an admin has
\* approved or Cognito has put in a group: a sign-up waits
\* (cognito-auth.guard.ts:89-92).
NobodyWalksIn == \A u \in Users : user[u].status \in {"ACTIVE", "DISABLED"} => u \in let_in

\* "Locking every admin out would leave nobody able to approve anyone"
\* (users.service.ts:217): unless two decisions meet or a group takes the role
\* away, an active admin remains.
AloneAdminRemains == ~excused => \E u \in Users : user[u] = Admin

AdminsKeepTheDoor == NobodyWalksIn /\ AloneAdminRemains

\* "So the app opens by itself once an admin approves" (AccessScreens.tsx:41): a
\* tab does not show PENDING for good when its user is not.
GateOpens ==
  \A t \in Tabs : screen[t] = "PENDING" /\ user[Me(t)].status # "PENDING"
                  ~> screen[t] # "PENDING" \/ user[Me(t)].status = "PENDING"

=============================================================================
