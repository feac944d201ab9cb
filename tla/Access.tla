--------------------------------- MODULE Access ---------------------------------
(***************************************************************************)
(* What a process of the server knows of one user: the caches of the        *)
(* profile and the branches that every request is checked against           *)
(* (src/src/services/user-context.service.js, middleware/auth.js), the one  *)
(* of sign-in (src/src/modules/auth/auth.service.js), and the handlers      *)
(* that make and change users (src/src/modules/users/users.service.js).     *)
(*                                                                          *)
(* A cache is filled by a load that whoever comes meanwhile joins; a load   *)
(* asks, is answered by the table and stores, and an invalidation may come  *)
(* between any two of these.  The branches of a user are deleted and        *)
(* inserted again, the caches are emptied last.                             *)
(***************************************************************************)
EXTENDS Naturals, FiniteSets

CONSTANTS
    Call, NoCall,
    Branch,
    MaxWrites     \* bound: changes of the rows

VARIABLES
    login,        \* auth.users has the user
    user,         \* user_profiles
    assigned,     \* branch_staff_assignments
    handoff,      \* credential_handoffs: a temporary password is waiting
    cache,        \* userProfileCache, branchAssignmentsCache, signInProfileCache
    flying,       \* ...InFlight: whose load the next one joins
    loads,        \* the loads of each call; dropped: an invalidation found it in flight
    late,         \* history: keys whose entry comes from such a load
    unannounced,  \* history: keys whose row was changed with no invalidation to follow
    calls,
    writes,
    wrongly,      \* history: a request was let in, or a sign-in made, against the rows
    mixed         \* history: a change overlapped something, failed or came from elsewhere

vars == << login, user, assigned, handoff, cache, flying, loads, late, unannounced, calls, writes,
           wrongly, mixed >>

Keys == {"profile", "branches", "signIn"}
Context == {"profile", "branches"}
Row == [there : BOOLEAN, active : BOOLEAN, configured : BOOLEAN, temp : BOOLEAN]
NoAccount == [there |-> FALSE, active |-> FALSE, configured |-> FALSE, temp |-> FALSE]
\* Values are sets of at most one, so that "none" is {}.
Value(k) == {{}} \cup {{v} : v \in IF k = "branches" THEN SUBSET Branch ELSE Row}

NoLoad == [at |-> "none", value |-> {}, dropped |-> FALSE]
Idle == [ pc |-> "idle", open |-> FALSE, patch |-> {}, got |-> [k \in Keys |-> {}],
          waits |-> [k \in Keys |-> NoCall] ]

Reader == {"context", "signIn"}
Writer(c) == calls[c].pc \notin Reader \cup {"idle"}
Busy(c) == calls[c].pc # "idle" \/ \E k \in Keys : loads[k][c].at # "none"

rows == <<login, user, assigned, handoff, writes>>
memory == <<cache, flying, loads, late, unannounced>>

Goto(c, pc) == calls' = [calls EXCEPT ![c].pc = pc]
Return(c) == calls' = [calls EXCEPT ![c] = Idle]
Write == writes < MaxWrites /\ writes' = writes + 1

Init ==
    /\ login = FALSE /\ user = NoAccount /\ assigned = {} /\ handoff = FALSE
    /\ cache = [k \in Keys |-> {}] /\ flying = [k \in Keys |-> NoCall]
    /\ loads = [k \in Keys |-> [c \in Call |-> NoLoad]]
    /\ calls = [c \in Call |-> Idle]
    /\ late = {} /\ unannounced = {}
    /\ writes = 0 /\ wrongly = FALSE /\ mixed = FALSE
----------------------------------------------------------------------------
(* Loading.                                                                 *)

\* A profile that is not there is cached as null, which reads as not cached.
GetCached(k) == {v \in cache[k] : k = "branches" \/ v.there}

\* What is cached is had at once; for the rest the call joins a load or starts one.  All of
\* it happens before the first await.
LoadOnce(c, keys, call) ==
    LET waits == [k \in Keys |->
            IF k \notin keys \/ GetCached(k) # {} THEN NoCall
            ELSE IF flying[k] # NoCall THEN flying[k] ELSE c]
    IN
    /\ ~Busy(c)
    /\ calls' = [calls EXCEPT ![c] = [call EXCEPT !.waits = waits,
                    !.got = [k \in Keys |-> IF k \in keys THEN GetCached(k) ELSE {}]]]
    /\ flying' = [k \in Keys |-> IF waits[k] = c THEN c ELSE flying[k]]
    /\ loads' = [k \in Keys |->
           IF waits[k] = c THEN [loads[k] EXCEPT ![c].at = "asked"] ELSE loads[k]]
    /\ mixed' = (mixed \/ \E d \in Call : Writer(d))
    /\ UNCHANGED <<rows, cache, late, unannounced, wrongly>>

Stored(k) == {IF k = "branches" THEN assigned ELSE user}

AnswerLoad(k, o) ==
    /\ loads[k][o].at = "asked"
    /\ loads' = [loads EXCEPT ![k][o].at = "answered", ![k][o].value = Stored(k)]
    /\ UNCHANGED <<rows, cache, flying, late, unannounced, calls, wrongly, mixed>>

Joined(c, k, o) == calls[c].waits[k] = o

\* The entry of the load is dropped whoever has made it.
SetCached(k, o) ==
    LET value == loads[k][o].value IN
    /\ loads[k][o].at = "answered"
    /\ cache' = [cache EXCEPT ![k] = value]
    /\ late' = IF loads[k][o].dropped THEN late \cup {k} ELSE late \ {k}
    /\ flying' = [flying EXCEPT ![k] = NoCall]
    /\ loads' = [loads EXCEPT ![k][o] = NoLoad]
    /\ calls' = [c \in Call |-> IF Joined(c, k, o)
           THEN [calls[c] EXCEPT !.got[k] = value, !.waits[k] = NoCall] ELSE calls[c]]
    /\ UNCHANGED <<rows, unannounced, wrongly, mixed>>

LoadFails(k, o) ==
    /\ loads[k][o].at = "asked"
    /\ flying' = [flying EXCEPT ![k] = NoCall]
    /\ loads' = [loads EXCEPT ![k][o] = NoLoad]
    /\ calls' = [c \in Call |-> IF Joined(c, k, o) THEN Idle ELSE calls[c]]
    /\ UNCHANGED <<rows, cache, late, unannounced, wrongly, mixed>>

CacheExpires(k) ==
    /\ cache[k] # {}
    /\ cache' = [cache EXCEPT ![k] = {}]
    /\ UNCHANGED <<rows, flying, loads, late, unannounced, calls, wrongly, mixed>>

Forget(keys) ==
    /\ cache' = [k \in Keys |-> IF k \in keys THEN {} ELSE cache[k]]
    /\ flying' = [k \in Keys |-> IF k \in keys THEN NoCall ELSE flying[k]]
    /\ loads' = [k \in Keys |-> [c \in Call |->
           [loads[k][c] EXCEPT !.dropped = @ \/ (k \in keys /\ loads[k][c].at # "none")]]]
    /\ unannounced' = unannounced \ keys
    /\ UNCHANGED late
----------------------------------------------------------------------------
(* Reading.                                                                 *)

\* open: one of the paths that are served before the second factor is set up.
Authenticate(c, open) == LoadOnce(c, Context, [Idle EXCEPT !.pc = "context", !.open = open])

AuthenticatePassword(c) ==
    /\ login
    /\ LoadOnce(c, {"signIn"}, [Idle EXCEPT !.pc = "signIn"])

Complete(c, keys) == \A k \in keys : calls[c].got[k] # {}
Serves(row, open) == row.there /\ row.active /\ (row.configured \/ open)

Admit(c) ==
    /\ calls[c].pc = "context" /\ Complete(c, Context)
    /\ \E row \in calls[c].got["profile"] : wrongly' =
          (wrongly \/ (Serves(row, calls[c].open) /\ ~( /\ Serves(user, calls[c].open)
                                                        /\ calls[c].got["branches"] = {assigned} )))
    /\ Return(c)
    /\ UNCHANGED <<rows, memory, mixed>>

\* The second factor is asked for when the profile that was read has one.
SignIn(c) ==
    /\ calls[c].pc = "signIn" /\ Complete(c, {"signIn"})
    /\ \E row \in calls[c].got["signIn"] :
          wrongly' = (wrongly \/ (row.there /\ row.configured # user.configured))
    /\ Return(c)
    /\ UNCHANGED <<rows, memory, mixed>>
----------------------------------------------------------------------------
(* Making and changing users.                                               *)

Enter(c, call) ==
    /\ ~Busy(c)
    /\ calls' = [calls EXCEPT ![c] = call]
    /\ mixed' = (mixed \/ \E d \in Call : Busy(d))
    /\ UNCHANGED <<rows, memory, wrongly>>

Step(c, from, pc) == calls[c].pc = from /\ Goto(c, pc)

\* open: by a message to the user, without a password to hand over.
InviteUser(c, branches, open) ==
    Enter(c, [Idle EXCEPT !.pc = "createLogin", !.open = open, !.patch = {branches}])
CreateUser(c) == \E branches \in SUBSET Branch, open \in BOOLEAN : InviteUser(c, branches, open)
BootstrapSuperAdmin(c) == \E b \in Branch, open \in BOOLEAN : InviteUser(c, {b}, open)

CreateLogin(c) ==
    /\ calls[c].pc = "createLogin"
    /\ IF login THEN Return(c) /\ UNCHANGED login
       ELSE Goto(c, "upsertProfile") /\ login' = TRUE
    /\ UNCHANGED <<user, assigned, handoff, writes, memory, wrongly, mixed>>

UpsertProfile(c) ==
    /\ Step(c, "upsertProfile", "ensureBranches")
    /\ user' = [there |-> TRUE, active |-> TRUE, configured |-> FALSE, temp |-> ~calls[c].open]
    /\ UNCHANGED <<login, assigned, handoff, writes, memory, wrongly, mixed>>

EnsureBranchAssignments(c) ==
    /\ Step(c, "ensureBranches", "forgetAll")
    /\ assigned' = assigned \cup UNION calls[c].patch
    /\ UNCHANGED <<login, user, handoff, writes, memory, wrongly, mixed>>

\* The end of an invitation, and of every change of the second factor.
ForgetAll(c) ==
    /\ calls[c].pc = "forgetAll"
    /\ Forget(Keys)
    /\ IF calls[c].patch # {} /\ ~calls[c].open THEN Goto(c, "saveHandoff") ELSE Return(c)
    /\ UNCHANGED <<rows, wrongly, mixed>>

SaveCredentialHandoff(c) ==
    /\ calls[c].pc = "saveHandoff"
    /\ handoff' = TRUE
    /\ Return(c)
    /\ UNCHANGED <<login, user, assigned, writes, memory, wrongly, mixed>>

\* A patch of the profile, of the branches, or of both.
UpdateUser(c, patch) == user.there /\ Enter(c, [Idle EXCEPT !.pc = "update", !.patch = patch])

WriteUser(c) ==
    /\ calls[c].pc = "update" /\ Write
    /\ user' \in {user, [user EXCEPT !.active = ~@]}
    /\ Goto(c, IF calls[c].patch = {} THEN "audit" ELSE "unassign")
    /\ UNCHANGED <<login, assigned, handoff, memory, wrongly, mixed>>

DeleteAssignments(c) ==
    /\ Step(c, "unassign", IF calls[c].patch = {{}} THEN "audit" ELSE "assign")
    /\ assigned' = {}
    /\ UNCHANGED <<login, user, handoff, writes, memory, wrongly, mixed>>

\* An assignment that is there, from an update that overlapped, is refused by the unique index.
InsertAssignments(c) ==
    /\ calls[c].pc = "assign"
    /\ IF assigned \cap UNION calls[c].patch # {}
       THEN Return(c) /\ UNCHANGED assigned /\ unannounced' = unannounced \cup Context
       ELSE /\ assigned' = assigned \cup UNION calls[c].patch
            /\ Goto(c, "audit") /\ UNCHANGED unannounced
    /\ UNCHANGED <<login, user, handoff, writes, cache, flying, loads, late, wrongly, mixed>>

\* An update writes its audit record first.
InvalidateUserContextCache(c) ==
    /\ calls[c].pc \in {"audit", "forgetContext"}
    /\ Forget(Context)
    /\ Return(c)
    /\ UNCHANGED <<rows, wrongly, mixed>>

MarkPasswordChanged(c) == user.there /\ user.active /\ Enter(c, [Idle EXCEPT !.pc = "changed"])

AcknowledgePassword(c) ==
    /\ Step(c, "changed", "clearHandoff") /\ Write
    /\ user' = [user EXCEPT !.temp = FALSE]
    /\ UNCHANGED <<login, assigned, handoff, memory, wrongly, mixed>>

ClearCredentialByUser(c) ==
    /\ Step(c, "clearHandoff", "forgetContext")
    /\ handoff' = FALSE
    /\ UNCHANGED <<login, user, assigned, writes, memory, wrongly, mixed>>

ConfigureTwoFactor(c) == user.there /\ Enter(c, [Idle EXCEPT !.pc = "configure"])

UpdateTwoFactorProfile(c) ==
    /\ Step(c, "configure", "forgetAll") /\ Write
    /\ user' = [user EXCEPT !.configured = ~@]
    /\ UNCHANGED <<login, assigned, handoff, memory, wrongly, mixed>>

\* Another process changes the rows and empties caches of its own.
UpdateElsewhere ==
    /\ user.there /\ Write
    /\ \/ user' = [user EXCEPT !.active = ~@] /\ UNCHANGED assigned
       \/ assigned' \in SUBSET Branch /\ UNCHANGED user
    /\ mixed' = TRUE /\ unannounced' = unannounced \cup Context
    /\ UNCHANGED <<login, handoff, cache, flying, loads, late, calls, wrongly>>

\* A change that has written a row and has yet to empty the caches.
ToForget(c) == calls[c].pc \in
    {"ensureBranches", "unassign", "assign", "audit", "clearHandoff", "forgetContext", "forgetAll"}

Fail(c) ==
    /\ Writer(c) /\ calls[c].pc \notin {"forgetContext", "forgetAll"}
    /\ Return(c) /\ mixed' = TRUE
    /\ unannounced' = unannounced \cup (IF ToForget(c) THEN Context ELSE {})
    /\ UNCHANGED <<rows, cache, flying, loads, late, wrongly>>

Next ==
    \/ \E c \in Call :
          \/ \E open \in BOOLEAN : Authenticate(c, open)
          \/ AuthenticatePassword(c) \/ Admit(c) \/ SignIn(c)
          \/ CreateUser(c) \/ BootstrapSuperAdmin(c) \/ CreateLogin(c) \/ UpsertProfile(c)
          \/ EnsureBranchAssignments(c) \/ ForgetAll(c) \/ SaveCredentialHandoff(c)
          \/ \E patch \in Value("branches") : UpdateUser(c, patch)
          \/ WriteUser(c) \/ DeleteAssignments(c) \/ InsertAssignments(c)
          \/ InvalidateUserContextCache(c) \/ MarkPasswordChanged(c) \/ AcknowledgePassword(c)
          \/ ClearCredentialByUser(c) \/ ConfigureTwoFactor(c) \/ UpdateTwoFactorProfile(c)
          \/ Fail(c)
          \/ \E k \in Keys : AnswerLoad(k, c) \/ SetCached(k, c) \/ LoadFails(k, c)
    \/ \E k \in Keys : CacheExpires(k)
    \/ UpdateElsewhere

Spec == Init /\ [][Next]_vars
----------------------------------------------------------------------------
(* Properties.                                                              *)

TypeOK ==
    /\ login \in BOOLEAN /\ user \in Row /\ assigned \subseteq Branch /\ handoff \in BOOLEAN
    /\ \A k \in Keys :
          /\ cache[k] \in Value(k) /\ flying[k] \in Call \cup {NoCall}
          /\ \A c \in Call :
                /\ loads[k][c].at \in {"none", "asked", "answered"}
                /\ loads[k][c].value \in Value(k) /\ loads[k][c].dropped \in BOOLEAN
                /\ calls[c].got[k] \in Value(k) /\ calls[c].waits[k] \in Call \cup {NoCall}
    /\ late \subseteq Keys /\ unannounced \subseteq Context
    /\ writes \in 0..MaxWrites /\ wrongly \in BOOLEAN /\ mixed \in BOOLEAN

\* Once a change has emptied the caches, what they hold of its rows is current, and so is
\* what a load brings that the next request may join: except for the entry of a load that
\* was in flight when they were emptied, and for changes that fail before, or are made by
\* another process.
FollowsRows(k) ==
    \/ k \in unannounced
    \/ \E c \in Call : ToForget(c)
    \/ /\ k \in late \/ cache[k] \subseteq Stored(k)
       /\ \A c \in Call :
             loads[k][c].at = "answered" /\ (flying[k] = c \/ ~loads[k][c].dropped) =>
                 loads[k][c].value = Stored(k)

\* Nobody waits for, or is sent to, a load that nobody makes, however loads are joined,
\* invalidated and lost; what is cached of a user follows the rows (user-context.service);
\* a profile has its login, branches and a waiting password a profile.
AccessAgrees ==
    /\ \A k \in Keys :
          /\ flying[k] # NoCall => loads[k][flying[k]].at # "none"
          /\ \A c \in Call : LET o == calls[c].waits[k] IN o # NoCall => loads[k][o].at # "none"
    /\ \A k \in Context : FollowsRows(k)
    /\ user.there => login
    /\ (handoff \/ assigned # {}) => user.there

\* As long as changes overlap nothing, do not fail and come from this process, requests are
\* let in and second factors are asked for as the rows say, between changes the caches hold
\* the rows, and a waiting password is still to be changed.
SerialAccess ==
    ~mixed =>
        /\ ~wrongly
        /\ (\A c \in Call : ~Writer(c)) =>
              /\ cache["profile"] \subseteq {user} /\ cache["branches"] \subseteq {assigned}
              /\ \A row \in cache["signIn"] :
                    row.there = user.there /\ row.configured = user.configured
              /\ handoff => user.temp
=============================================================================
