--------------------------- MODULE AccountSession ---------------------------
(***************************************************************************)
(* The v2 session of one API key (Auth, src/application/auth.rs), shared   *)
(* by tasks that send requests, log in, log out and switch the account of  *)
(* the client (HttpClient::switch_account, src/application/http.rs).       *)
(*                                                                         *)
(* A v2 session is a token that IG serves on one account.  IG logs in on   *)
(* an account of its own choice; the client then moves the session to the  *)
(* configured one, and the client keeps the account it has selected, with  *)
(* the account's budget, apart from the session.                           *)
(*                                                                         *)
(* A step runs from one network call or write lock to the next: a request  *)
(* reads the session and the selected account in one step.  Abstracted:    *)
(* the CST and X-SECURITY-TOKEN pair is one token; pacing and retries of   *)
(* the session requests only delay them; requests are Standard ones.  An   *)
(* OAuth (v3) session is not modelled: it names no account at IG.          *)
(***************************************************************************)
EXTENDS Naturals

CONSTANTS
  Callers,      \* the tasks that share the client
  Accounts,     \* the accounts of the user
  Landing,      \* the account IG logs in on
  Configured,   \* credentials.account_id
  Unset,        \* an account_id that names none: empty, or DEFAULT_ACCOUNT_ID
  Targets,      \* the accounts callers switch to
  Tokens,       \* bound: session tokens that something refers to at a time
  None          \* None of an Option

Sessions == [token : Tokens, account : Accounts]

ASSUME SessionAssumption ==
  /\ Landing \in Accounts /\ Targets \subseteq Accounts
  /\ Configured \in Accounts \cup {Unset}
  /\ Tokens \subseteq Nat
  /\ None \notin Accounts \cup Tokens \cup Sessions \cup {Unset}
  /\ Unset \notin Accounts

\* "replay" is a request whose session IG rejected, "replayed" the same request
\* with the session refreshed.
Operations == {"none", "request", "replay", "replayed", "login", "switch", "logout"}

Labels == {"idle", "get", "login", "select", "put", "switched", "adopt", "send", "revoke"}

VARIABLES
  session,      \* the cached session of the Auth
  fresh,        \* it is not within its refresh margin
  served,       \* the account IG serves each token on, None once it is dead
  selected,     \* the account the client has selected, whose budget requests draw on
  pc,           \* what each caller waits for
  op,           \* what it does
  target,       \* the account it switches to
  logging_in,   \* it is in login(), past the point where the session was stored
  mine,         \* the session it works with
  new,          \* the token IG answered its switch with
  bucket,       \* the account whose budget its request draws on
  past          \* history: "overlapped" once two operations have; "relogged" when a
                \* login has replaced the session of a switched account

auth   == <<session, fresh>>
caller == <<op, target>>
vars   == <<auth, served, selected, pc, caller, logging_in, mine, new, bucket, past>>

\* After a login the client moves to the configured account only when one is
\* configured, and it is not the one the login landed on.
ShouldSwitchAccount == Configured # Unset /\ Landing # Configured

Usable == session # None /\ fresh

Quiet == \A c \in Callers : pc[c] = "idle"

Names(s, t) == s # None /\ s.token = t

Referred(t) == Names(session, t) \/ \E c \in Callers : new[c] = t \/ Names(mine[c], t)

\* IG issues a token that nothing refers to: which one does not matter.
Issued(t) == ~Referred(t) /\ \A other \in Tokens : ~Referred(other) => t <= other

\* What IG serves after a step; a token nothing refers to any more is forgotten.
Serve(accounts) ==
  served' = [t \in Tokens |-> IF Referred(t)' THEN accounts[t] ELSE None]

Goto(c, label) == pc' = [pc EXCEPT ![c] = label]

Cache(s) == session' = s /\ fresh' = (s # None)

\* The operation returns.
Finish(c) ==
  /\ Goto(c, "idle")
  /\ op' = [op EXCEPT ![c] = "none"]
  /\ target' = [target EXCEPT ![c] = None]
  /\ mine' = [mine EXCEPT ![c] = None]
  /\ bucket' = [bucket EXCEPT ![c] = None]

\* get_session or force_refresh has returned session s to the operation.
Resume(c, s) ==
  \/ /\ op[c] \in {"request", "replayed"}
     /\ Goto(c, "send")
     /\ mine' = [mine EXCEPT ![c] = s]
     /\ bucket' = [bucket EXCEPT ![c] = selected]
     /\ UNCHANGED caller
  \/ /\ op[c] = "replay"
     /\ Goto(c, "get")
     /\ op' = [op EXCEPT ![c] = "replayed"]
     /\ UNCHANGED <<target, mine, bucket>>
  \/ /\ op[c] = "switch"
     /\ s.account = target[c]
     /\ Goto(c, "adopt")
     /\ UNCHANGED <<caller, mine, bucket>>
  \/ /\ op[c] = "switch"
     /\ s.account # target[c]
     /\ Goto(c, "put")
     /\ mine' = [mine EXCEPT ![c] = s]
     /\ UNCHANGED <<caller, bucket>>
  \/ op[c] = "login" /\ Finish(c)

\* Mutants: a login that cannot select the account keeps its session; switch_account
\* names the account before IG has moved the session.
FailKeeping(c) ==
  /\ UNCHANGED auth
  /\ logging_in' = [logging_in EXCEPT ![c] = FALSE]
  /\ Finish(c)
FailNamed(c) ==
  /\ IF logging_in[c] THEN Cache(None)
     ELSE IF op[c] = "switch" /\ mine[c] # None
     THEN Cache([mine[c] EXCEPT !.account = target[c]])
     ELSE UNCHANGED auth
  /\ logging_in' = [logging_in EXCEPT ![c] = FALSE]
  /\ Finish(c)

\* An operation fails.  Within a login the stored session is cleared with it.
Fail(c) ==
  /\ IF logging_in[c] THEN Cache(None) ELSE UNCHANGED auth
  /\ logging_in' = [logging_in EXCEPT ![c] = FALSE]
  /\ Finish(c)
-----------------------------------------------------------------------------
Init ==
  /\ session = None /\ fresh = FALSE
  /\ served = [t \in Tokens |-> None]
  /\ selected = Configured
  /\ pc = [c \in Callers |-> "idle"]
  /\ op = [c \in Callers |-> "none"]
  /\ target = [c \in Callers |-> None]
  /\ logging_in = [c \in Callers |-> FALSE]
  /\ mine = [c \in Callers |-> None]
  /\ new = [c \in Callers |-> None]
  /\ bucket = [c \in Callers |-> None]
  /\ past = "clean"

Begin(c, operation, label) ==
  /\ pc[c] = "idle"
  /\ Goto(c, label)
  /\ op' = [op EXCEPT ![c] = operation]
  /\ past' = IF Quiet THEN past ELSE "overlapped"
  /\ UNCHANGED <<auth, served, selected, logging_in, new, bucket>>

Request(c) == Begin(c, "request", "get") /\ UNCHANGED <<target, mine>>

ForceRefresh(c) == Begin(c, "login", "login") /\ UNCHANGED <<target, mine>>

Switch(c, account) ==
  /\ Begin(c, "switch", "get")
  /\ target' = [target EXCEPT ![c] = account]
  /\ UNCHANGED mine

\* logout takes its snapshot; without a session there is nothing to revoke.
Logout(c) ==
  /\ session # None
  /\ Begin(c, "logout", "revoke")
  /\ mine' = [mine EXCEPT ![c] = session]
  /\ UNCHANGED target

\* get_session and refresh_token: a session in its refresh margin is replaced.
GetSession(c) ==
  /\ pc[c] = "get"
  /\ IF Usable
     THEN Resume(c, session)
     ELSE Goto(c, "login") /\ UNCHANGED <<caller, mine, bucket>>
  /\ UNCHANGED <<auth, selected, logging_in, new, past>>
  /\ Serve(served)

\* Mutant: login returns the session IG logged in on.
LoginUnselected(c) ==
  /\ pc[c] = "login"
  /\ UNCHANGED <<selected, new>>
  /\ \/ Fail(c) /\ Serve(served) /\ UNCHANGED past
     \/ \E t \in Tokens :
          /\ Issued(t)
          /\ Cache([token |-> t, account |-> Landing])
          /\ past' = IF past = "clean" /\ selected # Configured THEN "relogged" ELSE past
          /\ Resume(c, [token |-> t, account |-> Landing])
          /\ Serve([served EXCEPT ![t] = Landing])
          /\ UNCHANGED logging_in

\* POST /session, and the store of what it answers.
Login(c) ==
  /\ pc[c] = "login"
  /\ UNCHANGED <<selected, new>>
  /\ \/ Fail(c) /\ Serve(served) /\ UNCHANGED past
     \/ \E t \in Tokens :
          /\ Issued(t)
          /\ Cache([token |-> t, account |-> Landing])
          /\ past' = IF past = "clean" /\ selected # Configured THEN "relogged" ELSE past
          /\ IF ShouldSwitchAccount
             THEN /\ Goto(c, "select")
                  /\ logging_in' = [logging_in EXCEPT ![c] = TRUE]
                  /\ UNCHANGED <<caller, mine, bucket>>
             ELSE /\ Resume(c, [token |-> t, account |-> Landing])
                  /\ UNCHANGED logging_in
          /\ Serve([served EXCEPT ![t] = Landing])

\* login calls switch_account, which calls get_session: the session just stored,
\* the session another task has stored since, or a login within the login.
Select(c) ==
  /\ pc[c] = "select"
  /\ \/ /\ ~Usable
        /\ Goto(c, "login")
        /\ UNCHANGED <<caller, logging_in, mine, bucket>>
     \/ /\ Usable /\ session.account # Configured
        /\ Goto(c, "put")
        /\ mine' = [mine EXCEPT ![c] = session]
        /\ UNCHANGED <<caller, logging_in, bucket>>
     \/ /\ Usable /\ session.account = Configured
        /\ logging_in' = [logging_in EXCEPT ![c] = FALSE]
        /\ Resume(c, session)
  /\ UNCHANGED <<auth, selected, new, past>>
  /\ Serve(served)

\* The account the PUT asks for: a login's is the configured one.
Wanted(c) == IF logging_in[c] THEN Configured ELSE target[c]

\* Mutant: a token the answer does not repeat is dropped.
KeptNone(t, s) == {t, None}

\* apply_switch_headers: the new token, or the one before when the answer has none.
Kept(t, s) == {t, s.token}

\* Mutant: a PUT that IG refuses is sent again.
RefusedRetried(c) == UNCHANGED vars

\* IG refuses the PUT, or it never gets there.
Refused(c) == Fail(c) /\ UNCHANGED new /\ Serve(served)

\* PUT /session.  IG moves the session to the account under a token of its own and
\* the old token dies; the answer may be lost.
Put(c) ==
  /\ pc[c] = "put"
  /\ UNCHANGED <<selected, past>>
  /\ \/ /\ served[mine[c].token] # None
        /\ Goto(c, "switched")
        /\ mine' = [mine EXCEPT ![c] = None]
        /\ UNCHANGED <<auth, caller, logging_in, bucket>>
        /\ \E t \in Tokens :
             /\ Issued(t)
             /\ \E answer \in Kept(t, mine[c]) : new' = [new EXCEPT ![c] = answer]
             /\ Serve([served EXCEPT ![mine[c].token] = None, ![t] = Wanted(c)])
     \/ /\ served[mine[c].token] # None
        /\ Fail(c)
        /\ UNCHANGED new
        /\ Serve([served EXCEPT ![mine[c].token] = None])
     \/ Refused(c)

\* Mutant: the switch updates whatever session is cached.
SwitchedInPlace(c) ==
  LET s == [token   |-> IF session = None THEN new[c] ELSE session.token,
            account |-> Wanted(c)]
  IN /\ pc[c] = "switched"
     /\ Cache(s)
     /\ new' = [new EXCEPT ![c] = None]
     /\ IF logging_in[c]
        THEN Resume(c, s)
        ELSE Goto(c, "adopt") /\ UNCHANGED <<caller, mine, bucket>>
     /\ logging_in' = [logging_in EXCEPT ![c] = FALSE]
     /\ UNCHANGED <<selected, past>>
     /\ Serve(served)

\* The session switch_account stores: its snapshot with the tokens of the answer.
\* A login then returns it.
Switched(c) ==
  LET s == [token |-> new[c], account |-> Wanted(c)]
  IN /\ pc[c] = "switched"
     /\ Cache(s)
     /\ new' = [new EXCEPT ![c] = None]
     /\ IF logging_in[c]
        THEN Resume(c, s)
        ELSE Goto(c, "adopt") /\ UNCHANGED <<caller, mine, bucket>>
     /\ logging_in' = [logging_in EXCEPT ![c] = FALSE]
     /\ UNCHANGED <<selected, past>>
     /\ Serve(served)

\* HttpClient::switch_account: the selected account and its budget, under one lock.
Adopt(c) ==
  /\ pc[c] = "adopt"
  /\ selected' = target[c]
  /\ past' = IF past = "relogged" THEN "clean" ELSE past
  /\ Finish(c)
  /\ UNCHANGED <<auth, logging_in, new>>
  /\ Serve(served)

\* The request: a session that IG rejects is refreshed, once.
Send(c) ==
  /\ pc[c] = "send"
  /\ \/ served[mine[c].token] # None /\ Finish(c)
     \/ served[mine[c].token] = None /\ op[c] = "replayed" /\ Finish(c)
     \/ /\ served[mine[c].token] = None
        /\ op[c] = "request"
        /\ Goto(c, "login")
        /\ op' = [op EXCEPT ![c] = "replay"]
        /\ mine' = [mine EXCEPT ![c] = None]
        /\ bucket' = [bucket EXCEPT ![c] = None]
        /\ UNCHANGED target
  /\ UNCHANGED <<auth, selected, logging_in, new, past>>
  /\ Serve(served)

\* DELETE /session, which may fail; the cached session is cleared either way.
Revoke(c) ==
  /\ pc[c] = "revoke"
  /\ Cache(None)
  /\ Finish(c)
  /\ UNCHANGED <<selected, logging_in, new, past>>
  /\ \/ Serve([served EXCEPT ![mine[c].token] = None])
     \/ Serve(served)
-----------------------------------------------------------------------------
(* The environment.                                                        *)

\* The session enters its refresh margin.
Expire ==
  /\ Usable
  /\ fresh' = FALSE
  /\ UNCHANGED <<session, served, selected, pc, caller, logging_in, mine, new, bucket, past>>

\* IG ends the session: a login elsewhere, or its own decision.
Invalidate(t) ==
  /\ served[t] # None
  /\ served' = [served EXCEPT ![t] = None]
  /\ UNCHANGED <<auth, selected, pc, caller, logging_in, mine, new, bucket, past>>

Step(c) ==
  \/ GetSession(c) \/ Login(c) \/ Select(c) \/ Put(c) \/ Switched(c) \/ Adopt(c)
  \/ Send(c) \/ Revoke(c)

Next ==
  \/ \E c \in Callers :
       \/ Request(c) \/ ForceRefresh(c) \/ Logout(c) \/ Step(c)
       \/ \E account \in Targets : Switch(c, account)
  \/ Expire
  \/ \E t \in Tokens : Invalidate(t)

Spec == Init /\ [][Next]_vars

\* The runtime polls what can run.  IG answers, or the connection breaks: the code
\* itself bounds no network call.
FairSpec == Spec /\ \A c \in Callers : WF_vars(Step(c))
-----------------------------------------------------------------------------
(* Properties.                                                             *)

\* Every variable keeps its type: no caller is left with a label or a token of none
\* of its operations.
TypeOK ==
  /\ session \in Sessions \cup {None}
  /\ fresh \in BOOLEAN
  /\ served \in [Tokens -> Accounts \cup {None}]
  /\ selected \in Accounts \cup {Unset}
  /\ pc \in [Callers -> Labels]
  /\ op \in [Callers -> Operations]
  /\ target \in [Callers -> Accounts \cup {None}]
  /\ logging_in \in [Callers -> BOOLEAN]
  /\ mine \in [Callers -> Sessions \cup {None}]
  /\ new \in [Callers -> Tokens \cup {None}]
  /\ bucket \in [Callers -> Accounts \cup {Unset, None}]
  /\ past \in {"clean", "relogged", "overlapped"}

\* A session never lies about its account: as long as IG serves its token, it does so
\* on the account the session names, in the cache and in every request under way,
\* however logins, switches and logouts overlap.
Honest(s) == s # None => served[s.token] \in {s.account, None}

SessionTellsAccount == Honest(session) /\ \A c \in Callers : Honest(mine[c])

\* The account a client runs on that has selected a: without a choice, the landing one.
Account(a) == IF a = Unset THEN Landing ELSE a

\* The accounts somebody asked for.
Chosen == {Account(Configured)} \cup Targets

\* The account IG logs in on is cached only while a login is under way: no failure and
\* no overlap leaves it behind for later requests.
NoLandingLeft ==
  session # None /\ session.account \notin Chosen => \E c \in Callers : logging_in[c]

\* A request goes out on an account nobody asked for only if it finds, in the cache, the
\* session that another task's unfinished login has landed on.  Whatever login it needed
\* itself, on its way or for the replay after a 401, no request is sent on the account
\* that login landed on, and none on what a failed one left.
LandingOnlyMeanwhile ==
  [][\A c \in Callers :
       pc[c] # "send" /\ pc'[c] = "send" /\ mine'[c].account \notin Chosen
         => pc[c] = "get" /\ \E d \in Callers \ {c} : logging_in[d]]_vars

\* The session and the selected account move together or not at all: operations that
\* do not overlap keep them equal, through failed and unanswered switches, until a
\* login after a switch.
AccountInForce ==
  past = "clean" /\ Quiet /\ session # None => session.account = Account(selected)

\* Every operation returns, unless sessions keep being lost to logouts, failed
\* selections and expiry: logins within logins, and refreshes of rejected sessions,
\* end.
OperationReturns ==
  \/ []<><<Usable /\ ~Usable'>>_vars
  \/ \A c \in Callers : pc[c] # "idle" ~> pc[c] = "idle"

\* The doc of HttpClient::switch_account: the account and its budget move together and
\* atomically, a concurrent request sees the old pair or the new one, never a mix.
NeverAMix ==
  \A c \in Callers :
    pc[c] = "send" => served[mine[c].token] \in {Account(bucket[c]), None}

=============================================================================
