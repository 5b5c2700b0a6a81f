------------------------------ MODULE Session -------------------------------
(***************************************************************************)
(* Accounts and sessions: the /auth routes over the :Usuario nodes, and    *)
(* the dashboard's client of them (api.client.ts, auth.store.ts and the    *)
(* forms of Login, Register and Settings), in tabs that share one          *)
(* localStorage.                                                           *)
(*                                                                         *)
(* An action is one statement against the graph, or one callback of a tab  *)
(* with all it does before it awaits again.  "query" stands for every      *)
(* protected request whose answer is shown and not stored here.  Names,    *)
(* which are claims like the e-mail but carry no rule, are left out.       *)
(* Authentication is required (isAuthRequired).                            *)
(***************************************************************************)
EXTENDS Naturals, FiniteSets

CONSTANTS User,      \* ids of accounts
          Known,     \* the accounts there are at first
          Email,
          Senha,     \* passwords
          Tab,
          Call,      \* slots for requests of the tabs
          None,
          Life,      \* AUTH_JWT_EXPIRES_IN
          Grace,     \* REFRESH_GRACE_MS
          MaxClock,  \* bound of the clock
          MaxCalls   \* bound of the requests the users start

ASSUME SessionAssumption ==
  /\ {Life, Grace, MaxClock, MaxCalls} \subseteq Nat
  /\ Life > 0
  /\ Known \in [User -> [email : Email, senha : Senha] \cup {None}]
  /\ \A u, v \in User :
       Known[u] # None /\ Known[v] # None /\ Known[u].email = Known[v].email => u = v
  /\ IsFiniteSet(User) /\ IsFiniteSet(Call)
  /\ None \notin User \cup Email \cup Tab \cup [email : Email, senha : Senha]
  /\ None \notin [sub : User, email : Email, exp : Nat]

VARIABLES usuarios,  \* the :Usuario nodes
          clock,
          token,     \* nfp_token in localStorage
          store,     \* the account each tab shows
          leaving,   \* tabs that were sent to /login
          calls,     \* the requests in flight
          made,      \* requests started so far
          raced,     \* e-mails two callers found free at once
          overtaken  \* a token was signed or read while the claims changed

vars == <<usuarios, clock, token, store, leaving, calls, made, raced, overtaken>>

Token == [sub : User, email : Email, exp : Nat]
Public == {"login", "register"}
Kind == Public \cup {"profile", "password", "query"}
Step == {"sent", "checked", "missed", "answered", "refreshing", "renewed", "denied", "throttled"}

Flight == [kind : Kind, tab : Tab \cup {None}, step : Step, token : Token \cup {None},
           retried : BOOLEAN, email : Email \cup {None}, senha : Senha \cup {None},
           nova : Senha \cup {None}, code : {0, 200, 401, 409},
           fresh : Token \cup {None}, created : BOOLEAN]

Accounts == {u \in User : usuarios[u] # None}

Idle == [step |-> "idle"]
InFlight(c) == calls[c].step # "idle"

TypeOK ==
  /\ usuarios \in [User -> [email : Email, senha : Senha] \cup {None}]
  /\ clock \in 0..MaxClock
  /\ token \in Token \cup {None}
  /\ store \in [Tab -> [sub : User, email : Email] \cup {None}]
  /\ leaving \subseteq Tab
  /\ made \in 0..MaxCalls
  /\ raced \subseteq Email
  /\ overtaken \in BOOLEAN
  /\ calls \in [Call -> Flight \cup {Idle}]

ShownBy(t) == IF t = None THEN None ELSE [sub |-> t.sub, email |-> t.email]

\* The tabs are open, signed out or on a session that has just expired.
Init ==
  /\ usuarios = Known
  /\ clock = 0
  /\ token \in {None} \cup {[sub |-> u, email |-> Known[u].email, exp |-> 0] : u \in Accounts}
  /\ store = [t \in Tab |-> ShownBy(token)]
  /\ leaving = {}
  /\ calls = [c \in Call |-> Idle]
  /\ made = 0
  /\ raced = {}
  /\ overtaken = FALSE

-----------------------------------------------------------------------------
(* Tokens *)

Sign(u, email) == [sub |-> u, email |-> email, exp |-> clock + Life]

\* authenticate: jwtVerify
Valid(t) == t # None /\ clock < t.exp

\* Mutant of Refreshable: an expired token is refused, without tolerance.
RefreshableUnexpired(t) == clock < t.exp

Refreshable(t) == clock <= t.exp + Grace

Holders(email) == {u \in Accounts : usuarios[u].email = email}

-----------------------------------------------------------------------------
(* The API.  A call is answered with a code and, for a session, a token.   *)

Answer(c, code, fresh) ==
  calls' = [calls EXCEPT ![c].step = "answered", ![c].code = code, ![c].fresh = fresh]

Advance(c, step) == calls' = [calls EXCEPT ![c].step = step]

Arrived(c, kind) ==
  /\ calls[c].step = "sent"
  /\ calls[c].kind = kind
  /\ kind \notin Public => Valid(calls[c].token)

\* Another caller has found the e-mail of c free and has not written yet.
Rivals(c) ==
  {d \in Call \ {c} : /\ calls[d].step \in {"checked", "missed"}
                      /\ calls[d].kind \in {"register", "profile"}
                      /\ calls[d].email = calls[c].email}

FoundFree(c) ==
  /\ Advance(c, "checked")
  /\ raced' = raced \cup {e \in Email : e = calls[c].email /\ Rivals(c) # {}}

Unauthorized(c) ==
  /\ calls[c].step = "sent"
  /\ calls[c].kind \notin Public
  /\ ~Valid(calls[c].token)
  /\ Answer(c, 401, None)
  /\ UNCHANGED <<usuarios, clock, token, store, leaving, made, raced, overtaken>>

Query(c) ==
  /\ Arrived(c, "query")
  /\ Answer(c, 200, None)
  /\ UNCHANGED <<usuarios, clock, token, store, leaving, made, raced, overtaken>>

Login(c) ==
  /\ Arrived(c, "login")
  /\ \/ \E u \in Holders(calls[c].email) :
          IF usuarios[u].senha = calls[c].senha
            THEN Answer(c, 200, Sign(u, calls[c].email))
            ELSE Answer(c, 401, None)
     \/ Holders(calls[c].email) = {} /\ Answer(c, 401, None)
  /\ UNCHANGED <<usuarios, clock, token, store, leaving, made, raced, overtaken>>

\* Mutant of RegisterLookup: left to the MERGE of createUser.
RegisterWithoutLookup(c) ==
  /\ Arrived(c, "register")
  /\ FoundFree(c)
  /\ UNCHANGED <<usuarios, clock, token, store, leaving, made, overtaken>>

RegisterLookup(c) ==
  /\ Arrived(c, "register")
  /\ IF Holders(calls[c].email) # {}
       THEN Answer(c, 409, None) /\ UNCHANGED raced
       ELSE FoundFree(c)
  /\ UNCHANGED <<usuarios, clock, token, store, leaving, made, overtaken>>

\* createUser: MERGE matches ...
MergeMatch(c) ==
  /\ calls[c].step = "checked"
  /\ calls[c].kind = "register"
  /\ \/ \E u \in Holders(calls[c].email) : Answer(c, 200, Sign(u, calls[c].email))
     \/ Holders(calls[c].email) = {} /\ Advance(c, "missed")
  /\ UNCHANGED <<usuarios, clock, token, store, leaving, made, raced, overtaken>>

\* ... and creates; no constraint on the e-mail makes the two one step.
MergeCreate(c) ==
  /\ calls[c].step = "missed"
  /\ LET u == CHOOSE v \in User : usuarios[v] = None
     IN  /\ usuarios' = [usuarios EXCEPT ![u] = [email |-> calls[c].email, senha |-> calls[c].senha]]
         /\ calls' = [calls EXCEPT ![c].step = "answered", ![c].code = 200,
                                   ![c].fresh = Sign(u, calls[c].email), ![c].created = TRUE]
  /\ UNCHANGED <<clock, token, store, leaving, made, raced, overtaken>>

UpdateProfileLookup(c) ==
  /\ Arrived(c, "profile")
  /\ IF Holders(calls[c].email) \ {calls[c].token.sub} # {}
       THEN Answer(c, 409, None) /\ UNCHANGED raced
       ELSE FoundFree(c)
  /\ UNCHANGED <<usuarios, clock, token, store, leaving, made, overtaken>>

\* Calls but c that will yet store a token of account u.
Carriers(c, u) ==
  {d \in Call \ {c} :
     \/ calls[d].step = "refreshing" /\ calls[d].token.sub = u
     \/ calls[d].step \in {"answered", "renewed"} /\ calls[d].fresh # None /\ calls[d].fresh.sub = u}

WriteProfile(c, claim) ==
  LET u == calls[c].token.sub IN
  /\ calls[c].step = "checked"
  /\ calls[c].kind = "profile"
  /\ usuarios' = [usuarios EXCEPT ![u].email = calls[c].email]
  /\ Answer(c, 200, Sign(u, claim))
  /\ overtaken' = (overtaken \/ calls[c].tab = None \/ Carriers(c, u) # {})
  /\ UNCHANGED <<clock, token, store, leaving, made, raced>>

\* Mutant of UpdateProfile: the claims of the request are signed again.
UpdateProfileOldClaims(c) == WriteProfile(c, calls[c].token.email)

UpdateProfile(c) == WriteProfile(c, calls[c].email)

UpdatePasswordLookup(c) ==
  /\ Arrived(c, "password")
  /\ IF usuarios[calls[c].token.sub].senha = calls[c].senha
       THEN Advance(c, "checked")
       ELSE Answer(c, 401, None)
  /\ UNCHANGED <<usuarios, clock, token, store, leaving, made, raced, overtaken>>

UpdatePassword(c) ==
  /\ calls[c].step = "checked"
  /\ calls[c].kind = "password"
  /\ usuarios' = [usuarios EXCEPT ![calls[c].token.sub].senha = calls[c].nova]
  /\ Answer(c, 200, None)
  /\ UNCHANGED <<clock, token, store, leaving, made, raced, overtaken>>

\* /auth/refresh signs the claims of the token again and asks no graph.
Refresh(c) ==
  /\ calls[c].step = "refreshing"
  /\ LET t == calls[c].token IN
       IF Refreshable(t)
         THEN calls' = [calls EXCEPT ![c].step = "renewed", ![c].fresh = Sign(t.sub, t.email)]
         ELSE Advance(c, "denied")
  /\ UNCHANGED <<usuarios, clock, token, store, leaving, made, raced, overtaken>>

\* The limit of requests, or a fault, refuses a refresh of any token.
Throttle(c) ==
  /\ calls[c].step = "refreshing"
  /\ Advance(c, "throttled")
  /\ UNCHANGED <<usuarios, clock, token, store, leaving, made, raced, overtaken>>

Server(c) ==
  \/ Unauthorized(c) \/ Query(c) \/ Login(c)
  \/ RegisterLookup(c) \/ MergeMatch(c) \/ MergeCreate(c)
  \/ UpdateProfileLookup(c) \/ UpdateProfile(c)
  \/ UpdatePasswordLookup(c) \/ UpdatePassword(c)
  \/ Refresh(c)

-----------------------------------------------------------------------------
(* The tabs *)

Mine(t) == {c \in Call : InFlight(c) /\ calls[c].tab = t}

\* apiFetch: the token is the one localStorage holds now.
Open(t, kind, email, senha, nova) ==
  /\ \E c \in Call : ~InFlight(c)
  /\ made < MaxCalls
  /\ t \notin leaving
  /\ calls' = [calls EXCEPT ![CHOOSE c \in Call : ~InFlight(c)] =
       [kind |-> kind, tab |-> t, step |-> "sent", token |-> token, retried |-> FALSE,
        email |-> email, senha |-> senha, nova |-> nova,
        code |-> 0, fresh |-> None, created |-> FALSE]]
  /\ made' = made + 1
  /\ UNCHANGED <<usuarios, clock, token, store, leaving, raced, overtaken>>

\* /login and /register are pages of their own; one form, one request.
SubmitLogin(t) ==
  /\ Mine(t) = {}
  /\ \E e \in Email, s \in Senha : Open(t, "login", e, s, None)

\* An id for each registration in flight, so that User bounds the accounts.
SubmitRegister(t) ==
  /\ Mine(t) = {}
  /\ Cardinality(User \ Accounts) > Cardinality({d \in Call : InFlight(d) /\ calls[d].kind = "register"})
  /\ \E e \in Email, s \in Senha : Open(t, "register", e, s, None)

\* The other pages are behind the guard of the router.
InApp(t) == store[t] # None /\ \A c \in Mine(t) : calls[c].kind \notin Public

Browse(t) == InApp(t) /\ Open(t, "query", None, None, None)

SalvarPerfil(t) ==
  /\ InApp(t)
  /\ \A d \in Mine(t) : calls[d].kind # "profile"
  /\ \E e \in Email : Open(t, "profile", e, None, None)

TrocarSenha(t) ==
  /\ InApp(t)
  /\ \A d \in Mine(t) : calls[d].kind # "password"
  /\ \E s, n \in Senha : s # n /\ Open(t, "password", None, s, n)

Close(c) == calls' = [calls EXCEPT ![c] = Idle]

SetSession(c) ==
  /\ calls[c].step = "answered"
  /\ calls[c].tab # None
  /\ calls[c].fresh # None
  /\ token' = calls[c].fresh
  /\ store' = [store EXCEPT ![calls[c].tab] = [sub |-> calls[c].fresh.sub, email |-> calls[c].email]]
  /\ Close(c)
  /\ UNCHANGED <<usuarios, clock, leaving, made, raced, overtaken>>

\* Mutant of Expired: a 401 is taken for an expired session again and again.
ExpiredEachTime(c) ==
  /\ calls[c].step = "answered"
  /\ calls[c].code = 401
  /\ calls[c].kind \notin Public

Expired(c) ==
  /\ calls[c].step = "answered"
  /\ calls[c].code = 401
  /\ calls[c].kind \notin Public
  /\ ~calls[c].retried

\* Any other answer is shown.
Show(c) ==
  /\ calls[c].step = "answered"
  /\ calls[c].fresh = None
  /\ calls[c].tab = None \/ ~Expired(c)
  /\ Close(c)
  /\ UNCHANGED <<usuarios, clock, token, store, leaving, made, raced, overtaken>>

\* An answer with a session for a tab that is gone.
Drop(c) ==
  /\ calls[c].step = "answered"
  /\ calls[c].tab = None
  /\ calls[c].fresh # None
  /\ Close(c)
  /\ UNCHANGED <<usuarios, clock, token, store, leaving, made, raced, overtaken>>

TentarRefresh(c) ==
  /\ Expired(c)
  /\ calls[c].tab # None
  /\ token # None
  /\ calls' = [calls EXCEPT ![c].step = "refreshing", ![c].token = token, ![c].code = 0]
  /\ overtaken' = (overtaken \/ \E d \in Call : /\ calls[d].step = "answered"
                                                /\ calls[d].kind = "profile"
                                                /\ calls[d].fresh # None
                                                /\ calls[d].fresh.sub = token.sub)
  /\ UNCHANGED <<usuarios, clock, token, store, leaving, made, raced>>

Retry(c) ==
  /\ calls[c].step = "renewed"
  /\ token' = calls[c].fresh
  /\ calls' = [calls EXCEPT ![c].step = "sent", ![c].token = calls[c].fresh,
                            ![c].fresh = None, ![c].retried = TRUE]
  /\ UNCHANGED <<usuarios, clock, store, leaving, made, raced, overtaken>>

\* clearToken and onUnauthorized; the tab unloads later.
SignOut(c) ==
  /\ \/ calls[c].step \in {"denied", "throttled"}
     \/ Expired(c) /\ calls[c].tab # None /\ token = None
  /\ token' = None
  /\ leaving' = leaving \cup {calls[c].tab}
  /\ Close(c)
  /\ UNCHANGED <<usuarios, clock, store, made, raced, overtaken>>

\* A page load: the store reads the token, the requests of the old page
\* lose their caller, and the API still carries out those that write.
Reload(t) ==
  /\ store' = [store EXCEPT ![t] = ShownBy(token)]
  /\ leaving' = leaving \ {t}
  /\ calls' = [c \in Call |->
       IF c \notin Mine(t) THEN calls[c]
       ELSE IF calls[c].step \in {"sent", "checked", "missed"} /\ calls[c].kind \notin {"login", "query"}
              THEN [calls[c] EXCEPT !.tab = None]
              ELSE Idle]
  /\ overtaken' = (overtaken \/ \E c \in Mine(t) : calls[c].step = "answered" /\ calls[c].kind = "profile"
                                                   /\ calls[c].fresh # None)
  /\ UNCHANGED <<usuarios, clock, token, made, raced>>

Client(c) == SetSession(c) \/ Show(c) \/ Drop(c) \/ TentarRefresh(c) \/ Retry(c) \/ SignOut(c)

Tick ==
  /\ clock < MaxClock
  /\ clock' = clock + 1
  /\ UNCHANGED <<usuarios, token, store, leaving, calls, made, raced, overtaken>>

Users(t) == SubmitLogin(t) \/ SubmitRegister(t) \/ Browse(t) \/ SalvarPerfil(t) \/ TrocarSenha(t)

Next ==
  \/ \E c \in Call : Server(c) \/ Throttle(c) \/ Client(c)
  \/ \E t \in Tab : Users(t) \/ Reload(t)
  \/ Tick

\* Every request sent is answered and every answer is taken; users, the
\* clock and the limit of requests owe nothing.
Fairness == \A c \in Call : WF_vars(Server(c)) /\ WF_vars(Client(c))

Spec == Init /\ [][Next]_vars /\ Fairness

-----------------------------------------------------------------------------

\* Two accounts share an e-mail, and a registration signs into an account it
\* did not create, only where two callers found the e-mail free at once
\* (user.repository.ts updateProfile and createUser, auth.routes.ts
\* register: lookup, hash and write are separate statements).
AccountsAreOwn ==
  /\ \A u, v \in Accounts :
       usuarios[u].email = usuarios[v].email => u = v \/ usuarios[u].email \in raced
  /\ \A c \in Call :
       /\ InFlight(c) /\ calls[c].step = "answered"
       /\ calls[c].kind = "register" /\ calls[c].code = 200
       => calls[c].created \/ calls[c].email \in raced

\* Once nothing is in flight, the claims of the stored token are those of
\* the account, unless a refresh, a sign-in or another profile change
\* overlapped a profile change or its answer was lost (Settings.tsx
\* salvarPerfil and api.client.ts tentarRefresh both write the token).
QuietSessionIsCoherent ==
  (\A c \in Call : ~InFlight(c)) /\ token # None /\ ~overtaken
    => token.email = usuarios[token.sub].email

\* A session that could be renewed is taken from localStorage only by a
\* request whose own refresh, of an older token, was refused, or by a
\* refresh that was throttled (api.client.ts apiFetch clears whatever is
\* stored).
LiveSessionIsKept ==
  [][token # None /\ token' = None /\ clock <= token.exp + Grace
     => \E c \in Call : \/ calls[c].step = "throttled"
                        \/ calls[c].step = "denied" /\ calls[c].token # token]_vars

\* No request goes round: it ends after one refresh at most, also when the
\* 401 says that the current password was wrong (api.client.ts _retried).
CallsSettle == \A c \in Call : InFlight(c) ~> ~InFlight(c)

-----------------------------------------------------------------------------
(* The inductive invariant behind them: SessionProofs proves that it is one. *)

\* What the step request c has come to says of what it carries.
CallOK(c) ==
  /\ InFlight(c) /\ calls[c].kind \in Public \cup {"profile"} => calls[c].email \in Email
  /\ InFlight(c) /\ calls[c].kind \in Public => calls[c].senha \in Senha
  /\ InFlight(c) /\ calls[c].kind = "password" => calls[c].nova \in Senha
  /\ calls[c].step = "checked" =>
       \/ calls[c].kind = "register"
       \/ calls[c].kind \in {"profile", "password"} /\ calls[c].token # None
  /\ calls[c].step = "missed" => calls[c].kind = "register"
  /\ calls[c].step = "answered" /\ calls[c].fresh # None => calls[c].kind \in Public \cup {"profile"}
  /\ calls[c].step \in {"refreshing", "renewed", "denied", "throttled"} =>
       calls[c].kind \notin Public /\ calls[c].tab # None /\ calls[c].token # None
  /\ calls[c].step = "renewed" => calls[c].fresh # None
  /\ calls[c].step = "denied" => ~Refreshable(calls[c].token)

CallInv == \A c \in Call : CallOK(c)

\* Every token was signed for an account, and accounts are not removed.
Signed(t) == t # None => t.sub \in Accounts

SubjectInv ==
  /\ Signed(token)
  /\ \A c \in Call : InFlight(c) => Signed(calls[c].token) /\ Signed(calls[c].fresh)

\* There is an id for every registration that has not been written.
Registering == {d \in Call : /\ calls[d].step \in {"sent", "checked", "missed"}
                             /\ calls[d].kind = "register"}

RoomInv == Cardinality(Registering) <= Cardinality(User \ Accounts)

\* Call c has found its e-mail free and has not written it.
Claims(c) ==
  /\ calls[c].step \in {"checked", "missed"}
  /\ calls[c].kind \in {"register", "profile"}

\* The e-mail that c found free was raced for, or is claimed by c alone and free
\* still, but for the account that asks.
ClaimOK(c) ==
  \/ calls[c].email \in raced
  \/ /\ \A d \in Call \ {c} : Claims(d) => calls[d].email # calls[c].email
     /\ \A u \in Holders(calls[c].email) :
          calls[c].kind = "profile" /\ u = calls[c].token.sub

ClaimInv == \A c \in Call : Claims(c) => ClaimOK(c)

\* The claims of a token are those of its account.
UpToDate(t) == t.email = usuarios[t.sub].email

\* The answer of a profile change of account u, which its tab will store.
Renames(c, u) ==
  /\ calls[c].step = "answered" /\ calls[c].kind = "profile"
  /\ calls[c].tab # None
  /\ calls[c].fresh # None /\ calls[c].fresh.sub = u

\* A token that is yet to be signed again or stored is up to date.
FreshOK(c) ==
  /\ calls[c].step = "refreshing" => UpToDate(calls[c].token)
  /\ calls[c].step \in {"answered", "renewed"} /\ calls[c].fresh # None => UpToDate(calls[c].fresh)

\* While no token was overtaken, those under way are up to date, and the one
\* that is stored is so too or its successor is under way.
TokenInv ==
  ~overtaken =>
    /\ token # None => UpToDate(token) \/ \E c \in Call : Renames(c, token.sub)
    /\ \A c \in Call : FreshOK(c)

IInv ==
  TypeOK /\ CallInv /\ SubjectInv /\ RoomInv /\ ClaimInv /\ TokenInv /\ AccountsAreOwn
=============================================================================
