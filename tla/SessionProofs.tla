---------------------------- MODULE SessionProofs ----------------------------
(***************************************************************************)
(* The accounts and the sessions, for every set of accounts, e-mails,      *)
(* passwords and tabs, every finite number of requests in flight and every *)
(* bound.  IInv (module Session) is inductive: a request that found its    *)
(* e-mail free holds a claim on it that a rival can only have raced for,   *)
(* and a token that will still be stored is up to date unless a profile    *)
(* change overtook it.                                                     *)
(***************************************************************************)
EXTENDS Session, FiniteSetTheorems, TLAPS

\* A request in flight has all the fields.
LEMMA FlightOf ==
  ASSUME TypeOK, NEW c \in Call, InFlight(c)
  PROVE  calls[c] \in Flight
BY DEF TypeOK, InFlight, Idle

\* What a request asks for does not change while it is carried out.
Asks(c) ==
  /\ calls'[c].kind = calls[c].kind /\ calls'[c].tab = calls[c].tab
  /\ calls'[c].email = calls[c].email /\ calls'[c].senha = calls[c].senha
  /\ calls'[c].nova = calls[c].nova

Others(c) == \A d \in Call : d # c => calls'[d] = calls[d]

LEMMA Advanced ==
  ASSUME TypeOK, NEW c \in Call, InFlight(c), NEW s \in Step, Advance(c, s)
  PROVE  /\ calls' \in [Call -> Flight \cup {Idle}] /\ Others(c) /\ Asks(c)
         /\ calls'[c].step = s /\ calls'[c].token = calls[c].token
         /\ calls'[c].fresh = calls[c].fresh
<1>. calls \in [Call -> Flight \cup {Idle}] /\ calls[c] \in Flight
  BY FlightOf DEF TypeOK
<1>. QED
  BY DEF Advance, Flight, Others, Asks

LEMMA Answered ==
  ASSUME TypeOK, NEW c \in Call, InFlight(c),
         NEW code \in {0, 200, 401, 409}, NEW fresh \in Token \cup {None},
         Answer(c, code, fresh)
  PROVE  /\ calls' \in [Call -> Flight \cup {Idle}] /\ Others(c) /\ Asks(c)
         /\ calls'[c].step = "answered" /\ calls'[c].token = calls[c].token
         /\ calls'[c].fresh = fresh /\ calls'[c].code = code
<1>. DEFINE n1 == [calls[c] EXCEPT !.step = "answered"]
            n2 == [n1 EXCEPT !.code = code]
            n3 == [n2 EXCEPT !.fresh = fresh]
<1>1. calls \in [Call -> Flight \cup {Idle}] /\ calls[c] \in Flight
  BY FlightOf DEF TypeOK
<1>2. /\ calls' \in [Call -> {calls[d] : d \in Call} \cup {n3}]
      /\ calls'[c] = n3 /\ Others(c)
  BY <1>1 DEF Answer, Others
<1>3. /\ n1 \in Flight /\ n1.step = "answered" /\ n1.token = calls[c].token
      /\ n1.kind = calls[c].kind /\ n1.tab = calls[c].tab /\ n1.email = calls[c].email
      /\ n1.senha = calls[c].senha /\ n1.nova = calls[c].nova
  BY <1>1 DEF Flight, Step
<1>. HIDE DEF n1
<1>4. /\ n2 \in Flight /\ n2.step = n1.step /\ n2.token = n1.token /\ n2.code = code
      /\ n2.kind = n1.kind /\ n2.tab = n1.tab /\ n2.email = n1.email
      /\ n2.senha = n1.senha /\ n2.nova = n1.nova
  BY <1>3 DEF Flight
<1>. HIDE DEF n2
<1>5. /\ n3 \in Flight /\ n3.step = n2.step /\ n3.token = n2.token
      /\ n3.kind = n2.kind /\ n3.tab = n2.tab /\ n3.email = n2.email
      /\ n3.senha = n2.senha /\ n3.nova = n2.nova
      /\ n3.code = n2.code /\ n3.fresh = fresh
  BY <1>4 DEF Flight
<1>. HIDE DEF n3
<1>. QED
  BY <1>1, <1>2, <1>3, <1>4, <1>5 DEF Asks

LEMMA Closed ==
  ASSUME TypeOK, NEW c \in Call, Close(c)
  PROVE  /\ calls' \in [Call -> Flight \cup {Idle}] /\ Others(c)
         /\ calls'[c].step = "idle"
BY DEF TypeOK, Close, Others, Idle

\* A token signed for an account is a token of the type.
LEMMA SignType ==
  ASSUME TypeOK, NEW u \in User, NEW e \in Email
  PROVE  /\ Sign(u, e) \in Token /\ Sign(u, e) # None
         /\ Sign(u, e).sub = u /\ Sign(u, e).email = e
BY SessionAssumption DEF TypeOK, Sign, Token

LEMMA AccountType ==
  ASSUME TypeOK, NEW u \in Accounts
  PROVE  u \in User /\ usuarios[u] \in [email : Email, senha : Senha]
BY DEF Accounts, TypeOK

-----------------------------------------------------------------------------
(* What each part of the invariant needs of a step *)

\* Requests that are as they were stay what CallInv says.
LEMMA CallKept ==
  ASSUME CallInv, NEW c \in Call, Others(c), CallOK(c)', clock' = clock
  PROVE  CallInv'
<1>1. ASSUME NEW d \in Call, d # c
      PROVE  CallOK(d)'
  BY <1>1 DEF CallInv, CallOK, Others, InFlight, Refreshable
<1>. QED
  BY <1>1 DEF CallInv

\* No registration begins and no account is made.
LEMMA RoomKept ==
  ASSUME TypeOK, RoomInv, Registering' \subseteq Registering, Accounts' = Accounts
  PROVE  RoomInv'
<1>1. IsFiniteSet(Registering)
  BY SessionAssumption, FS_Subset DEF Registering
<1>2. /\ Cardinality(Registering') <= Cardinality(Registering)
      /\ Cardinality(Registering') \in Nat /\ Cardinality(Registering) \in Nat
  BY <1>1, FS_Subset, FS_CardinalityType
<1>3. Cardinality(User \ Accounts) \in Nat
  BY SessionAssumption, FS_Subset, FS_CardinalityType
<1>. QED
  BY <1>2, <1>3 DEF RoomInv

\* No claim is made and nobody gets an e-mail.
LEMMA ClaimKept ==
  ASSUME ClaimInv, UNCHANGED usuarios, raced \subseteq raced',
         \A d \in Call : Claims(d)' =>
           /\ Claims(d)
           /\ calls'[d].email = calls[d].email /\ calls'[d].kind = calls[d].kind
           /\ calls'[d].token = calls[d].token
  PROVE  ClaimInv'
<1>. SUFFICES ASSUME NEW c \in Call, Claims(c)' PROVE ClaimOK(c)'
  BY DEF ClaimInv
<1>1. ClaimOK(c) /\ Claims(c)
  BY DEF ClaimInv
<1>2. Holders(calls[c].email)' = Holders(calls[c].email)
  BY DEF Holders, Accounts
<1>. QED
  BY <1>1, <1>2 DEF ClaimOK

\* No account changes: those that share an e-mail shared it before.
LEMMA OwnKept ==
  ASSUME AccountsAreOwn, UNCHANGED usuarios, raced \subseteq raced',
         NEW c \in Call, Others(c),
         InFlight(c)' /\ calls'[c].step = "answered" /\ calls'[c].kind = "register" /\ calls'[c].code = 200
           => calls'[c].created \/ calls'[c].email \in raced'
  PROVE  AccountsAreOwn'
BY DEF AccountsAreOwn, Others, Accounts, InFlight

\* No account changes: what is under way is as up to date as it was.
LEMMA TokenKept ==
  ASSUME TokenInv, UNCHANGED usuarios, overtaken => overtaken',
         NEW c \in Call, Others(c),
         ~overtaken' => FreshOK(c)',
         ~overtaken' /\ token' # None =>
           \/ UpToDate(token')
           \/ UNCHANGED token /\ \A u : Renames(c, u) => Renames(c, u)'
  PROVE  TokenInv'
<1>. SUFFICES ASSUME ~overtaken' PROVE /\ token' # None => UpToDate(token)' \/ \E d \in Call : Renames(d, token.sub)'
                                       /\ \A d \in Call : FreshOK(d)'
  BY DEF TokenInv
<1>1. ASSUME NEW d \in Call, d # c
      PROVE  /\ FreshOK(d)'
             /\ \A u : Renames(d, u) => Renames(d, u)'
  BY <1>1 DEF TokenInv, FreshOK, UpToDate, Renames, Others
<1>2. UpToDate(token') => UpToDate(token)'
  BY DEF UpToDate
<1>3. UNCHANGED token /\ UpToDate(token) => UpToDate(token)'
  BY DEF UpToDate
<1>. QED
  BY <1>1, <1>2, <1>3 DEF TokenInv

\* A step of one request that changes no account: what must be shown of it.
LEMMA CallMoves ==
  ASSUME IInv, NEW c \in Call, Others(c), UNCHANGED <<usuarios, clock>>,
         TypeOK', CallOK(c)', Signed(token)',
         InFlight(c)' => Signed(calls[c].token)' /\ Signed(calls[c].fresh)',
         RoomInv', ClaimInv', raced \subseteq raced', overtaken => overtaken',
         InFlight(c)' /\ calls'[c].step = "answered" /\ calls'[c].kind = "register" /\ calls'[c].code = 200
           => calls'[c].created \/ calls'[c].email \in raced',
         ~overtaken' => FreshOK(c)',
         ~overtaken' /\ token' # None =>
           \/ UpToDate(token')
           \/ UNCHANGED token /\ \A u : Renames(c, u) => Renames(c, u)'
  PROVE  IInv'
<1>1. CallInv'
  BY CallKept DEF IInv
<1>2. SubjectInv'
  BY DEF IInv, SubjectInv, Signed, Accounts, Others, InFlight
<1>3. AccountsAreOwn'
  BY OwnKept DEF IInv
<1>4. TokenInv'
  BY TokenKept DEF IInv
<1>. QED
  BY <1>1, <1>2, <1>3, <1>4 DEF IInv

-----------------------------------------------------------------------------
(* The API *)

\* A request is answered, with a session only for an account as it is now.
LEMMA AnswerKeeps ==
  ASSUME IInv, NEW c \in Call, calls[c].step \in {"sent", "checked", "missed"},
         NEW code \in {0, 200, 401, 409}, NEW fresh \in Token \cup {None},
         Answer(c, code, fresh),
         fresh # None => /\ fresh.sub \in Accounts /\ UpToDate(fresh)
                         /\ calls[c].kind \in Public \cup {"profile"},
         calls[c].kind = "register" /\ code = 200 => calls[c].email \in raced,
         UNCHANGED <<usuarios, clock, token, store, leaving, made, raced, overtaken>>
  PROVE  IInv'
<1>0. TypeOK /\ InFlight(c)
  BY DEF IInv, InFlight
<1>1. /\ calls' \in [Call -> Flight \cup {Idle}] /\ Others(c) /\ Asks(c)
      /\ calls'[c].step = "answered" /\ calls'[c].token = calls[c].token
      /\ calls'[c].fresh = fresh /\ calls'[c].code = code
  BY <1>0, Answered
<1>2. TypeOK'
  BY <1>0, <1>1 DEF TypeOK
<1>3. CallOK(c)'
  BY <1>0, <1>1 DEF IInv, CallInv, CallOK, Asks, InFlight
<1>4. Signed(token)' /\ Signed(calls[c].token)' /\ Signed(calls[c].fresh)'
  BY <1>0, <1>1 DEF IInv, SubjectInv, Signed, Accounts
<1>5. RoomInv'
  <2>1. Registering' \subseteq Registering /\ Accounts' = Accounts
    BY <1>1 DEF Registering, Others, Accounts
  <2>. QED
    BY <2>1, <1>0, RoomKept DEF IInv
<1>6. ClaimInv'
  <2>1. \A d \in Call : Claims(d)' =>
          /\ Claims(d)
          /\ calls'[d].email = calls[d].email /\ calls'[d].kind = calls[d].kind
          /\ calls'[d].token = calls[d].token
    BY <1>1 DEF Claims, Others
  <2>. QED
    BY <2>1, ClaimKept DEF IInv
<1>7. FreshOK(c)' /\ \A u : Renames(c, u) => Renames(c, u)'
  BY <1>0, <1>1 DEF FreshOK, Renames, UpToDate
<1>8. ~overtaken' /\ token' # None =>
        \/ UpToDate(token')
        \/ UNCHANGED token /\ \A u : Renames(c, u) => Renames(c, u)'
  BY <1>7
<1>9. calls'[c].kind = "register" /\ calls'[c].code = 200 => calls'[c].email \in raced'
  BY <1>1 DEF Asks
<1>. QED
  BY <1>1, <1>2, <1>3, <1>4, <1>5, <1>6, <1>7, <1>8, <1>9, CallMoves

\* A request goes on to a step that claims no e-mail.
LEMMA AdvanceKeeps ==
  ASSUME IInv, NEW c \in Call, NEW s \in Step, Advance(c, s),
         \/ /\ calls[c].step = "checked" /\ calls[c].kind = "register" /\ s = "missed"
         \/ /\ calls[c].step = "sent" /\ calls[c].kind = "password" /\ calls[c].token # None
            /\ s = "checked"
         \/ /\ calls[c].step = "refreshing"
            /\ s = "throttled" \/ (s = "denied" /\ ~Refreshable(calls[c].token)),
         UNCHANGED <<usuarios, clock, token, store, leaving, made, raced, overtaken>>
  PROVE  IInv'
<1>0. TypeOK /\ InFlight(c)
  BY DEF IInv, InFlight
<1>1. /\ calls' \in [Call -> Flight \cup {Idle}] /\ Others(c) /\ Asks(c)
      /\ calls'[c].step = s /\ calls'[c].token = calls[c].token
      /\ calls'[c].fresh = calls[c].fresh
  BY <1>0, Advanced
<1>2. TypeOK'
  BY <1>0, <1>1 DEF TypeOK
<1>3. CallOK(c)'
  BY <1>0, <1>1 DEF IInv, CallInv, CallOK, Asks, InFlight, Refreshable
<1>4. Signed(token)' /\ Signed(calls[c].token)' /\ Signed(calls[c].fresh)'
  BY <1>0, <1>1 DEF IInv, SubjectInv, Signed, Accounts
<1>5. RoomInv'
  <2>1. Registering' \subseteq Registering /\ Accounts' = Accounts
    BY <1>1 DEF Registering, Others, Accounts, Asks
  <2>. QED
    BY <2>1, <1>0, RoomKept DEF IInv
<1>6. ClaimInv'
  <2>1. \A d \in Call : Claims(d)' =>
          /\ Claims(d)
          /\ calls'[d].email = calls[d].email /\ calls'[d].kind = calls[d].kind
          /\ calls'[d].token = calls[d].token
    BY <1>1 DEF Claims, Others, Asks
  <2>. QED
    BY <2>1, ClaimKept DEF IInv
<1>7. FreshOK(c)' /\ \A u : Renames(c, u) => Renames(c, u)'
  BY <1>0, <1>1 DEF FreshOK, Renames, UpToDate
<1>8. ~overtaken' /\ token' # None =>
        \/ UpToDate(token')
        \/ UNCHANGED token /\ \A u : Renames(c, u) => Renames(c, u)'
  BY <1>7
<1>. QED
  BY <1>1, <1>2, <1>3, <1>4, <1>5, <1>6, <1>7, <1>8, CallMoves

\* An e-mail is found free: no rival has, or it is raced for from now on.
LEMMA FoundFreeKeeps ==
  ASSUME IInv, NEW c \in Call, calls[c].step = "sent",
         \/ calls[c].kind = "register" /\ Holders(calls[c].email) = {}
         \/ /\ calls[c].kind = "profile" /\ calls[c].token # None
            /\ Holders(calls[c].email) \ {calls[c].token.sub} = {},
         FoundFree(c),
         UNCHANGED <<usuarios, clock, token, store, leaving, made, overtaken>>
  PROVE  IInv'
<1>0. TypeOK /\ InFlight(c)
  BY DEF IInv, InFlight
<1>1. /\ calls' \in [Call -> Flight \cup {Idle}] /\ Others(c) /\ Asks(c)
      /\ calls'[c].step = "checked" /\ calls'[c].token = calls[c].token
      /\ calls'[c].fresh = calls[c].fresh
  <2>1. "checked" \in Step
    BY DEF Step
  <2>. QED
    BY <1>0, <2>1, Advanced DEF FoundFree
<1>2. raced \subseteq raced' /\ raced' \subseteq Email
  BY <1>0 DEF FoundFree, TypeOK
<1>3. TypeOK'
  BY <1>0, <1>1, <1>2 DEF TypeOK
<1>4. CallOK(c)'
  BY <1>0, <1>1 DEF IInv, CallInv, CallOK, Asks, InFlight, Refreshable
<1>5. Signed(token)' /\ Signed(calls[c].token)' /\ Signed(calls[c].fresh)'
  BY <1>0, <1>1 DEF IInv, SubjectInv, Signed, Accounts
<1>6. RoomInv'
  <2>1. Registering' \subseteq Registering /\ Accounts' = Accounts
    BY <1>1 DEF Registering, Others, Accounts, Asks
  <2>. QED
    BY <2>1, <1>0, RoomKept DEF IInv
<1>7. ClaimInv'
  <2>0. calls[c].email \in Email
    BY <1>0 DEF IInv, CallInv, CallOK, Public
  <2>1. Rivals(c) = {d \in Call \ {c} : Claims(d) /\ calls[d].email = calls[c].email}
    BY DEF Rivals, Claims
  <2>2. \A e : Holders(e)' = Holders(e)
    BY DEF Holders, Accounts
  <2>3. \A d \in Call : /\ calls'[d].email = calls[d].email /\ calls'[d].kind = calls[d].kind
                        /\ calls'[d].token = calls[d].token
                        /\ d # c => (Claims(d)' <=> Claims(d))
    BY <1>1 DEF Claims, Others, Asks
  <2>4. ClaimOK(c)'
    <3>1. CASE Rivals(c) # {}
      <4>1. calls[c].email \in raced'
        BY <2>0, <3>1 DEF FoundFree
      <4>. QED
        BY <2>3, <4>1 DEF ClaimOK
    <3>2. CASE Rivals(c) = {}
      <4>1. \A d \in Call \ {c} : Claims(d)' => calls'[d].email # calls'[c].email
        BY <2>1, <2>3, <3>2
      <4>2. \A u \in Holders(calls'[c].email) : calls'[c].kind = "profile" /\ u = calls'[c].token.sub
        BY <2>3
      <4>. QED
        BY <4>1, <4>2, <2>2 DEF ClaimOK
    <3>. QED
      BY <3>1, <3>2
  <2>5. ASSUME NEW d \in Call, d # c, Claims(d)'
        PROVE  ClaimOK(d)'
    <3>1. ClaimOK(d) /\ Claims(d)
      BY <2>3, <2>5 DEF IInv, ClaimInv
    <3>2. CASE calls[d].email = calls[c].email
      <4>1. d \in Rivals(c)
        BY <2>1, <2>5, <3>1, <3>2
      <4>2. calls[c].email \in raced'
        BY <2>0, <4>1 DEF FoundFree
      <4>. QED
        BY <2>3, <3>2, <4>2 DEF ClaimOK
    <3>3. CASE calls[d].email # calls[c].email
      BY <1>2, <2>2, <2>3, <3>1, <3>3 DEF ClaimOK
    <3>. QED
      BY <3>2, <3>3
  <2>. QED
    BY <2>4, <2>5 DEF ClaimInv
<1>8. FreshOK(c)' /\ \A u : Renames(c, u) => Renames(c, u)'
  BY <1>0, <1>1 DEF FreshOK, Renames, UpToDate
<1>9. ~overtaken' /\ token' # None =>
        \/ UpToDate(token')
        \/ UNCHANGED token /\ \A u : Renames(c, u) => Renames(c, u)'
  BY <1>8
<1>. QED
  BY <1>1, <1>2, <1>3, <1>4, <1>5, <1>6, <1>7, <1>8, <1>9, CallMoves

\* A session is signed for a holder of the e-mail that was asked for.
LEMMA HolderSigned ==
  ASSUME TypeOK, NEW e \in Email, NEW u \in Holders(e)
  PROVE  /\ Sign(u, e) \in Token /\ Sign(u, e) # None
         /\ Sign(u, e).sub \in Accounts /\ UpToDate(Sign(u, e))
<1>1. u \in User /\ u \in Accounts /\ usuarios[u].email = e
  BY DEF Holders, Accounts
<1>. QED
  BY <1>1, SignType DEF UpToDate

LEMMA LoginKeeps ==
  ASSUME IInv, NEW c \in Call, Login(c)
  PROVE  IInv'
<1>1. calls[c].step = "sent" /\ calls[c].kind = "login" /\ calls[c].email \in Email /\ TypeOK
  BY DEF Login, Arrived, IInv, CallInv, CallOK, InFlight, Public
<1>2. ASSUME NEW u \in Holders(calls[c].email), Answer(c, 200, Sign(u, calls[c].email))
      PROVE  IInv'
  BY <1>1, <1>2, HolderSigned, AnswerKeeps DEF Login, Public
<1>3. CASE Answer(c, 401, None)
  BY <1>1, <1>3, AnswerKeeps DEF Login
<1>. QED
  BY <1>2, <1>3 DEF Login

LEMMA RegisterLookupKeeps ==
  ASSUME IInv, NEW c \in Call, RegisterLookup(c)
  PROVE  IInv'
<1>1. calls[c].step = "sent" /\ calls[c].kind = "register"
  BY DEF RegisterLookup, Arrived
<1>2. CASE Answer(c, 409, None) /\ UNCHANGED raced
  BY <1>1, <1>2, AnswerKeeps DEF RegisterLookup
<1>3. CASE Holders(calls[c].email) = {} /\ FoundFree(c)
  BY <1>1, <1>3, FoundFreeKeeps DEF RegisterLookup
<1>. QED
  BY <1>2, <1>3 DEF RegisterLookup

LEMMA ProfileLookupKeeps ==
  ASSUME IInv, NEW c \in Call, UpdateProfileLookup(c)
  PROVE  IInv'
<1>1. calls[c].step = "sent" /\ calls[c].kind = "profile" /\ calls[c].token # None
  BY DEF UpdateProfileLookup, Arrived, Valid, Public
<1>2. CASE Answer(c, 409, None) /\ UNCHANGED raced
  BY <1>1, <1>2, AnswerKeeps DEF UpdateProfileLookup
<1>3. CASE Holders(calls[c].email) \ {calls[c].token.sub} = {} /\ FoundFree(c)
  BY <1>1, <1>3, FoundFreeKeeps DEF UpdateProfileLookup
<1>. QED
  BY <1>2, <1>3 DEF UpdateProfileLookup

\* A registration that matches an account lost its e-mail to a rival.
LEMMA MergeMatchKeeps ==
  ASSUME IInv, NEW c \in Call, MergeMatch(c)
  PROVE  IInv'
<1>1. /\ calls[c].step = "checked" /\ calls[c].kind = "register" /\ calls[c].email \in Email
      /\ TypeOK /\ ClaimOK(c)
  BY DEF MergeMatch, IInv, CallInv, CallOK, InFlight, Public, ClaimInv, Claims
<1>2. ASSUME NEW u \in Holders(calls[c].email), Answer(c, 200, Sign(u, calls[c].email))
      PROVE  IInv'
  <2>1. calls[c].email \in raced
    BY <1>1, <1>2 DEF ClaimOK
  <2>. QED
    BY <1>1, <1>2, <2>1, HolderSigned, AnswerKeeps DEF MergeMatch, Public
<1>3. CASE Advance(c, "missed")
  <2>1. "missed" \in Step
    BY DEF Step
  <2>. QED
    BY <1>1, <1>3, <2>1, AdvanceKeeps DEF MergeMatch
<1>. QED
  BY <1>2, <1>3 DEF MergeMatch

LEMMA PasswordLookupKeeps ==
  ASSUME IInv, NEW c \in Call, UpdatePasswordLookup(c)
  PROVE  IInv'
<1>1. calls[c].step = "sent" /\ calls[c].kind = "password" /\ calls[c].token # None
  BY DEF UpdatePasswordLookup, Arrived, Valid, Public
<1>2. CASE Answer(c, 401, None)
  BY <1>1, <1>2, AnswerKeeps DEF UpdatePasswordLookup
<1>3. CASE Advance(c, "checked")
  <2>1. "checked" \in Step
    BY DEF Step
  <2>. QED
    BY <1>1, <1>3, <2>1, AdvanceKeeps DEF UpdatePasswordLookup
<1>. QED
  BY <1>2, <1>3 DEF UpdatePasswordLookup

LEMMA RefreshKeeps ==
  ASSUME IInv, NEW c \in Call, Refresh(c) \/ Throttle(c)
  PROVE  IInv'
<1>0. /\ TypeOK /\ InFlight(c) /\ calls[c].step = "refreshing"
      /\ UNCHANGED <<usuarios, clock, token, store, leaving, made, raced, overtaken>>
  BY DEF Refresh, Throttle, IInv, InFlight
<1>1. ASSUME NEW s \in Step, Advance(c, s),
             s = "throttled" \/ (s = "denied" /\ ~Refreshable(calls[c].token))
      PROVE  IInv'
  BY <1>0, <1>1, AdvanceKeeps
<1>2. CASE Throttle(c)
  <2>1. "throttled" \in Step
    BY DEF Step
  <2>. QED
    BY <1>1, <1>2, <2>1 DEF Throttle
<1>3. CASE Refresh(c) /\ ~Refreshable(calls[c].token)
  <2>1. "denied" \in Step
    BY DEF Step
  <2>. QED
    BY <1>1, <1>3, <2>1 DEF Refresh
<1>4. CASE Refresh(c) /\ Refreshable(calls[c].token)
  <2>. DEFINE t == calls[c].token
              fresh == Sign(t.sub, t.email)
              n1 == [calls[c] EXCEPT !.step = "renewed"]
              n2 == [n1 EXCEPT !.fresh = fresh]
  <2>1. calls \in [Call -> Flight \cup {Idle}] /\ calls[c] \in Flight
    BY <1>0, FlightOf DEF TypeOK
  <2>2. /\ t \in Token /\ t.sub \in Accounts
        /\ calls[c].kind \notin Public /\ calls[c].tab # None
    BY <1>0, <2>1 DEF IInv, CallInv, CallOK, SubjectInv, Signed, Flight
  <2>3. fresh \in Token /\ fresh # None /\ fresh.sub = t.sub /\ fresh.email = t.email
    BY <1>0, <2>2, SignType DEF Token
  <2>4. calls' \in [Call -> {calls[d] : d \in Call} \cup {n2}] /\ calls'[c] = n2 /\ Others(c)
    BY <1>4, <2>1 DEF Refresh, Others
  <2>. HIDE DEF t, fresh
  <2>5. /\ n2 \in Flight /\ n2.step = "renewed" /\ n2.fresh = fresh /\ n2.token = calls[c].token
        /\ n2.kind = calls[c].kind /\ n2.tab = calls[c].tab
        /\ n2.email = calls[c].email /\ n2.senha = calls[c].senha /\ n2.nova = calls[c].nova
    <3>1. n1 \in Flight /\ n1.step = "renewed" /\ n1.token = calls[c].token
          /\ n1.kind = calls[c].kind /\ n1.tab = calls[c].tab
          /\ n1.email = calls[c].email /\ n1.senha = calls[c].senha /\ n1.nova = calls[c].nova
      BY <2>1 DEF Flight, Step
    <3>. HIDE DEF n1
    <3>. QED
      BY <3>1, <2>3 DEF Flight
  <2>. HIDE DEF n2
  <2>6. TypeOK'
    BY <1>0, <2>1, <2>4, <2>5 DEF TypeOK
  <2>7. CallOK(c)'
    BY <1>0, <2>2, <2>3, <2>4, <2>5 DEF IInv, CallInv, CallOK, InFlight, t
  <2>8. Signed(token)' /\ Signed(calls[c].token)' /\ Signed(calls[c].fresh)'
    BY <1>0, <2>2, <2>3, <2>4, <2>5 DEF IInv, SubjectInv, Signed, Accounts
  <2>9. RoomInv'
    <3>1. Registering' \subseteq Registering /\ Accounts' = Accounts
      BY <1>0, <2>4, <2>5 DEF Registering, Others, Accounts
    <3>. QED
      BY <3>1, <1>0, RoomKept DEF IInv
  <2>10. ClaimInv'
    <3>1. \A d \in Call : Claims(d)' =>
            /\ Claims(d)
            /\ calls'[d].email = calls[d].email /\ calls'[d].kind = calls[d].kind
            /\ calls'[d].token = calls[d].token
      BY <2>4, <2>5 DEF Claims, Others
    <3>. QED
      BY <1>0, <3>1, ClaimKept DEF IInv
  <2>11. ~overtaken => FreshOK(c)'
    <3>1. ~overtaken => UpToDate(t)
      BY <1>0 DEF IInv, TokenInv, FreshOK, t
    <3>. QED
      BY <1>0, <2>3, <2>4, <2>5, <3>1 DEF FreshOK, UpToDate
  <2>12. ~overtaken' /\ token' # None =>
           \/ UpToDate(token')
           \/ UNCHANGED token /\ \A u : Renames(c, u) => Renames(c, u)'
    BY <1>0 DEF Renames
  <2>13. calls'[c].step # "answered"
    BY <2>4, <2>5
  <2>. QED
    BY <1>0, <2>4, <2>6, <2>7, <2>8, <2>9, <2>10, <2>11, <2>12, <2>13, CallMoves
<1>. QED
  BY <1>2, <1>3, <1>4

-----------------------------------------------------------------------------
(* The writes of the API *)

\* createUser creates: the e-mail is nobody else's, or was raced for.
LEMMA MergeCreateKeeps ==
  ASSUME IInv, NEW c \in Call, MergeCreate(c)
  PROVE  IInv'
<1>. DEFINE u == CHOOSE v \in User : usuarios[v] = None
            e == calls[c].email
            account == [email |-> e, senha |-> calls[c].senha]
            fresh == Sign(u, e)
            n1 == [calls[c] EXCEPT !.step = "answered"]
            n2 == [n1 EXCEPT !.code = 200]
            n3 == [n2 EXCEPT !.fresh = fresh]
            n4 == [n3 EXCEPT !.created = TRUE]
<1>0. /\ TypeOK /\ InFlight(c) /\ calls[c].step = "missed" /\ calls[c].kind = "register"
      /\ UNCHANGED <<clock, token, store, leaving, made, raced, overtaken>>
      /\ calls \in [Call -> Flight \cup {Idle}] /\ calls[c] \in Flight
      /\ c \in Registering
  <2>1. TypeOK /\ InFlight(c) /\ calls[c].step = "missed"
    BY DEF MergeCreate, IInv, InFlight
  <2>. QED
    BY <2>1, FlightOf DEF MergeCreate, IInv, CallInv, CallOK, TypeOK, Registering
<1>1. /\ IsFiniteSet(Registering) /\ Cardinality(Registering) \in Nat \ {0}
      /\ IsFiniteSet(User \ Accounts) /\ Cardinality(User \ Accounts) \in Nat
  <2>1. IsFiniteSet(Registering) /\ IsFiniteSet(User \ Accounts)
    BY SessionAssumption, FS_Subset DEF Registering
  <2>. QED
    BY <1>0, <2>1, FS_CardinalityType, FS_EmptySet
<1>2. User \ Accounts # {}
  BY <1>1, FS_EmptySet DEF IInv, RoomInv
<1>3. u \in User /\ usuarios[u] = None /\ u \notin Accounts
  BY <1>2 DEF Accounts
<1>4. e \in Email /\ account \in [email : Email, senha : Senha] /\ account.email = e
  BY <1>0 DEF IInv, CallInv, CallOK, Public
<1>5. /\ usuarios' = [usuarios EXCEPT ![u] = account]
      /\ calls' = [calls EXCEPT ![c].step = "answered", ![c].code = 200,
                                ![c].fresh = fresh, ![c].created = TRUE]
  BY DEF MergeCreate
<1>. HIDE DEF u
<1>7. fresh \in Token /\ fresh # None /\ fresh.sub = u /\ fresh.email = e
  BY <1>0, <1>3, <1>4, SignType
<1>. HIDE DEF e, account, fresh
<1>6. /\ calls' \in [Call -> {calls[d] : d \in Call} \cup {n4}] /\ calls'[c] = n4
      /\ Others(c)
  BY <1>0, <1>5 DEF Others
<1>8. /\ n1 \in Flight /\ n1.step = "answered" /\ n1.token = calls[c].token
      /\ n1.kind = calls[c].kind /\ n1.email = e /\ n1.senha = calls[c].senha
  BY <1>0 DEF Flight, Step, e
<1>. HIDE DEF n1
<1>9. /\ n2 \in Flight /\ n2.step = "answered" /\ n2.token = calls[c].token
      /\ n2.kind = calls[c].kind /\ n2.email = e /\ n2.senha = calls[c].senha
  BY <1>8 DEF Flight
<1>. HIDE DEF n2
<1>10. /\ n3 \in Flight /\ n3.step = "answered" /\ n3.token = calls[c].token
       /\ n3.kind = calls[c].kind /\ n3.email = e /\ n3.senha = calls[c].senha
       /\ n3.fresh = fresh
  BY <1>7, <1>9 DEF Flight
<1>. HIDE DEF n3
<1>11. /\ n4 \in Flight /\ n4.step = "answered" /\ n4.token = calls[c].token
       /\ n4.kind = calls[c].kind /\ n4.email = e /\ n4.senha = calls[c].senha
       /\ n4.fresh = fresh /\ n4.created = TRUE
  <2>1. n4 \in Flight
    <3>1. \A r \in Flight : \A b \in BOOLEAN : [r EXCEPT !.created = b] \in Flight
      BY SMTT(30) DEF Flight
    <3>. QED
      BY <1>10, <3>1, Zenon
  <2>2. n4.created = TRUE
    BY <1>10 DEF Flight
  <2>3. /\ n4.step = "answered" /\ n4.token = calls[c].token
        /\ n4.kind = calls[c].kind /\ n4.email = e /\ n4.senha = calls[c].senha
        /\ n4.fresh = fresh
    BY <1>10 DEF Flight
  <2>. QED
    BY <2>1, <2>2, <2>3
<1>. HIDE DEF n4
<1>12. /\ \A v \in User : usuarios'[v] = IF v = u THEN account ELSE usuarios[v]
       /\ account # None /\ Accounts' = Accounts \cup {u}
  <2>1. account # None
    BY <1>4, SessionAssumption
  <2>2. \A v \in User : usuarios'[v] = IF v = u THEN account ELSE usuarios[v]
    BY <1>0, <1>5 DEF TypeOK
  <2>. QED
    BY <1>3, <2>1, <2>2 DEF Accounts
<1>13. TypeOK'
  BY <1>0, <1>3, <1>4, <1>5, <1>6, <1>11 DEF TypeOK
<1>14. CallInv'
  <2>1. CallOK(c)'
    BY <1>0, <1>4, <1>6, <1>11 DEF IInv, CallInv, CallOK, InFlight, Public
  <2>. QED
    BY <1>0, <1>6, <2>1, CallKept DEF IInv
<1>15. SubjectInv'
  BY <1>0, <1>6, <1>7, <1>11, <1>12 DEF IInv, SubjectInv, Signed, Others, InFlight
<1>16. RoomInv'
  <2>1. Registering' = Registering \ {c} /\ User \ Accounts' = (User \ Accounts) \ {u}
    BY <1>0, <1>6, <1>11, <1>12 DEF Registering, Others
  <2>2. /\ Cardinality(Registering \ {c}) = Cardinality(Registering) - 1
        /\ Cardinality((User \ Accounts) \ {u}) = Cardinality(User \ Accounts) - 1
    BY <1>0, <1>1, <1>3, FS_RemoveElement
  <2>3. Cardinality(Registering) <= Cardinality(User \ Accounts)
    BY DEF IInv, RoomInv
  <2>4. Cardinality(Registering \ {c}) <= Cardinality((User \ Accounts) \ {u})
    BY <1>1, <2>2, <2>3
  <2>5. Cardinality(Registering') <= Cardinality(User \ Accounts')
    BY <2>1, <2>4
  <2>. QED
    BY <2>5 DEF RoomInv
<1>17. ClaimOK(c) /\ Claims(c)
  BY <1>0 DEF IInv, ClaimInv, Claims
<1>18. ClaimInv'
  <2>. SUFFICES ASSUME NEW d \in Call, Claims(d)' PROVE ClaimOK(d)'
    BY DEF ClaimInv
  <2>1. d # c
    BY <1>6, <1>11 DEF Claims
  <2>2. ClaimOK(d) /\ Claims(d) /\ calls'[d] = calls[d]
    BY <1>6, <2>1 DEF IInv, ClaimInv, Claims, Others
  <2>3. CASE calls[d].email \in raced
    BY <1>0, <2>2, <2>3 DEF ClaimOK
  <2>4. CASE calls[d].email \notin raced
    <3>1. calls[d].email # e
      BY <1>17, <2>1, <2>2, <2>4 DEF ClaimOK, e
    <3>2. Holders(calls[d].email)' \subseteq Holders(calls[d].email)
      BY <1>3, <1>4, <1>12, <2>2, <3>1 DEF Holders, Accounts
    <3>3. \A f \in Call \ {d} : Claims(f)' => calls'[f].email # calls'[d].email
      BY <1>6, <1>11, <2>2, <2>4 DEF ClaimOK, Claims, Others
    <3>. QED
      BY <2>2, <2>4, <3>2, <3>3 DEF ClaimOK
  <2>. QED
    BY <2>3, <2>4
<1>19. AccountsAreOwn'
  <2>1. ASSUME NEW v \in Accounts, usuarios[v].email = e
        PROVE  e \in raced
    <3>1. v \in Holders(e)
      BY <2>1 DEF Holders
    <3>. QED
      BY <1>0, <1>17, <3>1 DEF ClaimOK, e
  <2>2. \A v, w \in Accounts' :
          usuarios'[v].email = usuarios'[w].email => v = w \/ usuarios'[v].email \in raced'
    <3>. SUFFICES ASSUME NEW v \in Accounts', NEW w \in Accounts', v # w,
                         usuarios'[v].email = usuarios'[w].email
                  PROVE  usuarios'[v].email \in raced
      BY <1>0
    <3>0. Accounts \subseteq User
      BY DEF Accounts
    <3>1. CASE v # u /\ w # u
      BY <1>12, <3>0, <3>1 DEF IInv, AccountsAreOwn
    <3>2. CASE v = u
      BY <1>3, <1>4, <1>12, <2>1, <3>0, <3>2
    <3>3. CASE w = u
      BY <1>3, <1>4, <1>12, <2>1, <3>0, <3>3
    <3>. QED
      BY <3>1, <3>2, <3>3
  <2>3. \A d \in Call :
          InFlight(d)' /\ calls'[d].step = "answered" /\ calls'[d].kind = "register" /\ calls'[d].code = 200
            => calls'[d].created \/ calls'[d].email \in raced'
    BY <1>0, <1>6, <1>11 DEF IInv, AccountsAreOwn, Others, InFlight
  <2>. QED
    BY <2>2, <2>3 DEF AccountsAreOwn
<1>20. TokenInv'
  <2>. SUFFICES ASSUME ~overtaken
                PROVE  /\ token # None => UpToDate(token)' \/ \E d \in Call : Renames(d, token.sub)'
                       /\ \A d \in Call : FreshOK(d)'
    BY <1>0 DEF TokenInv
  <2>1. \A v \in Accounts : usuarios'[v] = usuarios[v]
    BY <1>3, <1>12 DEF Accounts
  <2>2. \A d \in Call : \A v : Renames(d, v) => Renames(d, v)'
    BY <1>0, <1>6 DEF Renames, Others
  <2>3. token # None => UpToDate(token)' \/ \E d \in Call : Renames(d, token.sub)'
    BY <1>0, <2>1, <2>2 DEF IInv, TokenInv, SubjectInv, Signed, UpToDate
  <2>4. ASSUME NEW d \in Call, d # c
        PROVE  FreshOK(d)'
    <3>1. calls'[d] = calls[d] /\ FreshOK(d)
      BY <1>6, <2>4 DEF IInv, TokenInv, Others
    <3>2. calls[d].step = "refreshing" => calls[d].token.sub \in Accounts
      BY DEF IInv, CallInv, CallOK, SubjectInv, Signed, InFlight
    <3>3. calls[d].step \in {"answered", "renewed"} /\ calls[d].fresh # None => calls[d].fresh.sub \in Accounts
      BY DEF IInv, SubjectInv, Signed, InFlight
    <3>. QED
      BY <2>1, <3>1, <3>2, <3>3 DEF FreshOK, UpToDate
  <2>5. FreshOK(c)'
    BY <1>3, <1>4, <1>6, <1>7, <1>11, <1>12 DEF FreshOK, UpToDate
  <2>. QED
    BY <2>3, <2>4, <2>5
<1>. QED
  BY <1>13, <1>14, <1>15, <1>16, <1>18, <1>19, <1>20 DEF IInv

\* updateProfile writes the e-mail that c claims, and signs it.
LEMMA ProfileKeeps ==
  ASSUME IInv, NEW c \in Call, UpdateProfile(c)
  PROVE  IInv'
<1>. DEFINE u == calls[c].token.sub
            e == calls[c].email
            fresh == Sign(u, e)
<1>0. /\ TypeOK /\ InFlight(c) /\ calls[c].step = "checked" /\ calls[c].kind = "profile"
      /\ UNCHANGED <<clock, token, store, leaving, made, raced>>
      /\ calls \in [Call -> Flight \cup {Idle}] /\ calls[c] \in Flight
      /\ calls[c].token \in Token
  <2>1. TypeOK /\ InFlight(c) /\ calls[c].step = "checked" /\ calls[c].kind = "profile"
    BY DEF UpdateProfile, WriteProfile, IInv, InFlight
  <2>2. calls[c] \in Flight /\ calls[c].token # None
    BY <2>1, FlightOf DEF IInv, CallInv, CallOK
  <2>. QED
    BY <2>1, <2>2 DEF UpdateProfile, WriteProfile, TypeOK, Flight
<1>1. u \in Accounts /\ u \in User /\ e \in Email /\ usuarios[u] \in [email : Email, senha : Senha]
  <2>1. u \in Accounts /\ e \in Email
    BY <1>0, SessionAssumption DEF IInv, SubjectInv, Signed, Token, CallInv, CallOK
  <2>. QED
    BY <1>0, <2>1, AccountType
<1>2. fresh \in Token /\ fresh # None /\ fresh.sub = u /\ fresh.email = e
  BY <1>0, <1>1, SignType
<1>3. /\ usuarios' = [usuarios EXCEPT ![u].email = e]
      /\ Answer(c, 200, fresh)
      /\ overtaken' = (overtaken \/ calls[c].tab = None \/ Carriers(c, u) # {})
  BY DEF UpdateProfile, WriteProfile
<1>. HIDE DEF fresh
<1>4. /\ calls' \in [Call -> Flight \cup {Idle}] /\ Others(c) /\ Asks(c)
      /\ calls'[c].step = "answered" /\ calls'[c].token = calls[c].token
      /\ calls'[c].fresh = fresh /\ calls'[c].code = 200
  BY <1>0, <1>2, <1>3, Answered
<1>. HIDE DEF u, e
<1>5. /\ usuarios' \in [User -> [email : Email, senha : Senha] \cup {None}]
      /\ \A v \in User : v # u => usuarios'[v] = usuarios[v]
      /\ usuarios'[u] \in [email : Email, senha : Senha] /\ usuarios'[u].email = e
  BY <1>0, <1>1, <1>3 DEF TypeOK
<1>6. Accounts' = Accounts
  BY <1>1, <1>5, SessionAssumption DEF Accounts
<1>7. TypeOK'
  BY <1>0, <1>3, <1>4, <1>5 DEF TypeOK
<1>8. CallInv'
  <2>1. CallOK(c)'
    BY <1>0, <1>4 DEF IInv, CallInv, CallOK, InFlight, Public, Asks
  <2>. QED
    BY <1>0, <1>4, <2>1, CallKept DEF IInv
<1>9. SubjectInv'
  BY <1>0, <1>1, <1>2, <1>4, <1>6 DEF IInv, SubjectInv, Signed, Others, InFlight
<1>10. RoomInv'
  <2>1. Registering' \subseteq Registering
    BY <1>0, <1>4 DEF Registering, Others
  <2>. QED
    BY <1>0, <1>6, <2>1, RoomKept DEF IInv
<1>11. ClaimOK(c) /\ Claims(c)
  BY <1>0 DEF IInv, ClaimInv, Claims
<1>12. ClaimInv'
  <2>. SUFFICES ASSUME NEW d \in Call, Claims(d)' PROVE ClaimOK(d)'
    BY DEF ClaimInv
  <2>1. d # c
    BY <1>4 DEF Claims
  <2>2. ClaimOK(d) /\ Claims(d) /\ calls'[d] = calls[d]
    BY <1>4, <2>1 DEF IInv, ClaimInv, Claims, Others
  <2>3. CASE calls[d].email \in raced
    BY <1>0, <2>2, <2>3 DEF ClaimOK
  <2>4. CASE calls[d].email \notin raced
    <3>1. calls[d].email # e
      BY <1>11, <2>1, <2>2, <2>4 DEF ClaimOK, e
    <3>2. Holders(calls[d].email)' \subseteq Holders(calls[d].email)
      BY <1>1, <1>5, <1>6, <2>2, <3>1 DEF Holders, Accounts
    <3>3. \A f \in Call \ {d} : Claims(f)' => calls'[f].email # calls'[d].email
      BY <1>4, <2>2, <2>4 DEF ClaimOK, Claims, Others
    <3>. QED
      BY <2>2, <2>4, <3>2, <3>3 DEF ClaimOK
  <2>. QED
    BY <2>3, <2>4
<1>13. AccountsAreOwn'
  <2>0. Accounts \subseteq User
    BY DEF Accounts
  <2>1. ASSUME NEW v \in Accounts, v # u, usuarios[v].email = e
        PROVE  e \in raced
    <3>1. v \in Holders(e)
      BY <2>1 DEF Holders
    <3>. QED
      BY <1>0, <1>11, <2>1, <3>1 DEF ClaimOK, e, u
  <2>2. \A v, w \in Accounts' :
          usuarios'[v].email = usuarios'[w].email => v = w \/ usuarios'[v].email \in raced'
    <3>. SUFFICES ASSUME NEW v \in Accounts, NEW w \in Accounts, v # w,
                         usuarios'[v].email = usuarios'[w].email
                  PROVE  usuarios'[v].email \in raced
      BY <1>0, <1>6
    <3>1. CASE v # u /\ w # u
      BY <1>5, <2>0, <3>1 DEF IInv, AccountsAreOwn
    <3>2. CASE v = u
      BY <1>5, <2>0, <2>1, <3>2
    <3>3. CASE w = u
      BY <1>5, <2>0, <2>1, <3>3
    <3>. QED
      BY <3>1, <3>2, <3>3
  <2>3. \A d \in Call :
          InFlight(d)' /\ calls'[d].step = "answered" /\ calls'[d].kind = "register" /\ calls'[d].code = 200
            => calls'[d].created \/ calls'[d].email \in raced'
    BY <1>0, <1>4 DEF IInv, AccountsAreOwn, Others, InFlight, Asks
  <2>. QED
    BY <2>2, <2>3 DEF AccountsAreOwn
<1>14. TokenInv'
  <2>. SUFFICES ASSUME ~overtaken'
                PROVE  /\ token # None => UpToDate(token)' \/ \E d \in Call : Renames(d, token.sub)'
                       /\ \A d \in Call : FreshOK(d)'
    BY <1>0 DEF TokenInv
  <2>0. ~overtaken /\ calls[c].tab # None /\ Carriers(c, u) = {}
    BY <1>3
  <2>1. \A v \in Accounts : v # u => usuarios'[v] = usuarios[v]
    BY <1>5 DEF Accounts
  <2>2. \A d \in Call : \A v : Renames(d, v) => Renames(d, v)'
    BY <1>0, <1>4 DEF Renames, Others
  <2>3. \A v : v = u => Renames(c, v)'
    BY <1>0, <1>2, <1>4, <2>0 DEF Renames, Asks
  <2>4. token # None => UpToDate(token)' \/ \E d \in Call : Renames(d, token.sub)'
    <3>1. CASE token # None /\ token.sub # u
      BY <1>0, <2>0, <2>1, <2>2, <3>1 DEF IInv, TokenInv, SubjectInv, Signed, UpToDate
    <3>2. CASE token # None /\ token.sub = u
      BY <1>0, <2>3, <3>2
    <3>. QED
      BY <3>1, <3>2
  <2>5. ASSUME NEW d \in Call, d # c
        PROVE  FreshOK(d)'
    <3>1. calls'[d] = calls[d] /\ FreshOK(d) /\ d \notin Carriers(c, u)
      BY <1>4, <2>0, <2>5 DEF IInv, TokenInv, Others
    <3>2. calls[d].step = "refreshing" => calls[d].token.sub \in Accounts /\ calls[d].token.sub # u
      BY <2>5, <3>1 DEF IInv, CallInv, CallOK, SubjectInv, Signed, InFlight, Carriers
    <3>3. calls[d].step \in {"answered", "renewed"} /\ calls[d].fresh # None =>
            calls[d].fresh.sub \in Accounts /\ calls[d].fresh.sub # u
      BY <2>5, <3>1 DEF IInv, SubjectInv, Signed, InFlight, Carriers
    <3>. QED
      BY <2>1, <3>1, <3>2, <3>3 DEF FreshOK, UpToDate
  <2>6. FreshOK(c)'
    BY <1>2, <1>4, <1>5 DEF FreshOK, UpToDate
  <2>. QED
    BY <2>4, <2>5, <2>6
<1>. QED
  BY <1>7, <1>8, <1>9, <1>10, <1>12, <1>13, <1>14 DEF IInv

\* updatePassword leaves every e-mail alone.
LEMMA PasswordKeeps ==
  ASSUME IInv, NEW c \in Call, UpdatePassword(c)
  PROVE  IInv'
<1>. DEFINE u == calls[c].token.sub
<1>0. /\ TypeOK /\ InFlight(c) /\ calls[c].step = "checked" /\ calls[c].kind = "password"
      /\ UNCHANGED <<clock, token, store, leaving, made, raced, overtaken>>
      /\ calls[c] \in Flight /\ calls[c].nova \in Senha /\ calls[c].token # None
  <2>1. TypeOK /\ InFlight(c) /\ calls[c].step = "checked" /\ calls[c].kind = "password"
    BY DEF UpdatePassword, IInv, InFlight
  <2>. QED
    BY <2>1, FlightOf DEF IInv, CallInv, CallOK, UpdatePassword
<1>1. u \in Accounts /\ u \in User /\ usuarios[u] \in [email : Email, senha : Senha]
  BY <1>0, AccountType DEF IInv, SubjectInv, Signed
<1>2. /\ usuarios' = [usuarios EXCEPT ![u].senha = calls[c].nova]
      /\ Answer(c, 200, None)
  BY DEF UpdatePassword
<1>3. /\ calls' \in [Call -> Flight \cup {Idle}] /\ Others(c) /\ Asks(c)
      /\ calls'[c].step = "answered" /\ calls'[c].token = calls[c].token
      /\ calls'[c].fresh = None /\ calls'[c].code = 200
  BY <1>0, <1>2, Answered
<1>. HIDE DEF u
<1>4. /\ usuarios' \in [User -> [email : Email, senha : Senha] \cup {None}]
      /\ \A v \in User : v # u => usuarios'[v] = usuarios[v]
      /\ usuarios'[u] \in [email : Email, senha : Senha] /\ usuarios'[u].email = usuarios[u].email
  BY <1>0, <1>1, <1>2 DEF TypeOK
<1>5. /\ Accounts' = Accounts
      /\ \A v \in Accounts : usuarios'[v].email = usuarios[v].email
  BY <1>1, <1>4, SessionAssumption DEF Accounts
<1>6. TypeOK'
  BY <1>0, <1>3, <1>4 DEF TypeOK
<1>7. CallInv'
  <2>1. CallOK(c)'
    BY <1>0, <1>3 DEF IInv, CallInv, CallOK, InFlight, Public, Asks
  <2>. QED
    BY <1>0, <1>3, <2>1, CallKept DEF IInv
<1>8. SubjectInv'
  BY <1>0, <1>3, <1>5 DEF IInv, SubjectInv, Signed, Others, InFlight
<1>9. RoomInv'
  <2>1. Registering' \subseteq Registering
    BY <1>0, <1>3 DEF Registering, Others
  <2>. QED
    BY <1>0, <1>5, <2>1, RoomKept DEF IInv
<1>10. ClaimInv'
  <2>. SUFFICES ASSUME NEW d \in Call, Claims(d)' PROVE ClaimOK(d)'
    BY DEF ClaimInv
  <2>1. ClaimOK(d) /\ Claims(d) /\ calls'[d] = calls[d]
    BY <1>3 DEF IInv, ClaimInv, Claims, Others
  <2>2. Holders(calls[d].email)' \subseteq Holders(calls[d].email)
    BY <1>5, <2>1 DEF Holders
  <2>3. \A f \in Call : Claims(f)' => Claims(f) /\ calls'[f].email = calls[f].email
    BY <1>3 DEF Claims, Others
  <2>. QED
    BY <1>0, <2>1, <2>2, <2>3 DEF ClaimOK
<1>11. AccountsAreOwn'
  BY <1>0, <1>3, <1>5 DEF IInv, AccountsAreOwn, Others, InFlight, Asks
<1>12. TokenInv'
  <2>. SUFFICES ASSUME ~overtaken
                PROVE  /\ token # None => UpToDate(token)' \/ \E d \in Call : Renames(d, token.sub)'
                       /\ \A d \in Call : FreshOK(d)'
    BY <1>0 DEF TokenInv
  <2>1. \A d \in Call : \A v : Renames(d, v) => Renames(d, v)'
    BY <1>0, <1>3 DEF Renames, Others
  <2>2. token # None => UpToDate(token)' \/ \E d \in Call : Renames(d, token.sub)'
    BY <1>0, <1>5, <2>1 DEF IInv, TokenInv, SubjectInv, Signed, UpToDate
  <2>3. ASSUME NEW d \in Call, d # c
        PROVE  FreshOK(d)'
    <3>1. calls'[d] = calls[d] /\ FreshOK(d)
      BY <1>3, <2>3 DEF IInv, TokenInv, Others
    <3>2. calls[d].step = "refreshing" => calls[d].token.sub \in Accounts
      BY DEF IInv, CallInv, CallOK, SubjectInv, Signed, InFlight
    <3>3. calls[d].step \in {"answered", "renewed"} /\ calls[d].fresh # None => calls[d].fresh.sub \in Accounts
      BY DEF IInv, SubjectInv, Signed, InFlight
    <3>. QED
      BY <1>5, <3>1, <3>2, <3>3 DEF FreshOK, UpToDate
  <2>4. FreshOK(c)'
    BY <1>3 DEF FreshOK
  <2>. QED
    BY <2>2, <2>3, <2>4
<1>. QED
  BY <1>6, <1>7, <1>8, <1>9, <1>10, <1>11, <1>12 DEF IInv

-----------------------------------------------------------------------------
(* The tabs *)

\* A request is started in a free slot, with the token that is stored.
LEMMA OpenKeeps ==
  ASSUME IInv, NEW t \in Tab, NEW kind \in Kind,
         NEW email \in Email \cup {None}, NEW senha \in Senha \cup {None}, NEW nova \in Senha \cup {None},
         Open(t, kind, email, senha, nova),
         kind \in Public \cup {"profile"} => email \in Email,
         kind \in Public => senha \in Senha,
         kind = "password" => nova \in Senha,
         kind = "register" =>
           Cardinality(User \ Accounts) > Cardinality({d \in Call : InFlight(d) /\ calls[d].kind = "register"})
  PROVE  IInv'
<1>. DEFINE n == [kind |-> kind, tab |-> t, step |-> "sent", token |-> token, retried |-> FALSE,
                  email |-> email, senha |-> senha, nova |-> nova,
                  code |-> 0, fresh |-> None, created |-> FALSE]
<1>0. TypeOK /\ UNCHANGED <<usuarios, clock, token, store, leaving, raced, overtaken>>
  BY DEF IInv, Open
<1>1. PICK c \in Call : ~InFlight(c) /\ calls' = [calls EXCEPT ![c] = n]
  BY DEF Open
<1>2. made' = made + 1 /\ made < MaxCalls
  BY DEF Open
<1>3. n \in Flight
  BY <1>0 DEF TypeOK, Flight, Step
<1>4. /\ n.kind = kind /\ n.step = "sent" /\ n.token = token /\ n.fresh = None
      /\ n.email = email /\ n.senha = senha /\ n.nova = nova
  OBVIOUS
<1>. HIDE DEF n
<1>5. calls' \in [Call -> Flight \cup {Idle}] /\ calls'[c] = n /\ Others(c)
  BY <1>0, <1>1, <1>3 DEF TypeOK, Others
<1>6. TypeOK'
  <2>1. made' \in 0..MaxCalls
    BY <1>0, <1>2, SessionAssumption DEF TypeOK
  <2>. QED
    BY <1>0, <1>5, <2>1 DEF TypeOK
<1>7. CallOK(c)'
  BY <1>4, <1>5 DEF CallOK, InFlight
<1>8. Signed(token)' /\ Signed(calls[c].token)' /\ Signed(calls[c].fresh)'
  BY <1>0, <1>4, <1>5 DEF IInv, SubjectInv, Signed, Accounts
<1>9. Registering' \subseteq Registering \cup {c} /\ Accounts' = Accounts
  BY <1>0, <1>5 DEF Registering, Others, Accounts
<1>10. RoomInv'
  <2>1. CASE kind # "register"
    <3>1. Registering' \subseteq Registering
      BY <1>4, <1>5, <1>9, <2>1 DEF Registering
    <3>. QED
      BY <1>0, <1>9, <3>1, RoomKept DEF IInv
  <2>2. CASE kind = "register"
    <3>. DEFINE R == {d \in Call : InFlight(d) /\ calls[d].kind = "register"}
    <3>1. Registering \subseteq R /\ R \subseteq Call
      BY DEF Registering, InFlight
    <3>2. /\ IsFiniteSet(R) /\ IsFiniteSet(Registering) /\ IsFiniteSet(Registering \cup {c})
          /\ IsFiniteSet(Registering')
      BY <1>1, <1>9, <3>1, SessionAssumption, FS_Subset, FS_AddElement
    <3>3. /\ Cardinality(Registering') <= Cardinality(Registering \cup {c})
          /\ Cardinality(Registering) <= Cardinality(R)
      BY <1>9, <3>1, <3>2, FS_Subset
    <3>4. Cardinality(Registering \cup {c}) <= Cardinality(Registering) + 1
      <4>1. Cardinality(Registering) \in Nat
        BY <3>2, FS_CardinalityType
      <4>2. \/ Cardinality(Registering \cup {c}) = Cardinality(Registering)
            \/ Cardinality(Registering \cup {c}) = Cardinality(Registering) + 1
        BY <3>2, FS_AddElement
      <4>. QED
        BY <4>1, <4>2
    <3>5. /\ Cardinality(Registering') \in Nat /\ Cardinality(Registering \cup {c}) \in Nat
          /\ Cardinality(Registering) \in Nat /\ Cardinality(R) \in Nat
          /\ Cardinality(User \ Accounts) \in Nat
      BY <3>2, SessionAssumption, FS_Subset, FS_CardinalityType
    <3>6. Cardinality(R) < Cardinality(User \ Accounts)
      BY <2>2, <3>5
    <3>7. Cardinality(Registering') <= Cardinality(User \ Accounts)
      BY <3>3, <3>4, <3>5, <3>6
    <3>. QED
      BY <1>9, <3>7 DEF RoomInv
  <2>. QED
    BY <2>1, <2>2
<1>11. ClaimInv'
  <2>1. \A d \in Call : Claims(d)' =>
          /\ Claims(d)
          /\ calls'[d].email = calls[d].email /\ calls'[d].kind = calls[d].kind
          /\ calls'[d].token = calls[d].token
    BY <1>4, <1>5 DEF Claims, Others
  <2>. QED
    BY <1>0, <2>1, ClaimKept DEF IInv
<1>12. FreshOK(c)' /\ \A u : Renames(c, u) => Renames(c, u)'
  BY <1>1, <1>4, <1>5 DEF FreshOK, Renames, InFlight
<1>13. ~overtaken' /\ token' # None =>
         \/ UpToDate(token')
         \/ UNCHANGED token /\ \A u : Renames(c, u) => Renames(c, u)'
  BY <1>0, <1>12
<1>14. calls'[c].step # "answered"
  BY <1>4, <1>5
<1>. QED
  BY <1>0, <1>1, <1>5, <1>6, <1>7, <1>8, <1>10, <1>11, <1>12, <1>13, <1>14, CallMoves

LEMMA UsersKeep ==
  ASSUME IInv, NEW t \in Tab, Users(t)
  PROVE  IInv'
<1>. USE DEF Kind, Public
<1>1. CASE SubmitLogin(t)
  BY <1>1, OpenKeeps DEF SubmitLogin
<1>2. CASE SubmitRegister(t)
  BY <1>2, OpenKeeps DEF SubmitRegister
<1>3. CASE Browse(t)
  BY <1>3, OpenKeeps DEF Browse
<1>4. CASE SalvarPerfil(t)
  BY <1>4, OpenKeeps DEF SalvarPerfil
<1>5. CASE TrocarSenha(t)
  BY <1>5, OpenKeeps DEF TrocarSenha
<1>. QED
  BY <1>1, <1>2, <1>3, <1>4, <1>5 DEF Users

\* A request ends, with a token stored that is up to date, or none, or the same.
LEMMA CloseKeeps ==
  ASSUME IInv, NEW c \in Call, Close(c),
         UNCHANGED <<usuarios, clock, made, raced, overtaken>>,
         token' \in Token \cup {None}, Signed(token)',
         store' \in [Tab -> [sub : User, email : Email] \cup {None}], leaving' \subseteq Tab,
         ~overtaken /\ token' # None =>
           \/ UpToDate(token')
           \/ UNCHANGED token /\ \A u : ~Renames(c, u)
  PROVE  IInv'
<1>1. /\ calls' \in [Call -> Flight \cup {Idle}] /\ Others(c) /\ calls'[c].step = "idle"
  BY Closed DEF IInv
<1>2. TypeOK'
  BY <1>1 DEF IInv, TypeOK
<1>3. CallOK(c)' /\ ~InFlight(c)' /\ FreshOK(c)'
  BY <1>1 DEF CallOK, InFlight, FreshOK
<1>4. RoomInv'
  <2>1. Registering' \subseteq Registering /\ Accounts' = Accounts
    BY <1>1 DEF Registering, Others, Accounts
  <2>. QED
    BY <2>1, RoomKept DEF IInv
<1>5. ClaimInv'
  <2>1. \A d \in Call : Claims(d)' =>
          /\ Claims(d)
          /\ calls'[d].email = calls[d].email /\ calls'[d].kind = calls[d].kind
          /\ calls'[d].token = calls[d].token
    BY <1>1 DEF Claims, Others
  <2>. QED
    BY <2>1, ClaimKept DEF IInv
<1>. QED
  BY <1>1, <1>2, <1>3, <1>4, <1>5, CallMoves

LEMMA SetSessionKeeps ==
  ASSUME IInv, NEW c \in Call, SetSession(c)
  PROVE  IInv'
<1>1. /\ TypeOK /\ InFlight(c) /\ calls[c].step = "answered" /\ calls[c].fresh # None
      /\ calls[c].tab # None /\ Close(c) /\ token' = calls[c].fresh
      /\ store' = [store EXCEPT ![calls[c].tab] = [sub |-> calls[c].fresh.sub, email |-> calls[c].email]]
      /\ UNCHANGED <<usuarios, clock, leaving, made, raced, overtaken>>
  BY DEF SetSession, IInv, InFlight
<1>2. calls[c].fresh \in Token /\ calls[c].tab \in Tab /\ calls[c].email \in Email
  BY <1>1, FlightOf DEF Flight, IInv, CallInv, CallOK
<1>3. Signed(token)'
  BY <1>1 DEF IInv, SubjectInv, Signed, Accounts
<1>4. store' \in [Tab -> [sub : User, email : Email] \cup {None}]
  <2>1. [sub |-> calls[c].fresh.sub, email |-> calls[c].email] \in [sub : User, email : Email]
    BY <1>2 DEF Token
  <2>. QED
    BY <1>1, <1>2, <2>1 DEF TypeOK
<1>5. ~overtaken => UpToDate(token')
  BY <1>1 DEF IInv, TokenInv, FreshOK
<1>6. token' \in Token \cup {None} /\ leaving' \subseteq Tab
  BY <1>1, <1>2 DEF TypeOK
<1>. QED
  BY <1>1, <1>3, <1>4, <1>5, <1>6, CloseKeeps

LEMMA ShowKeeps ==
  ASSUME IInv, NEW c \in Call, Show(c) \/ Drop(c)
  PROVE  IInv'
<1>1. /\ Close(c) /\ UNCHANGED <<usuarios, clock, token, store, leaving, made, raced, overtaken>>
      /\ \A u : ~Renames(c, u)
  BY DEF Show, Drop, Renames
<1>2. /\ token' \in Token \cup {None} /\ Signed(token)'
      /\ store' \in [Tab -> [sub : User, email : Email] \cup {None}] /\ leaving' \subseteq Tab
  BY <1>1 DEF IInv, TypeOK, SubjectInv, Signed, Accounts
<1>. QED
  BY <1>1, <1>2, CloseKeeps

LEMMA SignOutKeeps ==
  ASSUME IInv, NEW c \in Call, SignOut(c)
  PROVE  IInv'
<1>1. /\ Close(c) /\ token' = None /\ leaving' = leaving \cup {calls[c].tab}
      /\ UNCHANGED <<usuarios, clock, store, made, raced, overtaken>>
  BY DEF SignOut
<1>2. calls[c].tab \in Tab
  <2>1. TypeOK /\ InFlight(c) /\ calls[c].tab # None
    BY DEF SignOut, Expired, InFlight, IInv, CallInv, CallOK
  <2>. QED
    BY <2>1, FlightOf DEF Flight
<1>3. /\ token' \in Token \cup {None} /\ Signed(token)'
      /\ store' \in [Tab -> [sub : User, email : Email] \cup {None}] /\ leaving' \subseteq Tab
  BY <1>1, <1>2 DEF IInv, TypeOK, Signed
<1>. QED
  BY <1>1, <1>3, CloseKeeps

\* The stored token is captured: while nothing was overtaken, no profile change is
\* about to replace it.
LEMMA TentarRefreshKeeps ==
  ASSUME IInv, NEW c \in Call, TentarRefresh(c)
  PROVE  IInv'
<1>. DEFINE n1 == [calls[c] EXCEPT !.step = "refreshing"]
            n2 == [n1 EXCEPT !.token = token]
            n3 == [n2 EXCEPT !.code = 0]
<1>0. /\ TypeOK /\ InFlight(c) /\ calls[c].step = "answered" /\ calls[c].kind \notin Public
      /\ calls[c].tab # None /\ token # None
      /\ UNCHANGED <<usuarios, clock, token, store, leaving, made, raced>>
      /\ calls \in [Call -> Flight \cup {Idle}] /\ calls[c] \in Flight
      /\ overtaken => overtaken'
  <2>1. TypeOK /\ InFlight(c)
    BY DEF TentarRefresh, Expired, IInv, InFlight
  <2>. QED
    BY <2>1, FlightOf DEF TentarRefresh, Expired, TypeOK
<1>1. /\ calls' \in [Call -> {calls[d] : d \in Call} \cup {n3}] /\ calls'[c] = n3
      /\ Others(c)
  BY <1>0 DEF TentarRefresh, Others
<1>2. /\ n1 \in Flight /\ n1.step = "refreshing" /\ n1.kind = calls[c].kind /\ n1.tab = calls[c].tab
      /\ n1.email = calls[c].email /\ n1.senha = calls[c].senha /\ n1.nova = calls[c].nova
      /\ n1.fresh = calls[c].fresh
  BY <1>0 DEF Flight, Step
<1>. HIDE DEF n1
<1>3. /\ n2 \in Flight /\ n2.step = "refreshing" /\ n2.kind = calls[c].kind /\ n2.tab = calls[c].tab
      /\ n2.email = calls[c].email /\ n2.senha = calls[c].senha /\ n2.nova = calls[c].nova
      /\ n2.fresh = calls[c].fresh /\ n2.token = token
  BY <1>0, <1>2 DEF Flight, TypeOK
<1>. HIDE DEF n2
<1>4. /\ n3 \in Flight /\ n3.step = "refreshing" /\ n3.kind = calls[c].kind /\ n3.tab = calls[c].tab
      /\ n3.email = calls[c].email /\ n3.senha = calls[c].senha /\ n3.nova = calls[c].nova
      /\ n3.fresh = calls[c].fresh /\ n3.token = token
  BY <1>3 DEF Flight
<1>. HIDE DEF n3
<1>5. TypeOK'
  <2>1. overtaken' \in BOOLEAN
    BY DEF TentarRefresh
  <2>. QED
    BY <1>0, <1>1, <1>4, <2>1 DEF TypeOK
<1>6. CallOK(c)'
  BY <1>0, <1>1, <1>4 DEF IInv, CallInv, CallOK, InFlight
<1>7. Signed(token)' /\ Signed(calls[c].token)' /\ Signed(calls[c].fresh)'
  BY <1>0, <1>1, <1>4 DEF IInv, SubjectInv, Signed, Accounts
<1>8. RoomInv'
  <2>1. Registering' \subseteq Registering /\ Accounts' = Accounts
    BY <1>0, <1>1, <1>4 DEF Registering, Others, Accounts
  <2>. QED
    BY <1>0, <2>1, RoomKept DEF IInv
<1>9. ClaimInv'
  <2>1. \A d \in Call : Claims(d)' =>
          /\ Claims(d)
          /\ calls'[d].email = calls[d].email /\ calls'[d].kind = calls[d].kind
          /\ calls'[d].token = calls[d].token
    BY <1>1, <1>4 DEF Claims, Others
  <2>. QED
    BY <1>0, <2>1, ClaimKept DEF IInv
<1>10. ~overtaken' => UpToDate(token)
  <2>1. ~overtaken' => ~overtaken /\ ~\E d \in Call : Renames(d, token.sub)
    BY <1>0 DEF TentarRefresh, Renames
  <2>. QED
    BY <1>0, <2>1 DEF IInv, TokenInv
<1>11. ~overtaken' => FreshOK(c)' /\ UpToDate(token')
  BY <1>0, <1>1, <1>4, <1>10 DEF FreshOK, UpToDate
<1>12. calls'[c].step # "answered"
  BY <1>1, <1>4
<1>. QED
  BY <1>0, <1>1, <1>5, <1>6, <1>7, <1>8, <1>9, <1>11, <1>12, CallMoves

LEMMA RetryKeeps ==
  ASSUME IInv, NEW c \in Call, Retry(c)
  PROVE  IInv'
<1>. DEFINE n1 == [calls[c] EXCEPT !.step = "sent"]
            n2 == [n1 EXCEPT !.token = calls[c].fresh]
            n3 == [n2 EXCEPT !.fresh = None]
            n4 == [n3 EXCEPT !.retried = TRUE]
<1>0. /\ TypeOK /\ InFlight(c) /\ calls[c].step = "renewed" /\ calls[c].kind \notin Public
      /\ UNCHANGED <<usuarios, clock, store, leaving, made, raced, overtaken>>
      /\ calls \in [Call -> Flight \cup {Idle}] /\ calls[c] \in Flight
      /\ calls[c].fresh \in Token /\ token' = calls[c].fresh
  <2>1. TypeOK /\ InFlight(c) /\ calls[c].step = "renewed"
    BY DEF Retry, IInv, InFlight
  <2>2. calls[c] \in Flight /\ calls[c].kind \notin Public /\ calls[c].fresh # None
    BY <2>1, FlightOf DEF IInv, CallInv, CallOK
  <2>. QED
    BY <2>1, <2>2 DEF Retry, TypeOK, Flight
<1>1. /\ calls' \in [Call -> {calls[d] : d \in Call} \cup {n4}] /\ calls'[c] = n4
      /\ Others(c)
  BY <1>0 DEF Retry, Others
<1>2. /\ n1 \in Flight /\ n1.step = "sent" /\ n1.kind = calls[c].kind
      /\ n1.email = calls[c].email /\ n1.senha = calls[c].senha /\ n1.nova = calls[c].nova
  BY <1>0 DEF Flight, Step
<1>. HIDE DEF n1
<1>3. /\ n2 \in Flight /\ n2.step = "sent" /\ n2.kind = calls[c].kind
      /\ n2.email = calls[c].email /\ n2.senha = calls[c].senha /\ n2.nova = calls[c].nova
      /\ n2.token = calls[c].fresh
  BY <1>0, <1>2 DEF Flight
<1>. HIDE DEF n2
<1>4. /\ n3 \in Flight /\ n3.step = "sent" /\ n3.kind = calls[c].kind
      /\ n3.email = calls[c].email /\ n3.senha = calls[c].senha /\ n3.nova = calls[c].nova
      /\ n3.token = calls[c].fresh /\ n3.fresh = None
  BY <1>3 DEF Flight
<1>. HIDE DEF n3
<1>5. /\ n4 \in Flight /\ n4.step = "sent" /\ n4.kind = calls[c].kind
      /\ n4.email = calls[c].email /\ n4.senha = calls[c].senha /\ n4.nova = calls[c].nova
      /\ n4.token = calls[c].fresh /\ n4.fresh = None
  <2>1. n4 \in Flight
    <3>1. \A r \in Flight : \A b \in BOOLEAN : [r EXCEPT !.retried = b] \in Flight
      BY SMTT(30) DEF Flight
    <3>. QED
      BY <1>4, <3>1, Zenon
  <2>. QED
    BY <1>4, <2>1 DEF Flight
<1>. HIDE DEF n4
<1>6. TypeOK'
  BY <1>0, <1>1, <1>5 DEF TypeOK
<1>7. CallOK(c)'
  BY <1>0, <1>1, <1>5 DEF IInv, CallInv, CallOK, InFlight
<1>8. Signed(token)' /\ Signed(calls[c].token)' /\ Signed(calls[c].fresh)'
  BY <1>0, <1>1, <1>5 DEF IInv, SubjectInv, Signed, Accounts
<1>9. RoomInv'
  <2>1. Registering' \subseteq Registering /\ Accounts' = Accounts
    BY <1>0, <1>1, <1>5 DEF Registering, Others, Accounts, Public
  <2>. QED
    BY <1>0, <2>1, RoomKept DEF IInv
<1>10. ClaimInv'
  <2>1. \A d \in Call : Claims(d)' =>
          /\ Claims(d)
          /\ calls'[d].email = calls[d].email /\ calls'[d].kind = calls[d].kind
          /\ calls'[d].token = calls[d].token
    BY <1>1, <1>5 DEF Claims, Others
  <2>. QED
    BY <1>0, <2>1, ClaimKept DEF IInv
<1>11. FreshOK(c)' /\ (~overtaken => UpToDate(token'))
  BY <1>0, <1>1, <1>5, SessionAssumption DEF IInv, TokenInv, FreshOK, Token
<1>12. calls'[c].step # "answered"
  BY <1>1, <1>5
<1>. QED
  BY <1>0, <1>1, <1>6, <1>7, <1>8, <1>9, <1>10, <1>11, <1>12, CallMoves

\* A page load cuts the requests of the old page off, and a profile change whose
\* answer is lost that way counts as overtaken.
LEMMA ReloadKeeps ==
  ASSUME IInv, NEW t \in Tab, Reload(t)
  PROVE  IInv'
<1>0. /\ TypeOK /\ UNCHANGED <<usuarios, clock, token, made, raced>>
      /\ overtaken => overtaken'
      /\ leaving' \subseteq Tab /\ overtaken' \in BOOLEAN
  BY DEF Reload, IInv, TypeOK
<1>1. calls \in [Call -> Flight \cup {Idle}]
  BY <1>0 DEF TypeOK
<1>2. \A d \in Call :
        \/ calls'[d] = calls[d]
        \/ /\ calls[d].step \in {"sent", "checked", "missed"}
           /\ calls'[d] = [calls[d] EXCEPT !.tab = None]
        \/ calls'[d] = Idle
  BY <1>1 DEF Reload
<1>3. \A d \in Call : calls[d].step \in {"sent", "checked", "missed"} =>
        /\ [calls[d] EXCEPT !.tab = None] \in Flight
        /\ [calls[d] EXCEPT !.tab = None].step = calls[d].step
        /\ [calls[d] EXCEPT !.tab = None].kind = calls[d].kind
        /\ [calls[d] EXCEPT !.tab = None].token = calls[d].token
        /\ [calls[d] EXCEPT !.tab = None].email = calls[d].email
        /\ [calls[d] EXCEPT !.tab = None].senha = calls[d].senha
        /\ [calls[d] EXCEPT !.tab = None].nova = calls[d].nova
        /\ [calls[d] EXCEPT !.tab = None].fresh = calls[d].fresh
  <2>1. \A d \in Call : calls[d].step \in {"sent", "checked", "missed"} => calls[d] \in Flight
    BY <1>1 DEF Idle
  <2>. QED
    BY <2>1 DEF Flight
<1>4. \A d \in Call :
        \/ calls'[d] = calls[d]
        \/ /\ calls[d].step \in {"sent", "checked", "missed"} /\ calls'[d] \in Flight
           /\ calls'[d].step = calls[d].step /\ calls'[d].kind = calls[d].kind
           /\ calls'[d].token = calls[d].token /\ calls'[d].email = calls[d].email
           /\ calls'[d].senha = calls[d].senha /\ calls'[d].nova = calls[d].nova
           /\ calls'[d].fresh = calls[d].fresh
        \/ calls'[d] = Idle /\ calls'[d].step = "idle"
  <2>. SUFFICES ASSUME NEW d \in Call, calls'[d] # calls[d], calls'[d] # Idle
                PROVE  /\ calls[d].step \in {"sent", "checked", "missed"} /\ calls'[d] \in Flight
                       /\ calls'[d].step = calls[d].step /\ calls'[d].kind = calls[d].kind
                       /\ calls'[d].token = calls[d].token /\ calls'[d].email = calls[d].email
                       /\ calls'[d].senha = calls[d].senha /\ calls'[d].nova = calls[d].nova
                       /\ calls'[d].fresh = calls[d].fresh
    BY DEF Idle
  <2>. DEFINE n == [calls[d] EXCEPT !.tab = None]
  <2>1. calls[d].step \in {"sent", "checked", "missed"} /\ calls'[d] = n
    BY <1>2
  <2>2. /\ n \in Flight /\ n.step = calls[d].step /\ n.kind = calls[d].kind
        /\ n.token = calls[d].token /\ n.email = calls[d].email
        /\ n.senha = calls[d].senha /\ n.nova = calls[d].nova /\ n.fresh = calls[d].fresh
    BY <1>3, <2>1
  <2>. HIDE DEF n
  <2>. QED
    BY <2>1, <2>2
<1>5. calls' \in [Call -> Flight \cup {Idle}]
  <2>1. calls' = [d \in Call |-> calls'[d]]
    BY DEF Reload
  <2>. QED
    BY <1>1, <1>4, <2>1
<1>6. store' \in [Tab -> [sub : User, email : Email] \cup {None}]
  BY <1>0 DEF Reload, TypeOK, ShownBy, Token
<1>7. TypeOK'
  BY <1>0, <1>5, <1>6 DEF TypeOK
<1>8. CallInv'
  <2>. SUFFICES ASSUME NEW d \in Call PROVE CallOK(d)'
    BY DEF CallInv
  <2>1. CallOK(d)
    BY DEF IInv, CallInv
  <2>2. CASE calls'[d] = calls[d]
    BY <1>0, <2>1, <2>2 DEF CallOK, InFlight, Refreshable
  <2>3. CASE /\ calls[d].step \in {"sent", "checked", "missed"}
             /\ calls'[d].step = calls[d].step /\ calls'[d].kind = calls[d].kind
             /\ calls'[d].token = calls[d].token /\ calls'[d].email = calls[d].email
             /\ calls'[d].senha = calls[d].senha /\ calls'[d].nova = calls[d].nova
    BY <2>1, <2>3 DEF CallOK, InFlight
  <2>4. CASE calls'[d].step = "idle"
    BY <2>4 DEF CallOK, InFlight
  <2>. QED
    BY <1>4, <2>2, <2>3, <2>4
<1>9. SubjectInv'
  BY <1>0, <1>4 DEF IInv, SubjectInv, Signed, Accounts, InFlight
<1>10. RoomInv'
  <2>1. Registering' \subseteq Registering /\ Accounts' = Accounts
    BY <1>0, <1>4 DEF Registering, Accounts
  <2>. QED
    BY <1>0, <2>1, RoomKept DEF IInv
<1>11. ClaimInv'
  <2>1. \A d \in Call : Claims(d)' =>
          /\ Claims(d)
          /\ calls'[d].email = calls[d].email /\ calls'[d].kind = calls[d].kind
          /\ calls'[d].token = calls[d].token
    BY <1>4 DEF Claims
  <2>. QED
    BY <1>0, <2>1, ClaimKept DEF IInv
<1>12. AccountsAreOwn'
  <2>1. \A d \in Call : calls'[d].step = "answered" => calls'[d] = calls[d]
    BY <1>4
  <2>. QED
    BY <1>0, <2>1 DEF IInv, AccountsAreOwn, Accounts, InFlight
<1>13. TokenInv'
  <2>. SUFFICES ASSUME ~overtaken'
                PROVE  /\ token # None => UpToDate(token)' \/ \E d \in Call : Renames(d, token.sub)'
                       /\ \A d \in Call : FreshOK(d)'
    BY <1>0 DEF TokenInv
  <2>1. \A d \in Call : FreshOK(d)'
    BY <1>0, <1>4 DEF IInv, TokenInv, FreshOK, UpToDate
  <2>2. ASSUME NEW d \in Call, NEW u, Renames(d, u)
        PROVE  calls'[d] = calls[d]
    <3>1. d \notin Mine(t)
      BY <2>2 DEF Reload, Renames
    <3>. QED
      BY <3>1 DEF Reload
  <2>3. \A d \in Call : \A u : Renames(d, u) => Renames(d, u)'
    BY <2>2 DEF Renames
  <2>. QED
    BY <1>0, <2>1, <2>3 DEF IInv, TokenInv, UpToDate
<1>. QED
  BY <1>7, <1>8, <1>9, <1>10, <1>11, <1>12, <1>13 DEF IInv

\* A token that was refused stays refused.
LEMMA TickKeeps ==
  ASSUME IInv, Tick
  PROVE  IInv'
<1>0. /\ TypeOK /\ clock' = clock + 1 /\ clock < MaxClock /\ clock \in Nat
      /\ UNCHANGED <<usuarios, token, store, leaving, calls, made, raced, overtaken>>
  BY DEF Tick, IInv, TypeOK
<1>1. TypeOK'
  <2>1. clock' \in 0..MaxClock
    BY <1>0, SessionAssumption
  <2>. QED
    BY <1>0, <2>1 DEF TypeOK
<1>2. CallInv'
  <2>. SUFFICES ASSUME NEW d \in Call PROVE CallOK(d)'
    BY DEF CallInv
  <2>1. CallOK(d)
    BY DEF IInv, CallInv
  <2>2. calls[d].step = "denied" => ~(clock + 1 <= calls[d].token.exp + Grace)
    <3>. SUFFICES ASSUME calls[d].step = "denied" PROVE ~(clock + 1 <= calls[d].token.exp + Grace)
      OBVIOUS
    <3>1. calls[d].token.exp \in Nat
      BY <1>0, <2>1, FlightOf DEF CallOK, InFlight, Flight, Token
    <3>. QED
      BY <1>0, <2>1, <3>1, SessionAssumption DEF CallOK, Refreshable
  <2>. QED
    BY <1>0, <2>1, <2>2 DEF CallOK, InFlight, Refreshable
<1>3. SubjectInv' /\ RoomInv' /\ ClaimInv' /\ AccountsAreOwn' /\ TokenInv'
  BY <1>0 DEF IInv, SubjectInv, Signed, Accounts, InFlight, RoomInv, Registering, ClaimInv, Claims,
              ClaimOK, Holders, AccountsAreOwn, TokenInv, UpToDate, Renames, FreshOK
<1>. QED
  BY <1>1, <1>2, <1>3 DEF IInv

-----------------------------------------------------------------------------

\* The accounts are distinct at first, and nothing is in flight.
LEMMA InitIInv == Init => IInv
<1>. SUFFICES ASSUME Init PROVE IInv
  OBVIOUS
<1>. USE DEF Init
<1>0. \A c \in Call : calls[c] = Idle /\ calls[c].step = "idle" /\ ~InFlight(c)
  BY DEF Idle, InFlight
<1>1. token # None => \E u \in Accounts : token = [sub |-> u, email |-> Known[u].email, exp |-> 0]
  OBVIOUS
<1>2. Accounts \subseteq User /\ \A u \in Accounts : usuarios[u] = Known[u] /\ Known[u] \in [email : Email, senha : Senha]
  BY SessionAssumption DEF Accounts
<1>3. token \in Token \cup {None}
  BY <1>1, <1>2 DEF Token
<1>4. ShownBy(token) \in [sub : User, email : Email] \cup {None}
  BY <1>3 DEF ShownBy, Token
<1>5. TypeOK
  <2>1. clock \in 0..MaxClock /\ made \in 0..MaxCalls
    BY SessionAssumption
  <2>2. calls \in [Call -> Flight \cup {Idle}] /\ store \in [Tab -> [sub : User, email : Email] \cup {None}]
    BY <1>4
  <2>. QED
    BY <1>3, <2>1, <2>2, SessionAssumption DEF TypeOK
<1>6. CallInv
  BY <1>0 DEF CallInv, CallOK
<1>7. SubjectInv
  BY <1>0, <1>1 DEF SubjectInv, Signed
<1>8. RoomInv
  <2>1. Registering = {}
    BY <1>0 DEF Registering
  <2>2. Cardinality(User \ Accounts) \in Nat
    BY SessionAssumption, FS_Subset, FS_CardinalityType
  <2>. QED
    BY <2>1, <2>2, FS_EmptySet DEF RoomInv
<1>9. ClaimInv
  BY <1>0 DEF ClaimInv, Claims
<1>10. TokenInv
  <2>1. token # None => token.email = usuarios[token.sub].email
    BY <1>1, <1>2
  <2>. QED
    BY <1>0, <2>1 DEF TokenInv, UpToDate, FreshOK
<1>11. AccountsAreOwn
  BY <1>0, <1>2, SessionAssumption DEF AccountsAreOwn, Accounts
<1>. QED
  BY <1>5, <1>6, <1>7, <1>8, <1>9, <1>10, <1>11 DEF IInv

THEOREM NextIInv == IInv /\ [Next]_vars => IInv'
<1>. SUFFICES ASSUME IInv, [Next]_vars PROVE IInv'
  OBVIOUS
<1>1. ASSUME NEW c \in Call, Unauthorized(c) \/ Query(c)
      PROVE  IInv'
  <2>1. calls[c].step = "sent"
    BY <1>1 DEF Unauthorized, Query, Arrived
  <2>2. CASE Unauthorized(c)
    <3>1. calls[c].kind # "register" /\ Answer(c, 401, None)
      BY <2>2 DEF Unauthorized, Public
    <3>. QED
      BY <2>1, <2>2, <3>1, AnswerKeeps DEF Unauthorized
  <2>3. CASE Query(c)
    <3>1. calls[c].kind # "register" /\ Answer(c, 200, None)
      BY <2>3 DEF Query, Arrived
    <3>. QED
      BY <2>1, <2>3, <3>1, AnswerKeeps DEF Query
  <2>. QED
    BY <1>1, <2>2, <2>3
<1>2. ASSUME NEW c \in Call, Server(c) \/ Throttle(c)
      PROVE  IInv'
  BY <1>1, <1>2, LoginKeeps, RegisterLookupKeeps, MergeMatchKeeps, MergeCreateKeeps, ProfileLookupKeeps,
     ProfileKeeps, PasswordLookupKeeps, PasswordKeeps, RefreshKeeps DEF Server
<1>3. ASSUME NEW c \in Call, Client(c)
      PROVE  IInv'
  BY <1>3, SetSessionKeeps, ShowKeeps, TentarRefreshKeeps, RetryKeeps, SignOutKeeps DEF Client
<1>4. ASSUME NEW t \in Tab, Users(t) \/ Reload(t)
      PROVE  IInv'
  BY <1>4, UsersKeep, ReloadKeeps
<1>5. CASE UNCHANGED vars
  BY <1>5 DEF vars, IInv, TypeOK, InFlight, CallInv, CallOK, Refreshable, SubjectInv, Signed, Accounts,
              RoomInv, Registering, ClaimInv, Claims, ClaimOK, Holders, AccountsAreOwn, TokenInv,
              UpToDate, Renames, FreshOK
<1>. QED
  BY <1>2, <1>3, <1>4, <1>5, TickKeeps DEF Next

\* IInv holds in every reachable state.
THEOREM SessionInvariance == Spec => []IInv
BY InitIInv, NextIInv, PTL DEF Spec

\* Two accounts share an e-mail, and a registration signs into an account it did not
\* create, only where two callers found the e-mail free at once.
THEOREM AccountsOwn == Spec => []AccountsAreOwn
<1>1. IInv => AccountsAreOwn
  BY DEF IInv
<1>. QED
  BY <1>1, SessionInvariance, PTL

\* Once nothing is in flight the stored token carries the claims of its account, unless
\* a profile change was overtaken.
THEOREM QuietCoherent == Spec => []QuietSessionIsCoherent
<1>1. IInv => QuietSessionIsCoherent
  BY DEF IInv, TokenInv, QuietSessionIsCoherent, UpToDate, Renames, InFlight
<1>. QED
  BY <1>1, SessionInvariance, PTL

\* A session that could be renewed is only taken away by a refresh of an older token
\* that was refused, or by one that was throttled.
THEOREM LiveSessionKept == Spec => LiveSessionIsKept
<1>. DEFINE Kept ==
       token # None /\ token' = None /\ clock <= token.exp + Grace
         => \E c \in Call : \/ calls[c].step = "throttled"
                            \/ calls[c].step = "denied" /\ calls[c].token # token
<1>1. ASSUME IInv, [Next]_vars
      PROVE  [Kept]_vars
  <2>. SUFFICES ASSUME token # None, token' = None, clock <= token.exp + Grace,
                       \A c \in Call : calls[c].step # "throttled"
                PROVE  \E c \in Call : calls[c].step = "denied" /\ calls[c].token # token
    OBVIOUS
  <2>1. ASSUME NEW c \in Call, Server(c) \/ Throttle(c)
        PROVE  UNCHANGED token
    BY <2>1 DEF Server, Throttle, Unauthorized, Query, Login, RegisterLookup, MergeMatch, MergeCreate,
                UpdateProfileLookup, UpdateProfile, WriteProfile, UpdatePasswordLookup, UpdatePassword, Refresh
  <2>2. ASSUME NEW t \in Tab, Users(t) \/ Reload(t)
        PROVE  UNCHANGED token
    BY <2>2 DEF Users, SubmitLogin, SubmitRegister, Browse, SalvarPerfil, TrocarSenha, Open, Reload
  <2>3. UNCHANGED vars \/ Tick => UNCHANGED token
    BY DEF vars, Tick
  <2>4. \A c \in Call : CallOK(c)
    BY <1>1 DEF IInv, CallInv
  <2>5. ASSUME NEW c \in Call, SetSession(c) \/ Show(c) \/ Drop(c) \/ TentarRefresh(c) \/ Retry(c)
        PROVE  token' # None
    <3>1. CASE Show(c) \/ Drop(c) \/ TentarRefresh(c)
      BY <3>1 DEF Show, Drop, TentarRefresh
    <3>2. CASE SetSession(c)
      BY <3>2 DEF SetSession
    <3>3. CASE Retry(c)
      BY <2>4, <3>3 DEF Retry, CallOK
    <3>. QED
      BY <2>5, <3>1, <3>2, <3>3
  <2>6. \E c \in Call : SignOut(c)
    BY <1>1, <2>1, <2>2, <2>3, <2>5 DEF Next, Client
  <2>7. PICK c \in Call : SignOut(c)
    BY <2>6
  <2>8. calls[c].step = "denied"
    BY <2>7 DEF SignOut
  <2>9. ~Refreshable(calls[c].token)
    BY <2>4, <2>8 DEF CallOK
  <2>. QED
    BY <2>8, <2>9 DEF Refreshable
<1>. QED
  BY <1>1, SessionInvariance, PTL DEF Spec, LiveSessionIsKept
=============================================================================
