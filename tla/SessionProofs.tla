--------------------------- MODULE SessionProofs ---------------------------
(***************************************************************************)
(* Proofs about the turns of a session, for any number of message handlers, *)
(* turns, restarts, bundles and native sessions.                           *)
(***************************************************************************)
EXTENDS Session, FiniteSetTheorems, TLAPS

\* What a handler may hold: a numbered turn while its generator runs; a claim
\* from the moment the outcome is decided; a stop that came before the claim
\* decided it, and then only the terminal status is left to write.
HandlerOK(q) ==
    /\ q.pc \notin {"idle", "loaded", "refused"} => q.turn # 0
    /\ q.claim = None <=> q.pc \notin {"erring", "marking", "closing", "ended"}
    /\ q.claim # None => q.result # None
    /\ q.stop /\ q.claim # None => q.claim = "interrupted"
    /\ q.claim = "interrupted" => q.pc \in {"closing", "ended"} /\ q.result = "interrupted"
    /\ q.pc = "marking" => q.native # NoNative

\* The turn that runs is the last one reserved, and its entry of `ended` is
\* empty until its own generator has written the terminal status.
EntryOK(r) ==
    InTurn(r) =>
        /\ rq[r].turn = turns
        /\ rq[r].pc # "ended" => ended[turns] = <<>>
        /\ rq[r].pc = "ended" =>
              \/ ended[turns] = <<rq[r].result>>
              \/ ended[turns] = <<>> /\ rq[r].claim = "provider"

IInv ==
    /\ TypeOK
    /\ OneTurn
    /\ \A r \in Requests : HandlerOK(rq[r]) /\ EntryOK(r)
    /\ \A t \in 1..MaxTurns : t > turns => ended[t] = <<>>
    /\ TerminalOnce

-----------------------------------------------------------------------------
LEMMA FreeOK == Free \in Request /\ HandlerOK(Free)
  BY SessionAssumption DEF Free, Request, HandlerOK, Terminals

LEMMA InitOK == Init => IInv
<1> SUFFICES ASSUME Init PROVE IInv
  OBVIOUS
<1>1. TypeOK
  <2>1. ended \in [1..MaxTurns -> Seq(Terminals)]
    BY DEF Init
  <2>2. rq \in [Requests -> Request]
    BY FreeOK DEF Init
  <2>3. turns \in 0..MaxTurns /\ restarts \in 0..MaxRestarts
    BY SessionAssumption DEF Init
  <2>4. /\ status \in Statuses /\ natives \subseteq Natives /\ sent \subseteq Natives \X Bundles
        /\ active \in Requests \cup {None}
    BY DEF Init, Statuses
  <2> QED BY <2>1, <2>2, <2>3, <2>4 DEF Init, TypeOK
<1>2. \A r \in Requests : ~InTurn(r) /\ ~Refused(r) /\ HandlerOK(rq[r])
  BY FreeOK DEF Init, InTurn, Refused, Free
<1>3. OneTurn /\ \A r \in Requests : EntryOK(r)
  BY <1>2, SessionAssumption DEF Init, OneTurn, EntryOK
<1>4. TerminalOnce /\ \A t \in 1..MaxTurns : ended[t] = <<>>
  BY DEF Init, TerminalOnce
<1> QED BY <1>1, <1>2, <1>3, <1>4 DEF IInv

\* A step of a running generator short of its end: it writes no terminal
\* status, so the registry, the turn and its entry stay as they are.
LEMMA MidTurn ==
    ASSUME IInv, NEW r \in Requests, InTurn(r), rq[r].pc # "ended",
           NEW q \in Request, HandlerOK(q), rq' = [rq EXCEPT ![r] = q],
           q.pc \notin {"idle", "loaded", "refused", "ended"}, q.turn = rq[r].turn,
           status' \in Statuses, natives' \subseteq Natives, sent' \subseteq Natives \X Bundles,
           injected' \subseteq Natives \X Bundles \X (1..MaxTurns),
           UNCHANGED <<provider, active, archiver, up, turns, ended, stale, restarts>>
    PROVE  IInv'
<1>1. rq' \in [Requests -> Request] /\ rq'[r] = q /\ \A s \in Requests : s # r => rq'[s] = rq[s]
  BY DEF IInv, TypeOK
<1>2. TypeOK'
  BY <1>1 DEF IInv, TypeOK
<1>3. OneTurn'
  BY <1>1 DEF IInv, OneTurn, InTurn, Refused
<1>4. \A s \in Requests : HandlerOK(rq[s])'
  BY <1>1 DEF IInv, HandlerOK
<1>5. \A s \in Requests : EntryOK(s)'
  BY <1>1 DEF IInv, EntryOK, InTurn
<1>6. TerminalOnce' /\ \A t \in 1..MaxTurns : t > turns' => ended'[t] = <<>>
  BY DEF IInv, TerminalOnce
<1> QED BY <1>2, <1>3, <1>4, <1>5, <1>6 DEF IInv

\* A handler that is not in a turn, before and after, touches only itself and
\* the reservation it makes to give it back.
LEMMA OutOfTurn ==
    ASSUME IInv, NEW r \in Requests, ~InTurn(r),
           NEW q \in Request, HandlerOK(q), q.pc \in {"idle", "loaded", "refused"},
           rq' = [rq EXCEPT ![r] = q],
           active' \in Requests \cup {None}, q.pc = "refused" <=> active' = r,
           \A s \in Requests : s # r => (active' = s <=> active = s),
           UNCHANGED <<provider, log, sent, archiver, up, turns, history, restarts>>
    PROVE  IInv'
<1> USE DEF log, history
<1>1. TypeOK'
  BY DEF IInv, TypeOK
<1>2. rq'[r] = q /\ \A s \in Requests : s # r => rq'[s] = rq[s]
  BY DEF IInv, TypeOK
<1>3. OneTurn'
  BY <1>2 DEF IInv, OneTurn, InTurn, Refused
<1>4. \A s \in Requests : HandlerOK(rq[s])' /\ EntryOK(s)'
  BY <1>2 DEF IInv, HandlerOK, EntryOK, InTurn
<1>5. TerminalOnce' /\ \A t \in 1..MaxTurns : t > turns' => ended'[t] = <<>>
  BY DEF IInv, TerminalOnce
<1> QED BY <1>1, <1>3, <1>4, <1>5 DEF IInv

-----------------------------------------------------------------------------
(* The message handler                                                     *)

LEMMA LoadOK ==
    ASSUME IInv, NEW r \in Requests, NEW bundles \in SUBSET Bundles, Load(r, bundles)
    PROVE  IInv'
<1> DEFINE q == [Free EXCEPT !.pc = "loaded", !.native = NativeOf(natives),
                             !.busy = (status = "running"), !.attached = bundles]
<1>1. NativeOf(natives) \in Natives \cup {NoNative}
  <2>1. CASE natives = {}
    BY <2>1 DEF NativeOf
  <2>2. CASE natives # {}
    <3>1. (CHOOSE n \in natives : TRUE) \in natives
      BY <2>2
    <3> QED BY <2>2, <3>1 DEF NativeOf, IInv, TypeOK
  <2> QED BY <2>1, <2>2
<1>2. q \in Request /\ q.pc = "loaded" /\ q.claim = None
  BY <1>1, FreeOK DEF Free, Request
<1>3. HandlerOK(q)
  <2>1. q.stop = FALSE
    BY DEF Free
  <2> QED BY <1>2, <2>1, SessionAssumption DEF HandlerOK
<1>4. ~InTurn(r) /\ active # r /\ rq' = [rq EXCEPT ![r] = q]
  BY DEF Load, InTurn, Refused, IInv, OneTurn
<1> HIDE DEF q
<1> QED BY <1>2, <1>3, <1>4, OutOfTurn DEF Load, IInv, TypeOK

LEMMA ConflictOK ==
    ASSUME IInv, NEW r \in Requests, Conflict(r)
    PROVE  IInv'
<1>1. ~InTurn(r) /\ active # r /\ Free.pc = "idle"
  BY DEF Conflict, InTurn, Refused, Free, IInv, OneTurn
<1> QED BY <1>1, FreeOK, OutOfTurn DEF Conflict, IInv, TypeOK

\* Nobody is in a turn or being refused when a reservation is made.
LEMMA RefuseOK ==
    ASSUME IInv, NEW r \in Requests, Refuse(r)
    PROVE  IInv'
<1> DEFINE q == [rq[r] EXCEPT !.pc = "refused"]
<1>1. rq[r] \in Request /\ HandlerOK(rq[r])
  BY DEF IInv, TypeOK
<1>2. q \in Request /\ q.pc = "refused"
  BY <1>1 DEF Request
<1>3. HandlerOK(q)
  BY <1>1, SessionAssumption DEF Refuse, HandlerOK, Request
<1>4. rq' = [rq EXCEPT ![r] = q] /\ ~InTurn(r)
  BY DEF Refuse, InTurn
<1>5. active' = r /\ active = None /\ \A s \in Requests : active # s
  BY SessionAssumption DEF Refuse, MayReserve
<1> HIDE DEF q
<1> QED BY <1>2, <1>3, <1>4, <1>5, OutOfTurn DEF Refuse

\* No turn runs when one is reserved, and nobody has written its entry.
LEMMA ReserveOK ==
    ASSUME IInv, NEW r \in Requests, Reserve(r)
    PROVE  IInv'
<1> USE SessionAssumption DEF log, history
<1>1. /\ turns' = turns + 1 /\ turns' \in 1..MaxTurns /\ turns' \in 0..MaxTurns /\ ended' = ended
      /\ active = None /\ active' = r
  BY DEF Reserve, MayReserve, IInv, TypeOK
<1> DEFINE q == [rq[r] EXCEPT !.pc = "reserved", !.turn = turns']
<1>a. rq[r] \in Request
  BY DEF IInv, TypeOK
<1>b. /\ q \in Request /\ q.pc = "reserved" /\ q.turn = turns'
      /\ q.claim = rq[r].claim /\ q.stop = rq[r].stop
  <2> DEFINE At(k) == [rq[r] EXCEPT !.pc = "reserved", !.turn = k]
  <2>1. \A k \in 0..MaxTurns :
           /\ At(k) \in Request /\ At(k).pc = "reserved" /\ At(k).turn = k
           /\ At(k).claim = rq[r].claim /\ At(k).stop = rq[r].stop
    BY <1>a DEF Request
  <2>2. q = At(turns')
    OBVIOUS
  <2> HIDE DEF q, At
  <2> QED BY <1>1, <2>1, <2>2
<1>c. rq' = [rq EXCEPT ![r] = q]
  BY DEF Reserve
<1> HIDE DEF q
<1>2. /\ rq' \in [Requests -> Request] /\ rq'[r] = q
      /\ \A s \in Requests : s # r => rq'[s] = rq[s]
  BY <1>b, <1>c DEF IInv, TypeOK
<1>3. /\ rq'[r].pc = "reserved" /\ rq'[r].turn = turns' /\ rq'[r].claim = rq[r].claim
      /\ rq'[r].stop = rq[r].stop
  BY <1>b, <1>2
<1>4. TypeOK'
  BY <1>1, <1>2 DEF Reserve, IInv, TypeOK
<1>5. \A s \in Requests : ~InTurn(s) /\ ~Refused(s)
  BY <1>1 DEF IInv, OneTurn
<1>6. OneTurn'
  BY <1>1, <1>2, <1>3, <1>5 DEF OneTurn, InTurn, Refused
<1>7. HandlerOK(rq[r])'
  <2>1. rq[r].claim = None
    BY DEF Reserve, IInv, HandlerOK
  <2> QED BY <1>1, <1>3, <2>1 DEF HandlerOK
<1>8. \A s \in Requests : HandlerOK(rq[s])'
  BY <1>2, <1>7 DEF IInv, HandlerOK
<1>9. ended[turns'] = <<>> /\ \A t \in 1..MaxTurns : t > turns' => ended[t] = <<>>
  BY <1>1 DEF IInv, TypeOK
<1>10. \A s \in Requests : EntryOK(s)'
  <2>1. EntryOK(r)'
    BY <1>1, <1>3, <1>9 DEF EntryOK
  <2>2. ASSUME NEW s \in Requests, s # r PROVE EntryOK(s)'
    BY <1>2, <1>5, <2>2 DEF EntryOK, InTurn
  <2> QED BY <2>1, <2>2
<1> QED BY <1>1, <1>4, <1>6, <1>8, <1>9, <1>10 DEF IInv, TerminalOnce

-----------------------------------------------------------------------------
(* The turn generator                                                      *)

\* What a turn gives its provider is well formed.
LEMMA GivenOK ==
    ASSUME IInv, NEW r \in Requests, InTurn(r), NEW n \in Natives
    PROVE  Given(r, n) \subseteq Natives \X Bundles \X (1..MaxTurns)
<1>1. rq[r].turn \in 1..MaxTurns /\ rq[r].sending \subseteq Bundles
  BY SessionAssumption DEF IInv, TypeOK, Request, HandlerOK, InTurn
<1> QED BY <1>1 DEF Given

LEMMA ClaimOK ==
    ASSUME IInv, NEW r \in Requests
    PROVE  /\ Claim(r) \in {"provider", "interrupted"} /\ Claim(r) # None
           /\ rq[r].stop => Claim(r) = "interrupted"
           /\ rq[r].claim # None => Claim(r) = rq[r].claim
  BY SessionAssumption DEF Claim, IInv, TypeOK, Request, HandlerOK

LEMMA OutcomeOK ==
    ASSUME IInv, NEW r \in Requests
    PROVE  /\ Outcome(r) \in Terminals /\ Outcome(r) # None
           /\ Claim(r) = "interrupted" => Outcome(r) = "interrupted"
           /\ Outcome(r) = "done" => Claim(r) = "provider" /\ rq[r].native # NoNative
  BY ClaimOK, SessionAssumption DEF Outcome, Terminals

LEMMA AskOK ==
    ASSUME IInv, NEW r \in Requests, Ask(r)
    PROVE  IInv'
<1> DEFINE q == [rq[r] EXCEPT !.pc = "asked", !.sending = Unsent(r)]
<1>1. rq[r] \in Request /\ HandlerOK(rq[r])
  BY DEF IInv, TypeOK
<1>2. Unsent(r) \subseteq Bundles
  BY <1>1 DEF Unsent, Request
<1>3. q \in Request /\ q.pc = "asked" /\ q.turn = rq[r].turn
  BY <1>1, <1>2 DEF Ask, Request
<1>4. HandlerOK(q)
  BY <1>1, <1>2, SessionAssumption DEF Ask, HandlerOK, Request
<1>5. rq' = [rq EXCEPT ![r] = q]
  BY DEF Ask
<1> HIDE DEF q
<1> QED BY <1>3, <1>4, <1>5, MidTurn DEF Ask, InTurn, log, history, IInv, TypeOK

LEMMA LeakOK ==
    ASSUME IInv, NEW r \in Requests, Leak(r)
    PROVE  IInv'
<1> DEFINE q == [rq[r] EXCEPT !.pc = "leaked"]
<1>1. rq[r] \in Request /\ HandlerOK(rq[r])
  BY DEF IInv, TypeOK
<1>2. q \in Request /\ q.pc = "leaked" /\ q.turn = rq[r].turn
  BY <1>1 DEF Leak, Request
<1>3. HandlerOK(q)
  BY <1>1, SessionAssumption DEF Leak, HandlerOK, Request
<1>4. rq' = [rq EXCEPT ![r] = q]
  BY DEF Leak
<1> HIDE DEF q
<1> QED BY <1>2, <1>3, <1>4, MidTurn DEF Leak, InTurn, log, history, IInv, TypeOK

LEMMA AnnounceOK ==
    ASSUME IInv, NEW r \in Requests, Announce(r)
    PROVE  IInv'
<1> DEFINE q == [rq[r] EXCEPT !.pc = "running"]
<1>1. rq[r] \in Request /\ HandlerOK(rq[r])
  BY DEF IInv, TypeOK
<1>3. q \in Request /\ q.pc = "running" /\ q.turn = rq[r].turn
  BY <1>1 DEF Announce, Request
<1>4. HandlerOK(q)
  BY <1>1, SessionAssumption DEF Announce, HandlerOK, Request
<1>5. rq' = [rq EXCEPT ![r] = q]
  BY DEF Announce
<1> HIDE DEF q
<1> QED BY <1>3, <1>4, <1>5, MidTurn DEF Announce, InTurn, history, IInv, TypeOK, Statuses

LEMMA SpawnOK ==
    ASSUME IInv, NEW r \in Requests, Spawn(r)
    PROVE  IInv'
<1> DEFINE q == [rq[r] EXCEPT !.pc = "streaming", !.bound = TRUE, !.killed = KilledAtBind(r)]
<1>1. rq[r] \in Request /\ HandlerOK(rq[r])
  BY DEF IInv, TypeOK
<1>2. KilledAtBind(r) \in BOOLEAN
  BY <1>1 DEF KilledAtBind, Request
<1>3. q \in Request /\ q.pc = "streaming" /\ q.turn = rq[r].turn
  BY <1>1, <1>2 DEF Spawn, Request
<1>4. HandlerOK(q)
  BY <1>1, <1>2, SessionAssumption DEF Spawn, HandlerOK, Request
<1>5. rq' = [rq EXCEPT ![r] = q]
  BY DEF Spawn
<1> HIDE DEF q
<1> QED BY <1>3, <1>4, <1>5, MidTurn DEF Spawn, InTurn, log, history, IInv, TypeOK

LEMMA AcceptedOK ==
    ASSUME IInv, NEW r \in Requests, NEW n \in Natives, Accepted(r, n)
    PROVE  IInv'
<1> DEFINE q == [rq[r] EXCEPT !.native = n]
<1>1. rq[r] \in Request /\ HandlerOK(rq[r])
  BY DEF IInv, TypeOK
<1>2. InTurn(r) /\ injected' \subseteq Natives \X Bundles \X (1..MaxTurns)
  BY GivenOK DEF Accepted, InTurn, IInv, TypeOK
<1>3. q \in Request /\ q.pc = "streaming" /\ q.turn = rq[r].turn
  BY <1>1 DEF Accepted, Request
<1>4. HandlerOK(q)
  BY <1>1, SessionAssumption DEF Accepted, HandlerOK, Request
<1>5. rq' = [rq EXCEPT ![r] = q]
  BY DEF Accepted
<1> HIDE DEF q
<1> QED BY <1>2, <1>3, <1>4, <1>5, MidTurn DEF Accepted, IInv, TypeOK, Statuses

LEMMA SaysOK ==
    ASSUME IInv, NEW r \in Requests, NEW s \in {"running", "failed", "done"}, Says(r, s)
    PROVE  IInv'
<1> DEFINE q == [rq[r] EXCEPT !.failed = @ \/ s = "failed", !.completed = @ \/ s = "done"]
<1>1. rq[r] \in Request /\ HandlerOK(rq[r])
  BY DEF IInv, TypeOK
<1>3. q \in Request /\ q.pc = "streaming" /\ q.turn = rq[r].turn
  BY <1>1 DEF Says, Request
<1>4. HandlerOK(q)
  BY <1>1, SessionAssumption DEF Says, HandlerOK, Request
<1>5. rq' = [rq EXCEPT ![r] = q]
  BY DEF Says
<1> HIDE DEF q
<1> QED BY <1>3, <1>4, <1>5, MidTurn DEF Says, InTurn, history, IInv, TypeOK, Statuses, Terminals

LEMMA EofOK ==
    ASSUME IInv, NEW r \in Requests, Eof(r)
    PROVE  IInv'
<1> DEFINE q == [rq[r] EXCEPT !.claim = Claim(r), !.result = Outcome(r),
                     !.pc = IF Outcome(r) = "done" THEN "marking" ELSE "closing"]
<1>1. rq[r] \in Request /\ HandlerOK(rq[r])
  BY DEF IInv, TypeOK
<1>2. InTurn(r) /\ rq[r].pc # "ended"
  BY DEF Eof, InTurn
<1>3. q \in Request /\ q.turn = rq[r].turn
  BY <1>1, ClaimOK, OutcomeOK DEF Request
<1>4. /\ q.pc = IF Outcome(r) = "done" THEN "marking" ELSE "closing"
      /\ q.claim = Claim(r) /\ q.result = Outcome(r)
      /\ q.stop = rq[r].stop /\ q.native = rq[r].native
  BY <1>1 DEF Request
<1>5. rq' = [rq EXCEPT ![r] = q]
  BY DEF Eof
<1> HIDE DEF q
<1>6. HandlerOK(q)
  BY <1>1, <1>2, <1>3, <1>4, ClaimOK, OutcomeOK DEF HandlerOK, InTurn
<1>7. injected' \subseteq Natives \X Bundles \X (1..MaxTurns)
  <2>1. CASE Outcome(r) = "done"
    <3>1. rq[r].native \in Natives
      BY <1>1, <2>1, OutcomeOK DEF Request
    <3> QED BY <1>2, <2>1, <3>1, GivenOK DEF Eof, IInv, TypeOK
  <2>2. CASE Outcome(r) # "done"
    BY <2>2 DEF Eof, IInv, TypeOK
  <2> QED BY <2>1, <2>2
<1>8. q.pc \notin {"idle", "loaded", "refused", "ended"}
  BY <1>4
<1> QED BY <1>2, <1>3, <1>5, <1>6, <1>7, <1>8, MidTurn DEF Eof, log, IInv, TypeOK

LEMMA RaiseOK ==
    ASSUME IInv, NEW r \in Requests, Raise(r)
    PROVE  IInv'
<1> DEFINE q == [rq[r] EXCEPT !.claim = Claim(r),
                     !.result = IF Claim(r) = "interrupted" THEN "interrupted" ELSE "failed",
                     !.pc = IF Claim(r) = "interrupted" THEN "closing" ELSE "erring"]
<1>1. rq[r] \in Request /\ HandlerOK(rq[r])
  BY DEF IInv, TypeOK
<1>2. InTurn(r) /\ rq[r].pc # "ended"
  BY DEF Raise, InTurn
<1>3. q \in Request /\ q.turn = rq[r].turn
  BY <1>1, ClaimOK DEF Request, Terminals
<1>4. /\ q.pc = IF Claim(r) = "interrupted" THEN "closing" ELSE "erring"
      /\ q.result = IF Claim(r) = "interrupted" THEN "interrupted" ELSE "failed"
      /\ q.claim = Claim(r) /\ q.stop = rq[r].stop
  BY <1>1 DEF Request
<1>5. rq' = [rq EXCEPT ![r] = q]
  BY DEF Raise
<1> HIDE DEF q
<1>6. HandlerOK(q)
  BY <1>1, <1>2, <1>3, <1>4, ClaimOK, SessionAssumption DEF HandlerOK, InTurn, Terminals
<1>7. q.pc \notin {"idle", "loaded", "refused", "ended"}
  BY <1>4
<1> QED BY <1>2, <1>3, <1>5, <1>6, <1>7, MidTurn DEF Raise, log, history, IInv, TypeOK

LEMMA GoneOK ==
    ASSUME IInv, NEW r \in Requests, Gone(r)
    PROVE  IInv'
<1> DEFINE q == [rq[r] EXCEPT !.claim = Claim(r), !.killed = TRUE, !.pc = "closing",
                     !.result = IF Claim(r) = "interrupted" THEN "interrupted" ELSE "failed"]
<1>1. rq[r] \in Request /\ HandlerOK(rq[r])
  BY DEF IInv, TypeOK
<1>2. InTurn(r) /\ rq[r].pc # "ended"
  BY DEF Gone, Unfinished, InTurn
<1>3. q \in Request /\ q.turn = rq[r].turn
  BY <1>1, ClaimOK DEF Request, Terminals
<1>4. /\ q.pc = "closing" /\ q.claim = Claim(r) /\ q.stop = rq[r].stop
      /\ q.result = IF Claim(r) = "interrupted" THEN "interrupted" ELSE "failed"
  BY <1>1 DEF Request
<1>5. rq' = [rq EXCEPT ![r] = q]
  BY DEF Gone
<1> HIDE DEF q
<1>6. HandlerOK(q)
  BY <1>1, <1>2, <1>3, <1>4, ClaimOK, SessionAssumption DEF HandlerOK, InTurn, Terminals
<1> QED BY <1>2, <1>3, <1>4, <1>5, <1>6, MidTurn DEF Gone, log, history, IInv, TypeOK

LEMMA MarkOK ==
    ASSUME IInv, NEW r \in Requests, Mark(r)
    PROVE  IInv'
<1> DEFINE q == [rq[r] EXCEPT !.pc = "closing"]
<1>1. rq[r] \in Request /\ HandlerOK(rq[r])
  BY DEF IInv, TypeOK
<1>2. q \in Request /\ q.turn = rq[r].turn /\ q.pc = "closing"
  BY <1>1 DEF Request
<1>3. HandlerOK(q)
  BY <1>1, SessionAssumption DEF Mark, HandlerOK, Request
<1>4. rq' = [rq EXCEPT ![r] = q]
  BY DEF Mark
<1>5. sent' \subseteq Natives \X Bundles
  <2>1. rq[r].native \in Natives /\ rq[r].sending \subseteq Bundles
    BY <1>1 DEF Mark, HandlerOK, Request
  <2> QED BY <2>1 DEF Mark, IInv, TypeOK
<1> HIDE DEF q
<1> QED BY <1>2, <1>3, <1>4, <1>5, MidTurn DEF Mark, InTurn, log, history, IInv, TypeOK

\* A stop only hits a turn whose outcome is open.
LEMMA StopOK ==
    ASSUME IInv, Stop
    PROVE  IInv'
<1> DEFINE r == active
           q == [rq[r] EXCEPT !.stop = TRUE, !.killed = @ \/ rq[r].bound]
<1>1. /\ r \in Requests /\ rq[r] \in Request /\ HandlerOK(rq[r]) /\ rq[r].claim = None
      /\ InTurn(r) \/ Refused(r)
  BY DEF Stop, StopInTime, IInv, TypeOK, OneTurn
<1>2. q \in Request /\ q.turn = rq[r].turn /\ q.pc = rq[r].pc /\ q.claim = None
  BY <1>1 DEF Request
<1>3. HandlerOK(q)
  BY <1>1, <1>2, SessionAssumption DEF HandlerOK, Request
<1>4. rq' = [rq EXCEPT ![r] = q]
  BY DEF Stop
<1>5. active = r /\ active' = r /\ active' \in Requests \cup {None}
  BY <1>1 DEF Stop
<1> HIDE DEF q, r
<1>6. CASE InTurn(r)
  <2>1. rq[r].pc \notin {"idle", "loaded", "refused", "ended"}
    BY <1>1, <1>6 DEF InTurn, HandlerOK
  <2> QED BY <1>1, <1>2, <1>3, <1>4, <1>6, <2>1, MidTurn DEF Stop, log, history, IInv, TypeOK
<1>7. CASE Refused(r)
  <2>1. ~InTurn(r) /\ q.pc = "refused"
    BY <1>2, <1>7 DEF InTurn, Refused
  <2> QED BY <1>1, <1>2, <1>3, <1>4, <1>5, <2>1, OutOfTurn DEF Stop, log, history, IInv, TypeOK
<1> QED BY <1>1, <1>6, <1>7

-----------------------------------------------------------------------------
(* The end of a turn                                                       *)

\* The turn that runs: its number, and that no other handler is in one.
LEMMA OnlyTurn ==
    ASSUME IInv, NEW r \in Requests, InTurn(r)
    PROVE  /\ rq[r] \in Request /\ HandlerOK(rq[r])
           /\ rq[r].turn = turns /\ turns \in 1..MaxTurns /\ active = r
           /\ \A s \in Requests : s # r => ~InTurn(s) /\ ~Refused(s)
<1>1. rq[r] \in Request /\ HandlerOK(rq[r]) /\ rq[r].turn = turns /\ active = r
  BY DEF IInv, TypeOK, EntryOK, OneTurn
<1>2. turns \in 1..MaxTurns
  BY <1>1, SessionAssumption DEF HandlerOK, InTurn, IInv, TypeOK
<1> QED BY <1>1, <1>2 DEF IInv, OneTurn

\* The terminal status is appended, or the client of a failed turn is gone
\* before it is: the turn is over.
LEMMA TurnOver ==
    ASSUME IInv, NEW r \in Requests, InTurn(r), rq[r].pc \in {"erring", "closing"},
           rq' = [rq EXCEPT ![r].pc = "ended"], status' \in Statuses,
           UNCHANGED <<provider, natives, sent, active, archiver, up, turns, injected, stale, restarts>>,
           \/ ended' = [ended EXCEPT ![rq[r].turn] = Append(@, rq[r].result)]
           \/ ended' = ended /\ rq[r].pc = "erring"
    PROVE  IInv'
<1> DEFINE q == [rq[r] EXCEPT !.pc = "ended"]
<1>1. /\ rq[r] \in Request /\ HandlerOK(rq[r])
      /\ rq[r].turn = turns /\ turns \in 1..MaxTurns /\ active = r
      /\ \A s \in Requests : s # r => ~InTurn(s)
  BY OnlyTurn
<1>2. /\ q \in Request /\ q.pc = "ended" /\ q.turn = turns /\ q.result = rq[r].result
      /\ q.claim = rq[r].claim
  BY <1>1 DEF Request
<1>3. HandlerOK(q)
  BY <1>1 DEF HandlerOK, Request
<1>4. rq' = [rq EXCEPT ![r] = q]
  OBVIOUS
<1> HIDE DEF q
<1>5. rq' \in [Requests -> Request] /\ rq'[r] = q /\ \A s \in Requests : s # r => rq'[s] = rq[s]
  BY <1>2, <1>4 DEF IInv, TypeOK
<1>6. ended \in [1..MaxTurns -> Seq(Terminals)] /\ ended[turns] = <<>> /\ rq[r].result \in Terminals
  <2>1. rq[r].result # None
    BY <1>1 DEF HandlerOK
  <2> QED BY <1>1, <2>1 DEF IInv, TypeOK, EntryOK, Request
<1>7. /\ ended' \in [1..MaxTurns -> Seq(Terminals)]
      /\ \A t \in 1..MaxTurns : t # turns => ended'[t] = ended[t]
      /\ \/ ended'[turns] = <<rq[r].result>>
         \/ ended'[turns] = <<>> /\ rq[r].pc = "erring"
  <2>1. CASE ended' = [ended EXCEPT ![rq[r].turn] = Append(@, rq[r].result)]
    <3>1. Append(<<>>, rq[r].result) = <<rq[r].result>> /\ <<rq[r].result>> \in Seq(Terminals)
      BY <1>6
    <3>2. ended' = [ended EXCEPT ![turns] = <<rq[r].result>>]
      BY <1>1, <1>6, <2>1, <3>1
    <3> QED BY <1>1, <1>6, <3>1, <3>2
  <2>2. CASE ended' = ended /\ rq[r].pc = "erring"
    BY <1>6, <2>2
  <2> QED BY <2>1, <2>2
<1>8. TypeOK'
  BY <1>5, <1>7 DEF IInv, TypeOK
<1>9. OneTurn'
  BY <1>2, <1>5 DEF IInv, OneTurn, InTurn, Refused
<1>10. \A s \in Requests : HandlerOK(rq[s])'
  BY <1>3, <1>5 DEF IInv, HandlerOK
<1>11. \A s \in Requests : EntryOK(s)'
  <2>1. rq[r].pc = "erring" => rq[r].claim = "provider"
    BY <1>1 DEF HandlerOK, Request
  <2>2. EntryOK(r)'
    BY <1>1, <1>2, <1>5, <1>7, <2>1 DEF EntryOK
  <2>3. ASSUME NEW s \in Requests, s # r PROVE EntryOK(s)'
    BY <1>1, <1>5, <2>3 DEF EntryOK, InTurn
  <2> QED BY <2>2, <2>3
<1>12. TerminalOnce' /\ \A t \in 1..MaxTurns : t > turns' => ended'[t] = <<>>
  <2>1. Len(ended'[turns]) <= 1
    <3>1. Len(<<rq[r].result>>) = 1 /\ Len(<<>>) = 0
      OBVIOUS
    <3>2. CASE ended'[turns] = <<rq[r].result>>
      BY <3>1, <3>2
    <3>3. CASE ended'[turns] = <<>>
      BY <3>1, <3>3
    <3> QED BY <1>7, <3>2, <3>3
  <2> QED BY <1>1, <1>7, <2>1 DEF IInv, TypeOK, TerminalOnce
<1> QED BY <1>8, <1>9, <1>10, <1>11, <1>12 DEF IInv

LEMMA ErrOK ==
    ASSUME IInv, NEW r \in Requests, Err(r)
    PROVE  IInv'
<1>1. InTurn(r) /\ rq[r] \in Request /\ HandlerOK(rq[r])
  BY DEF Err, InTurn, IInv, TypeOK
<1>2. CASE rq' = [rq EXCEPT ![r].pc = "ended"]
  BY <1>1, <1>2, TurnOver DEF Err, history, Statuses, Terminals
<1>3. CASE rq' = [rq EXCEPT ![r].pc = "closing"]
  <2> DEFINE q == [rq[r] EXCEPT !.pc = "closing"]
  <2>1. q \in Request /\ q.turn = rq[r].turn /\ q.pc = "closing"
    BY <1>1 DEF Request
  <2>2. HandlerOK(q)
    BY <1>1, SessionAssumption DEF Err, HandlerOK, Request
  <2>3. rq' = [rq EXCEPT ![r] = q]
    BY <1>3
  <2> HIDE DEF q
  <2> QED BY <1>1, <2>1, <2>2, <2>3, MidTurn
          DEF Err, history, IInv, TypeOK, Statuses, Terminals
<1> QED BY <1>2, <1>3 DEF Err

LEMMA CloseOK ==
    ASSUME IInv, NEW r \in Requests, Close(r)
    PROVE  IInv'
<1>1. InTurn(r) /\ rq[r] \in Request /\ HandlerOK(rq[r])
  BY DEF Close, InTurn, IInv, TypeOK
<1>2. rq[r].result \in Terminals
  BY <1>1 DEF Close, HandlerOK, Request
<1> QED BY <1>1, <1>2, TurnOver DEF Close, Statuses

\* Handlers that leave their turns all at once, one or every one of them.
LEMMA TurnsGone ==
    ASSUME IInv, rq' \in [Requests -> Request], active' = None,
           \A s \in Requests : rq'[s] = Free \/ (rq'[s] = rq[s] /\ rq[s].pc \in {"idle", "loaded"}),
           archiver' \in {"idle", "clear", "loaded"}, up' \in BOOLEAN,
           restarts' \in 0..MaxRestarts,
           UNCHANGED <<provider, status, natives, sent, turns, injected, ended, stale>>
    PROVE  IInv'
<1>1. TypeOK'
  BY DEF IInv, TypeOK
<1>2. \A s \in Requests : ~InTurn(s)' /\ ~Refused(s)'
  BY DEF InTurn, Refused, Free
<1>3. OneTurn'
  BY <1>2, SessionAssumption DEF OneTurn
<1>4. \A s \in Requests : HandlerOK(rq[s])'
  BY FreeOK DEF IInv, HandlerOK
<1>5. \A s \in Requests : EntryOK(s)'
  BY <1>2 DEF EntryOK
<1>6. TerminalOnce' /\ \A t \in 1..MaxTurns : t > turns' => ended'[t] = <<>>
  BY DEF IInv, TerminalOnce
<1> QED BY <1>1, <1>3, <1>4, <1>5, <1>6 DEF IInv

LEMMA ReleaseOK ==
    ASSUME IInv, NEW r \in Requests, Release(r)
    PROVE  IInv'
<1>1. active = r /\ \A s \in Requests : s # r => ~InTurn(s) /\ ~Refused(s)
  BY DEF Release, InTurn, Refused, IInv, OneTurn
<1>2. /\ rq' \in [Requests -> Request] /\ rq'[r] = Free
      /\ \A s \in Requests : s # r => rq'[s] = rq[s]
  BY FreeOK DEF Release, IInv, TypeOK
<1>3. active' = None
  BY <1>1 DEF Release
<1>4. \A s \in Requests : rq'[s] = Free \/ (rq'[s] = rq[s] /\ rq[s].pc \in {"idle", "loaded"})
  BY <1>1, <1>2 DEF InTurn, Refused
<1>5. /\ archiver' \in {"idle", "clear", "loaded"} /\ up' \in BOOLEAN /\ restarts' \in 0..MaxRestarts
      /\ UNCHANGED <<provider, status, natives, sent, turns, injected, ended, stale>>
  BY DEF Release, log, history, IInv, TypeOK
<1> QED BY <1>2, <1>3, <1>4, <1>5, TurnsGone

LEMMA CrashOK ==
    ASSUME IInv, Crash
    PROVE  IInv'
<1>1. rq' \in [Requests -> Request] /\ \A s \in Requests : rq'[s] = Free
  BY FreeOK DEF Crash
<1>2. restarts' \in 0..MaxRestarts
  BY SessionAssumption DEF Crash, IInv, TypeOK
<1>3. /\ active' = None /\ archiver' \in {"idle", "clear", "loaded"} /\ up' \in BOOLEAN
      /\ UNCHANGED <<provider, status, natives, sent, turns, injected, ended, stale>>
  BY DEF Crash, log, history
<1> QED BY <1>1, <1>2, <1>3, TurnsGone

-----------------------------------------------------------------------------
(* The invariant                                                           *)

\* Steps that touch neither a handler nor the registry nor a turn's entry.
LEMMA BystanderOK ==
    ASSUME IInv, status' \in Statuses, archiver' \in {"idle", "clear", "loaded"}, up' \in BOOLEAN,
           UNCHANGED <<provider, natives, sent, active, rq, turns, history, restarts>>
    PROVE  IInv'
<1> USE DEF history
<1>1. TypeOK'
  BY DEF IInv, TypeOK
<1>2. OneTurn' /\ TerminalOnce' /\ \A t \in 1..MaxTurns : t > turns' => ended'[t] = <<>>
  BY DEF IInv, OneTurn, InTurn, Refused, TerminalOnce
<1>3. \A s \in Requests : HandlerOK(rq[s])' /\ EntryOK(s)'
  BY DEF IInv, HandlerOK, EntryOK, InTurn
<1> QED BY <1>1, <1>2, <1>3 DEF IInv

LEMMA StepOK ==
    ASSUME IInv, [Next]_vars
    PROVE  IInv'
<1>1. ASSUME NEW r \in Requests, NEW bundles \in SUBSET Bundles, Load(r, bundles) PROVE IInv'
  BY <1>1, LoadOK
<1>2. ASSUME NEW r \in Requests, Reserve(r) \/ Conflict(r) \/ Refuse(r) \/ Leak(r) PROVE IInv'
  BY <1>2, ReserveOK, ConflictOK, RefuseOK, LeakOK
<1>3. ASSUME NEW r \in Requests, TurnStep(r) PROVE IInv'
  BY <1>3, AskOK, AnnounceOK, SpawnOK, ErrOK, MarkOK, CloseOK, ReleaseOK DEF TurnStep
<1>4. ASSUME NEW r \in Requests, NEW n \in Natives, Accepted(r, n) PROVE IInv'
  BY <1>4, AcceptedOK
<1>5. ASSUME NEW r \in Requests, NEW s \in {"running", "failed", "done"}, Says(r, s) PROVE IInv'
  BY <1>5, SaysOK
<1>6. ASSUME NEW r \in Requests, Eof(r) \/ Raise(r) \/ Gone(r) PROVE IInv'
  BY <1>6, EofOK, RaiseOK, GoneOK
<1>7. CASE Stop
  BY <1>7, StopOK
<1>8. CASE ArchiveAsk \/ ArchiveLoad \/ ArchiveAppend
  BY <1>8, BystanderOK
     DEF ArchiveAsk, ArchiveLoad, ArchiveAppend, log, IInv, TypeOK, Statuses
<1>9. CASE Crash
  BY <1>9, CrashOK
<1>10. CASE Restart
  BY <1>10, BystanderOK DEF Restart, Recovered, IInv, TypeOK, Statuses
<1>11. CASE UNCHANGED vars
  BY <1>11, BystanderOK DEF vars, log, history, IInv, TypeOK
<1> QED BY <1>1, <1>2, <1>3, <1>4, <1>5, <1>6, <1>7, <1>8, <1>9, <1>10, <1>11 DEF Next

LEMMA Inductive == Spec => []IInv
  BY InitOK, StepOK, PTL DEF Spec

\* Handlers, registry and log stay well formed, and a turn only ever ends with
\* a terminal status of the platform.
THEOREM TypeCorrect == Spec => []TypeOK
<1>1. IInv => TypeOK
  BY DEF IInv
<1> QED BY <1>1, Inductive, PTL

\* A session has at most one turn reserved and the registry names it: what
\* reserve and release promise every way a turn can start and end.
THEOREM OneTurnAtATime == Spec => []OneTurn
<1>1. IInv => OneTurn
  BY DEF IInv
<1> QED BY <1>1, Inductive, PTL

\* The log says once how a turn of stream_session_turn ended, whatever
\* exceptions, disconnects and stops meet in it; and a stop that request_stop
\* answered with "stopping" is what it says, because claim_terminal decides.
THEOREM TurnsEndOnce == Spec => []EndToldOnce
<1>1. IInv => StopHonored
  <2> SUFFICES ASSUME IInv, NEW r \in Requests, rq[r].pc = "ended", rq[r].stop
               PROVE  ended[rq[r].turn] = <<"interrupted">>
    BY DEF StopHonored
  <2>1. rq[r].claim = "interrupted" /\ rq[r].result = "interrupted"
    BY DEF IInv, HandlerOK
  <2> QED BY <2>1 DEF IInv, EntryOK, InTurn
<1>2. IInv => EndToldOnce
  BY <1>1 DEF IInv, EndToldOnce
<1> QED BY <1>2, Inductive, PTL
-----------------------------------------------------------------------------
(* What the log, the ledger and the provider know                          *)

\* The log says "running" only while a generator is on its way to a terminal
\* status; startup repairs what a crash left.
RunsIfRunning ==
    up /\ Loadable /\ status = "running" =>
        active # None /\ rq[active].pc \notin {"ended", "refused"}

\* Handlers hold native ids the log has; the turn that runs holds the one it
\* has, unless some turn started from an older reading of the log.
NativesKnown == \A r \in Requests : rq[r].native \in natives \cup {NoNative}
OneNative ==
    ~stale => /\ \A m, n \in natives : m = n
              /\ \A r \in Requests : InTurn(r) => natives = {rq[r].native} \ {NoNative}

\* What a provider was given, it was given by a turn that had a native id.
GivenKnown == \A x \in injected : x[1] \in natives /\ x[3] <= turns

\* The turn that runs has given what it sends, and only to its own native
\* session, which was not marked as having it before and is once it is done.
Delivery(r) ==
    InTurn(r) =>
        /\ \A x \in injected : x[3] = turns =>
              /\ rq[r].pc \notin {"reserved", "asked", "running"}
              /\ x[1] = rq[r].native /\ x[2] \in rq[r].sending
        /\ rq[r].pc \in {"asked", "running", "streaming"} =>
              \A b \in rq[r].sending : <<rq[r].native, b>> \notin sent
        /\ rq[r].pc = "marking" => Given(r, rq[r].native) \subseteq injected
        /\ rq[r].pc = "erring" => rq[r].result = "failed"
        /\ rq[r].pc \in {"closing", "ended"} /\ rq[r].result = "done" =>
              \A b \in rq[r].sending : <<rq[r].native, b>> \in sent

\* A turn that finished has marked what it gave.
DoneIsSent == \A x \in injected : ended[x[3]] = <<"done">> => <<x[1], x[2]>> \in sent

Knowledge ==
    /\ NativesKnown /\ GivenKnown /\ DoneIsSent /\ ContextOnce
    /\ \A r \in Requests : Delivery(r)

-----------------------------------------------------------------------------
\* A generator at work: it stays in its turn, and touches no other handler.
LEMMA TurnMoves ==
    ASSUME IInv, NEW r \in Requests,
           \/ Leak(r) \/ Ask(r) \/ Announce(r) \/ Spawn(r) \/ Mark(r)
           \/ Eof(r) \/ Raise(r) \/ Gone(r)
           \/ \E n \in Natives : Accepted(r, n)
           \/ \E s \in {"running", "failed", "done"} : Says(r, s)
    PROVE  /\ InTurn(r) /\ InTurn(r)' /\ rq'[r].pc # "ended"
           /\ \A s \in Requests : s # r => rq'[s] = rq[s]
<1>1. rq \in [Requests -> Request]
  BY DEF IInv, TypeOK
<1>2. CASE Leak(r) \/ Ask(r) \/ Announce(r) \/ Spawn(r) \/ Mark(r)
  BY <1>1, <1>2 DEF Leak, Ask, Announce, Spawn, Mark, InTurn, Request
<1>3. CASE Eof(r) \/ Raise(r)
  BY <1>1, <1>3 DEF Eof, Raise, InTurn, Request
<1>4. CASE Gone(r)
  BY <1>1, <1>4 DEF Gone, Unfinished, InTurn, Request
<1>5. ASSUME NEW n \in Natives, Accepted(r, n)
      PROVE  InTurn(r) /\ InTurn(r)' /\ rq'[r].pc # "ended" /\ \A s \in Requests : s # r => rq'[s] = rq[s]
  BY <1>1, <1>5 DEF Accepted, InTurn, Request
<1>6. ASSUME NEW s \in {"running", "failed", "done"}, Says(r, s)
      PROVE  InTurn(r) /\ InTurn(r)' /\ rq'[r].pc # "ended" /\ \A q \in Requests : q # r => rq'[q] = rq[q]
  BY <1>1, <1>6 DEF Says, InTurn, Request
<1> QED BY <1>2, <1>3, <1>4, <1>5, <1>6

LEMMA RunningStep ==
    ASSUME IInv, IInv', RunsIfRunning, [Next]_vars
    PROVE  RunsIfRunning'
<1> USE SessionAssumption
<1>1. rq \in [Requests -> Request] /\ OneTurn /\ OneTurn'
  BY DEF IInv, TypeOK
<1>2. ASSUME NEW r \in Requests, InTurn(r)', rq'[r].pc # "ended" PROVE RunsIfRunning'
  BY <1>1, <1>2 DEF OneTurn, InTurn, RunsIfRunning
<1>3. ASSUME NEW r \in Requests, NEW bundles \in SUBSET Bundles, Load(r, bundles)
      PROVE  RunsIfRunning'
  <2>1. active # r /\ \A s \in Requests : s # r => rq'[s] = rq[s]
    BY <1>1, <1>3 DEF Load, OneTurn, InTurn, Refused
  <2>2. UNCHANGED <<status, natives, active, up>>
    BY <1>3 DEF Load, log
  <2> QED BY <1>1, <2>1, <2>2 DEF RunsIfRunning, Loadable, IInv, TypeOK
<1>4. ASSUME NEW r \in Requests, Reserve(r) PROVE RunsIfRunning'
  <2>1. rq'[r].pc = "reserved"
    BY <1>1, <1>4 DEF Reserve
  <2> QED BY <1>2, <2>1 DEF InTurn
<1>5. ASSUME NEW r \in Requests, Conflict(r) PROVE RunsIfRunning'
  <2>1. active # r /\ \A s \in Requests : s # r => rq'[s] = rq[s]
    BY <1>1, <1>5 DEF Conflict, OneTurn, InTurn, Refused
  <2>2. UNCHANGED <<status, natives, active, up>>
    BY <1>5 DEF Conflict, log
  <2> QED BY <1>1, <2>1, <2>2 DEF RunsIfRunning, Loadable, IInv, TypeOK
<1>6. ASSUME NEW r \in Requests, TurnStep(r) PROVE RunsIfRunning'
  <2>1. CASE Ask(r) \/ Announce(r) \/ Spawn(r) \/ Mark(r)
    BY <1>2, <2>1, TurnMoves
  <2>2. CASE Err(r)
    BY <2>2 DEF Err, RunsIfRunning
  <2>3. CASE Close(r)
    <3>1. rq[r].result \in Terminals
      BY <1>1, <2>3 DEF Close, IInv, HandlerOK, Request
    <3> QED BY <2>3, <3>1 DEF Close, RunsIfRunning, Terminals
  <2>4. CASE Release(r)
    <3>1. active = r /\ rq[r].pc \in {"ended", "refused"}
      BY <1>1, <2>4 DEF Release, OneTurn, InTurn, Refused
    <3> QED BY <2>4, <3>1 DEF Release, RunsIfRunning, Loadable, log
  <2> QED BY <1>6, <2>1, <2>2, <2>3, <2>4 DEF TurnStep
<1>7. ASSUME NEW r \in Requests, Leak(r) \/ Eof(r) \/ Raise(r) \/ Gone(r) PROVE RunsIfRunning'
  BY <1>2, <1>7, TurnMoves
<1>8. ASSUME NEW r \in Requests, NEW n \in Natives, Accepted(r, n) PROVE RunsIfRunning'
  BY <1>2, <1>8, TurnMoves
<1>9. ASSUME NEW r \in Requests, NEW s \in {"running", "failed", "done"}, Says(r, s) PROVE RunsIfRunning'
  BY <1>2, <1>9, TurnMoves
<1>10. CASE Stop
  BY <1>1, <1>10 DEF Stop, RunsIfRunning, Loadable, log, Request, IInv, TypeOK
<1>11. CASE ArchiveAsk \/ ArchiveLoad \/ ArchiveAppend
  BY <1>11 DEF ArchiveAsk, ArchiveLoad, ArchiveAppend, RunsIfRunning, Loadable, log
<1>12. CASE Crash
  BY <1>12 DEF Crash, RunsIfRunning
<1>13. CASE Restart
  BY <1>13 DEF Restart, Recovered, RunsIfRunning, Loadable
<1>14. CASE UNCHANGED vars
  BY <1>14 DEF vars, log, RunsIfRunning, Loadable
<1>15. ASSUME NEW r \in Requests, Refuse(r) PROVE RunsIfRunning'
  BY <1>15 DEF Refuse, MayReserve, RunsIfRunning, Loadable, log
<1> QED BY <1>3, <1>4, <1>5, <1>6, <1>7, <1>8, <1>9, <1>10, <1>11, <1>12, <1>13, <1>14, <1>15
        DEF Next

\* Only Accepted adds a native id, and only to a log that has none or this one.
LEMMA NativeStep ==
    ASSUME IInv, IInv', OneNative, [Next]_vars
    PROVE  OneNative'
<1> USE SessionAssumption
<1>1. rq \in [Requests -> Request] /\ OneTurn /\ OneTurn'
  BY DEF IInv, TypeOK
<1>2. ASSUME UNCHANGED <<natives, stale>>,
             \A r \in Requests : InTurn(r)' => InTurn(r) /\ rq'[r].native = rq[r].native
      PROVE  OneNative'
  BY <1>2 DEF OneNative
<1>3. ASSUME NEW r \in Requests, \E bundles \in SUBSET Bundles : Load(r, bundles) PROVE OneNative'
  BY <1>1, <1>2, <1>3 DEF Load, InTurn, log, history, Free
<1>4. ASSUME NEW r \in Requests, Reserve(r) PROVE OneNative'
  <2>1. /\ rq'[r].native = rq[r].native /\ natives' = natives
        /\ stale' = (stale \/ {rq[r].native} \ {NoNative} # natives)
    BY <1>1, <1>4 DEF Reserve, log, Request
  <2>2. active' = r
    BY <1>4 DEF Reserve
  <2>3. \A s \in Requests : InTurn(s)' => s = r
    BY <1>1, <2>2 DEF OneTurn
  <2> QED BY <2>1, <2>3 DEF OneNative
<1>5. ASSUME NEW r \in Requests, Conflict(r) \/ Refuse(r) \/ Release(r) PROVE OneNative'
  BY <1>1, <1>2, <1>5 DEF Conflict, Refuse, Release, InTurn, log, history, Free, Request
<1>6. ASSUME NEW r \in Requests,
             Leak(r) \/ Ask(r) \/ Announce(r) \/ Spawn(r) \/ Err(r) \/ Mark(r) \/ Close(r)
      PROVE  OneNative'
  <2>1. UNCHANGED <<natives, stale>>
    BY <1>6 DEF Leak, Ask, Announce, Spawn, Err, Mark, Close, log, history
  <2>2. InTurn(r) /\ rq'[r].native = rq[r].native /\ \A s \in Requests : s # r => rq'[s] = rq[s]
    BY <1>1, <1>6 DEF Leak, Ask, Announce, Spawn, Err, Mark, Close, InTurn, Request
  <2> QED BY <1>2, <2>1, <2>2 DEF InTurn
<1>7. ASSUME NEW r \in Requests, Eof(r) \/ Raise(r) \/ Gone(r) PROVE OneNative'
  <2>1. UNCHANGED <<natives, stale>>
    BY <1>7 DEF Eof, Raise, Gone, log, history
  <2>2. InTurn(r) /\ rq'[r].native = rq[r].native /\ \A s \in Requests : s # r => rq'[s] = rq[s]
    BY <1>1, <1>7 DEF Eof, Raise, Gone, Unfinished, InTurn, Request
  <2> QED BY <1>2, <2>1, <2>2 DEF InTurn
<1>8. ASSUME NEW r \in Requests, NEW s \in {"running", "failed", "done"}, Says(r, s) PROVE OneNative'
  <2>1. UNCHANGED <<natives, stale>>
    BY <1>8 DEF Says, history
  <2>2. InTurn(r) /\ rq'[r].native = rq[r].native /\ \A q \in Requests : q # r => rq'[q] = rq[q]
    BY <1>1, <1>8 DEF Says, InTurn, Request
  <2> QED BY <1>2, <2>1, <2>2 DEF InTurn
<1>9. ASSUME NEW r \in Requests, NEW n \in Natives, Accepted(r, n) PROVE OneNative'
  <2>1. InTurn(r) /\ InTurn(r)' /\ \A s \in Requests : InTurn(s)' => s = r
    BY <1>1, <1>9, TurnMoves DEF OneTurn
  <2>2. rq'[r].native = n /\ natives' = natives \cup {n} /\ stale' = stale
    BY <1>1, <1>9 DEF Accepted, Request
  <2>3. ~stale => natives = {rq[r].native} \ {NoNative}
    BY <2>1 DEF OneNative
  <2>4. ~stale => natives' = {n} \ {NoNative}
    BY <1>9, <2>2, <2>3 DEF Accepted
  <2> QED BY <2>1, <2>2, <2>4 DEF OneNative
<1>10. CASE Stop
  <2>1. UNCHANGED <<natives, stale>>
    BY <1>10 DEF Stop, log, history
  <2>2. \A s \in Requests : rq'[s].pc = rq[s].pc /\ rq'[s].native = rq[s].native
    BY <1>1, <1>10 DEF Stop, Request
  <2> QED BY <1>2, <2>1, <2>2 DEF InTurn
<1>11. CASE ArchiveAsk \/ ArchiveLoad \/ ArchiveAppend \/ Restart \/ UNCHANGED vars
  BY <1>2, <1>11 DEF ArchiveAsk, ArchiveLoad, ArchiveAppend, Restart, vars, log, history, InTurn
<1>12. CASE Crash
  BY <1>2, <1>12 DEF Crash, log, history, InTurn, Free
<1> QED BY <1>3, <1>4, <1>5, <1>6, <1>7, <1>8, <1>9, <1>10, <1>11, <1>12
        DEF Next, TurnStep
-----------------------------------------------------------------------------
(* Contexts are delivered once                                             *)

LEMMA GivenIs ==
    ASSUME NEW r \in Requests, NEW n, NEW x \in Given(r, n)
    PROVE  /\ x[1] = n /\ x[2] \in rq[r].sending /\ x[3] = rq[r].turn
           /\ x = <<x[1], x[2], x[3]>>
  BY DEF Given

\* A step that gives, marks and ends nothing.
LEMMA QuietStep ==
    ASSUME IInv, Knowledge, UNCHANGED <<natives, sent, injected, ended, turns>>,
           \A s \in Requests :
              \/ rq'[s] = rq[s]
              \/ rq'[s].native \in natives \cup {NoNative} /\ (InTurn(s)' => Delivery(s)')
    PROVE  Knowledge'
<1>1. NativesKnown'
  BY DEF Knowledge, NativesKnown
<1>2. GivenKnown' /\ DoneIsSent' /\ ContextOnce'
  BY DEF Knowledge, GivenKnown, DoneIsSent, ContextOnce
<1>3. \A s \in Requests : Delivery(s)'
  BY DEF Knowledge, Delivery, InTurn, Given
<1> QED BY <1>1, <1>2, <1>3 DEF Knowledge

LEMMA LoadKnows ==
    ASSUME IInv, Knowledge, NEW r \in Requests, NEW bundles \in SUBSET Bundles, Load(r, bundles)
    PROVE  Knowledge'
<1>1. rq'[r].native = NativeOf(natives) /\ ~InTurn(r)' /\ \A s \in Requests : s # r => rq'[s] = rq[s]
  BY DEF Load, Free, InTurn, IInv, TypeOK
<1>2. NativeOf(natives) \in natives \cup {NoNative}
  <2>1. CASE natives = {}
    BY <2>1 DEF NativeOf
  <2>2. CASE natives # {}
    <3>1. (CHOOSE n \in natives : TRUE) \in natives
      BY <2>2
    <3> QED BY <2>2, <3>1 DEF NativeOf
  <2> QED BY <2>1, <2>2
<1> QED BY <1>1, <1>2, QuietStep DEF Load, log, history

\* Nothing was given yet by a turn that is only being reserved.
LEMMA ReserveKnows ==
    ASSUME IInv, IInv', Knowledge, NEW r \in Requests, Reserve(r)
    PROVE  Knowledge'
<1>1. /\ rq'[r].pc = "reserved" /\ rq'[r].native = rq[r].native
      /\ \A s \in Requests : s # r => rq'[s] = rq[s]
  BY DEF Reserve, IInv, TypeOK, Request
<1>2. turns' = turns + 1 /\ UNCHANGED <<natives, sent, injected, ended>> /\ active' = r
  BY DEF Reserve, log
<1>3. \A x \in injected : x[3] \in Nat /\ x[3] <= turns /\ x[3] <= turns' /\ x[3] # turns'
  BY <1>2, SessionAssumption DEF Knowledge, GivenKnown, IInv, TypeOK
<1>4. NativesKnown' /\ GivenKnown' /\ DoneIsSent' /\ ContextOnce'
  BY <1>1, <1>2, <1>3 DEF Knowledge, NativesKnown, GivenKnown, DoneIsSent, ContextOnce
<1>5. \A s \in Requests : InTurn(s)' => s = r
  BY <1>2 DEF IInv, OneTurn
<1>6. \A s \in Requests : Delivery(s)'
  BY <1>1, <1>2, <1>3, <1>5 DEF Delivery
<1> QED BY <1>4, <1>6 DEF Knowledge

LEMMA AskKnows ==
    ASSUME IInv, Knowledge, NEW r \in Requests, Ask(r)
    PROVE  Knowledge'
<1>1. /\ rq[r].pc = "reserved" /\ rq'[r].pc = "asked" /\ rq'[r].sending = Unsent(r)
      /\ rq'[r].native = rq[r].native /\ \A s \in Requests : s # r => rq'[s] = rq[s]
  BY DEF Ask, IInv, TypeOK, Request
<1>2. UNCHANGED <<natives, sent, injected, ended, turns>>
  BY DEF Ask, log, history
<1>3. Delivery(r)'
  BY <1>1, <1>2 DEF Knowledge, Delivery, InTurn, Unsent
<1> QED BY <1>1, <1>2, <1>3, QuietStep DEF Knowledge, NativesKnown

\* A step that only moves the generator on, or decides its outcome.
LEMMA MovesOn ==
    ASSUME IInv, Knowledge, NEW r \in Requests, InTurn(r),
           UNCHANGED <<natives, sent, injected, ended, turns>>,
           \A s \in Requests : s # r => rq'[s] = rq[s],
           rq'[r].native = rq[r].native, rq'[r].sending = rq[r].sending,
           \/ rq'[r].pc = rq[r].pc /\ rq'[r].turn = rq[r].turn /\ rq'[r].result = rq[r].result
           \/ rq[r].pc = "reserved" /\ rq'[r].pc = "leaked"
           \/ rq[r].pc = "asked" /\ rq'[r].pc = "running"
           \/ rq[r].pc = "running" /\ rq'[r].pc = "streaming"
           \/ rq'[r].pc \in {"erring", "closing", "ended"} /\ rq'[r].result = "failed"
           \/ rq'[r].pc = "closing" /\ rq'[r].result # "done"
    PROVE  Knowledge'
<1>1. Delivery(r)'
  BY DEF Knowledge, Delivery, InTurn, Given
<1> QED BY <1>1, QuietStep DEF Knowledge, NativesKnown

\* A new native session has been given nothing; one that is resumed was not
\* marked as having what the turn sends.
LEMMA Fresh ==
    ASSUME IInv, Knowledge, NEW r \in Requests, InTurn(r), rq[r].pc = "streaming", NEW n,
           n = rq[r].native \/ n \notin natives
    PROVE  /\ \A b \in rq[r].sending : <<n, b>> \notin sent
           /\ \A x \in injected, y \in Given(r, n) :
                 x[1] = y[1] /\ x[2] = y[2] => ended[x[3]] # <<"done">>
<1>1. ASSUME NEW b \in rq[r].sending PROVE <<n, b>> \notin sent
  <2>1. CASE n = rq[r].native
    BY <2>1 DEF Knowledge, Delivery
  <2>2. CASE n \notin natives
    <3> SUFFICES ASSUME <<n, b>> \in sent PROVE FALSE
      OBVIOUS
    <3>1. PICK x \in injected : x[1] = <<n, b>>[1]
      BY DEF Knowledge, ContextOnce
    <3> QED BY <2>2, <3>1 DEF Knowledge, GivenKnown
  <2> QED BY <2>1, <2>2
<1>2. ASSUME NEW x \in injected, NEW y \in Given(r, n), x[1] = y[1], x[2] = y[2], ended[x[3]] = <<"done">>
      PROVE  FALSE
  <2>1. x[1] = n /\ x[2] \in rq[r].sending
    BY <1>2, GivenIs
  <2>2. <<x[1], x[2]>> \in sent
    BY <1>2 DEF Knowledge, DoneIsSent
  <2> QED BY <1>1, <2>1, <2>2
<1> QED BY <1>1, <1>2

\* What a step of the turn gives keeps the history straight.
LEMMA GivingKnows ==
    ASSUME IInv, Knowledge, NEW r \in Requests, InTurn(r), rq[r].pc = "streaming", NEW n \in Natives,
           n = rq[r].native \/ n \notin natives,
           injected' = injected \cup Given(r, n), n \in natives', natives \subseteq natives',
           UNCHANGED <<sent, ended, turns>>
    PROVE  GivenKnown' /\ DoneIsSent' /\ ContextOnce'
<1>1. /\ rq[r].turn = turns /\ turns \in 1..MaxTurns /\ ended[turns] = <<>>
      /\ \A x \in injected : x[3] \in 1..MaxTurns /\ x[3] <= turns
  <2>1. rq[r].turn = turns /\ turns \in 1..MaxTurns
    BY OnlyTurn
  <2>2. ended[turns] = <<>>
    BY DEF IInv, EntryOK
  <2> QED BY <2>1, <2>2 DEF Knowledge, GivenKnown, IInv, TypeOK
<1>2. \A y \in Given(r, n) : y[1] = n /\ y[3] = turns
  BY <1>1, GivenIs
<1>3. GivenKnown'
  BY <1>1, <1>2 DEF Knowledge, GivenKnown
<1>4. ended[turns] # <<"done">>
  <2>1. <<>> # <<"done">>
    OBVIOUS
  <2> QED BY <1>1, <2>1
<1>5. DoneIsSent'
  BY <1>2, <1>4 DEF Knowledge, DoneIsSent
<1>6. \A p \in sent' : \E x \in injected' : x[1] = p[1] /\ x[2] = p[2]
  BY DEF Knowledge, ContextOnce
<1>7. ASSUME NEW x \in injected', NEW y \in injected', x[1] = y[1], x[2] = y[2], x[3] < y[3]
      PROVE  ended'[x[3]] # <<"done">>
  <2>1. x \in injected
    BY <1>1, <1>2, <1>7
  <2>2. CASE y \in injected
    BY <1>7, <2>1, <2>2 DEF Knowledge, ContextOnce
  <2>3. CASE y \in Given(r, n)
    BY <1>7, <2>1, <2>3, Fresh
  <2> QED BY <2>2, <2>3
<1>8. ContextOnce'
  BY <1>6, <1>7 DEF ContextOnce
<1> QED BY <1>3, <1>5, <1>8

LEMMA AcceptedKnows ==
    ASSUME IInv, IInv', Knowledge, NEW r \in Requests, NEW n \in Natives, Accepted(r, n)
    PROVE  Knowledge'
<1>1. /\ rq[r].pc = "streaming" /\ rq'[r].pc = "streaming" /\ rq'[r].native = n
      /\ rq'[r].sending = rq[r].sending /\ rq'[r].turn = rq[r].turn
      /\ \A s \in Requests : s # r => rq'[s] = rq[s]
  BY DEF Accepted, IInv, TypeOK, Request
<1>2. /\ InTurn(r) /\ InTurn(r)' /\ (n = rq[r].native \/ (n \notin natives /\ rq[r].native = NoNative))
      /\ injected' = injected \cup Given(r, n) /\ natives' = natives \cup {n}
      /\ UNCHANGED <<sent, ended, turns>>
  <2>1. InTurn(r) /\ InTurn(r)'
    BY <1>1 DEF InTurn
  <2>2. n = rq[r].native \/ (n \notin natives /\ rq[r].native = NoNative)
    <3>1. CASE rq[r].native = NoNative
      BY <3>1 DEF Accepted
    <3>2. CASE rq[r].native # NoNative
      BY <3>2 DEF Accepted
    <3> QED BY <3>1, <3>2
  <2>3. /\ injected' = injected \cup Given(r, n) /\ natives' = natives \cup {n}
        /\ UNCHANGED <<sent, ended, turns>>
    BY DEF Accepted
  <2> QED BY <2>1, <2>2, <2>3
<1>3. GivenKnown' /\ DoneIsSent' /\ ContextOnce'
  BY <1>1, <1>2, GivingKnows
<1>4. NativesKnown'
  BY <1>1, <1>2 DEF Knowledge, NativesKnown
<1>5. Delivery(r)'
  <2>1. \A b \in rq[r].sending : <<n, b>> \notin sent
    BY <1>1, <1>2, Fresh
  <2>2. ASSUME NEW x \in injected', x[3] = turns PROVE x[1] = n /\ x[2] \in rq[r].sending
    <3>1. CASE x \in injected
      <4>1. x[1] = rq[r].native /\ x[2] \in rq[r].sending /\ x[1] \in natives
        BY <1>2, <2>2, <3>1 DEF Knowledge, Delivery, GivenKnown
      <4>2. natives \subseteq Natives
        BY DEF IInv, TypeOK
      <4> QED BY <1>2, <4>1, <4>2, SessionAssumption
    <3>2. CASE x \in Given(r, n)
      BY <3>2, GivenIs
    <3> QED BY <1>2, <3>1, <3>2
  <2> QED BY <1>1, <1>2, <2>1, <2>2 DEF Delivery
<1>6. \A s \in Requests : s # r => ~InTurn(s)'
  BY <1>2 DEF IInv, OneTurn
<1> QED BY <1>3, <1>4, <1>5, <1>6 DEF Knowledge, Delivery

LEMMA EofKnows ==
    ASSUME IInv, IInv', Knowledge, NEW r \in Requests, Eof(r)
    PROVE  Knowledge'
<1>1. /\ rq[r].pc = "streaming" /\ InTurn(r) /\ rq'[r].native = rq[r].native
      /\ rq'[r].sending = rq[r].sending /\ rq'[r].turn = rq[r].turn /\ rq'[r].result = Outcome(r)
      /\ rq'[r].pc = IF Outcome(r) = "done" THEN "marking" ELSE "closing"
      /\ \A s \in Requests : s # r => rq'[s] = rq[s]
  BY DEF Eof, IInv, TypeOK, Request, InTurn
<1>2. UNCHANGED <<natives, sent, ended, turns>>
  BY DEF Eof, log
<1>3. CASE Outcome(r) # "done"
  <2>1. injected' = injected
    BY <1>3 DEF Eof
  <2> QED BY <1>1, <1>2, <1>3, <2>1, MovesOn
<1>4. CASE Outcome(r) = "done"
  <2> DEFINE n == rq[r].native
  <2>1. n \in natives /\ n \in Natives
    BY <1>4, OutcomeOK DEF Knowledge, NativesKnown, IInv, TypeOK
  <2>2. injected' = injected \cup Given(r, n) /\ InTurn(r)'
    BY <1>1, <1>4 DEF Eof, InTurn
  <2>3. GivenKnown' /\ DoneIsSent' /\ ContextOnce'
    BY <1>1, <1>2, <2>1, <2>2, GivingKnows
  <2>4. NativesKnown'
    BY <1>1, <1>2 DEF Knowledge, NativesKnown
  <2>5. Delivery(r)'
    <3>1. \A x \in injected' : x[3] = turns => x[1] = n /\ x[2] \in rq[r].sending
      BY <1>1, <2>2, GivenIs DEF Knowledge, Delivery
    <3>2. Given(r, n)' = Given(r, n)
      BY <1>1 DEF Given
    <3> QED BY <1>1, <1>2, <1>4, <2>2, <3>1, <3>2 DEF Delivery
  <2>6. \A s \in Requests : s # r => ~InTurn(s)'
    BY <2>2 DEF IInv, OneTurn
  <2> QED BY <2>3, <2>4, <2>5, <2>6 DEF Knowledge, Delivery
<1> QED BY <1>3, <1>4

\* The ledger takes what was given, and nothing else.
LEMMA MarkKnows ==
    ASSUME IInv, IInv', Knowledge, NEW r \in Requests, Mark(r)
    PROVE  Knowledge'
<1>1. /\ rq[r].pc = "marking" /\ rq'[r].pc = "closing" /\ rq'[r].native = rq[r].native
      /\ rq'[r].sending = rq[r].sending /\ rq'[r].result = rq[r].result
      /\ InTurn(r) /\ InTurn(r)' /\ \A s \in Requests : s # r => rq'[s] = rq[s]
  BY DEF Mark, IInv, TypeOK, Request, InTurn
<1>2. /\ UNCHANGED <<natives, injected, ended, turns>>
      /\ sent' = sent \cup {<<rq[r].native, b>> : b \in rq[r].sending}
  BY DEF Mark, log, history
<1>3. NativesKnown' /\ GivenKnown' /\ DoneIsSent'
  BY <1>1, <1>2 DEF Knowledge, NativesKnown, GivenKnown, DoneIsSent
<1>4. ASSUME NEW p \in sent' PROVE \E x \in injected' : x[1] = p[1] /\ x[2] = p[2]
  <2>1. CASE p \in sent
    BY <1>2, <2>1 DEF Knowledge, ContextOnce
  <2>2. ASSUME NEW b \in rq[r].sending, p = <<rq[r].native, b>>
        PROVE  \E x \in injected' : x[1] = p[1] /\ x[2] = p[2]
    <3> DEFINE x == <<rq[r].native, b, rq[r].turn>>
    <3>1. x \in Given(r, rq[r].native)
      BY DEF Given
    <3>2. x \in injected
      BY <1>1, <3>1 DEF Knowledge, Delivery
    <3>3. x[1] = p[1] /\ x[2] = p[2]
      BY <2>2
    <3> HIDE DEF x
    <3> QED BY <1>2, <3>2, <3>3
  <2> QED BY <1>2, <2>1, <2>2
<1>5. ContextOnce'
  BY <1>2, <1>4 DEF Knowledge, ContextOnce
<1>6. Delivery(r)'
  BY <1>1, <1>2 DEF Knowledge, Delivery
<1>7. \A s \in Requests : s # r => ~InTurn(s)'
  BY <1>1 DEF IInv, OneTurn
<1> QED BY <1>3, <1>5, <1>6, <1>7 DEF Knowledge, Delivery

\* A turn that ends as done has marked what it gave.
LEMMA CloseKnows ==
    ASSUME IInv, IInv', Knowledge, NEW r \in Requests, Close(r)
    PROVE  Knowledge'
<1>1. /\ rq[r].pc = "closing" /\ rq'[r].pc = "ended" /\ rq'[r].native = rq[r].native
      /\ rq'[r].sending = rq[r].sending /\ rq'[r].result = rq[r].result
      /\ InTurn(r) /\ InTurn(r)' /\ \A s \in Requests : s # r => rq'[s] = rq[s]
  BY DEF Close, IInv, TypeOK, Request, InTurn
<1>2. UNCHANGED <<natives, sent, injected, turns>>
  BY DEF Close
<1>3. turns \in 1..MaxTurns /\ rq[r].turn = turns /\ ended[turns] = <<>>
  BY <1>1, OnlyTurn DEF IInv, EntryOK
<1>4. /\ \A t \in 1..MaxTurns : t # turns => ended'[t] = ended[t]
      /\ ended'[turns] = <<rq[r].result>>
  <2>1. Append(<<>>, rq[r].result) = <<rq[r].result>>
    OBVIOUS
  <2> QED BY <1>3, <2>1 DEF Close, IInv, TypeOK
<1>5. \A x \in injected : x[3] \in 1..MaxTurns /\ x[3] <= turns
  BY DEF Knowledge, GivenKnown, IInv, TypeOK
<1>6. NativesKnown' /\ GivenKnown'
  BY <1>1, <1>2 DEF Knowledge, NativesKnown, GivenKnown
<1>7. DoneIsSent'
  <2> SUFFICES ASSUME NEW x \in injected, ended'[x[3]] = <<"done">> PROVE <<x[1], x[2]>> \in sent
    BY <1>2 DEF DoneIsSent
  <2>1. CASE x[3] # turns
    BY <1>4, <1>5, <2>1 DEF Knowledge, DoneIsSent
  <2>2. CASE x[3] = turns
    <3>1. rq[r].result = "done"
      <4>1. \A v : <<v>>[1] = v
        OBVIOUS
      <4> QED BY <1>4, <2>2, <4>1
    <3> QED BY <1>1, <2>2, <3>1 DEF Knowledge, Delivery
  <2> QED BY <2>1, <2>2
<1>8. ContextOnce'
  <2>1. \A p \in sent' : \E x \in injected' : x[1] = p[1] /\ x[2] = p[2]
    BY <1>2 DEF Knowledge, ContextOnce
  <2>2. ASSUME NEW x \in injected, NEW y \in injected, x[1] = y[1], x[2] = y[2], x[3] < y[3]
        PROVE  ended'[x[3]] # <<"done">>
    <3>1. x[3] # turns
      BY <1>3, <1>5, <2>2
    <3> QED BY <1>4, <1>5, <2>2, <3>1 DEF Knowledge, ContextOnce
  <2> QED BY <1>2, <2>1, <2>2 DEF ContextOnce
<1>9. Delivery(r)'
  BY <1>1, <1>2 DEF Knowledge, Delivery
<1>10. \A s \in Requests : s # r => ~InTurn(s)'
  BY <1>1 DEF IInv, OneTurn
<1> QED BY <1>6, <1>7, <1>8, <1>9, <1>10 DEF Knowledge, Delivery

LEMMA KnowledgeStep ==
    ASSUME IInv, IInv', Knowledge, [Next]_vars
    PROVE  Knowledge'
<1>1. rq \in [Requests -> Request]
  BY DEF IInv, TypeOK
<1>2. ASSUME NEW r \in Requests, NEW bundles \in SUBSET Bundles, Load(r, bundles) PROVE Knowledge'
  BY <1>2, LoadKnows
<1>3. ASSUME NEW r \in Requests, Reserve(r) PROVE Knowledge'
  BY <1>3, ReserveKnows
<1>4. ASSUME NEW r \in Requests, Conflict(r) \/ Release(r) PROVE Knowledge'
  <2>1. rq'[r].native = NoNative /\ ~InTurn(r)' /\ \A s \in Requests : s # r => rq'[s] = rq[s]
    BY <1>1, <1>4 DEF Conflict, Release, Free, InTurn
  <2> QED BY <1>4, <2>1, QuietStep DEF Conflict, Release, log, history
<1>5. ASSUME NEW r \in Requests, TurnStep(r) PROVE Knowledge'
  <2>1. CASE Ask(r)
    BY <2>1, AskKnows
  <2>2. CASE Announce(r) \/ Spawn(r)
    <3>1. InTurn(r) /\ \A s \in Requests : s # r => rq'[s] = rq[s]
      BY <2>2, TurnMoves
    <3>2. /\ rq'[r].native = rq[r].native /\ rq'[r].sending = rq[r].sending
          /\ \/ rq[r].pc = "asked" /\ rq'[r].pc = "running"
             \/ rq[r].pc = "running" /\ rq'[r].pc = "streaming"
      BY <1>1, <2>2 DEF Announce, Spawn, Request
    <3>3. UNCHANGED <<natives, sent, injected, ended, turns>>
      BY <2>2 DEF Announce, Spawn, log, history
    <3> QED BY <3>1, <3>2, <3>3, MovesOn
  <2>3. CASE Err(r)
    <3>1. InTurn(r) /\ rq[r].result = "failed"
      BY <2>3 DEF Err, InTurn, Knowledge, Delivery
    <3>2. /\ rq'[r].native = rq[r].native /\ rq'[r].sending = rq[r].sending
          /\ rq'[r].pc \in {"closing", "ended"} /\ rq'[r].result = rq[r].result
          /\ \A s \in Requests : s # r => rq'[s] = rq[s]
      BY <1>1, <2>3 DEF Err, Request
    <3>3. UNCHANGED <<natives, sent, injected, ended, turns>>
      BY <2>3 DEF Err, history
    <3> QED BY <3>1, <3>2, <3>3, MovesOn
  <2>4. CASE Mark(r)
    BY <2>4, MarkKnows
  <2>5. CASE Close(r)
    BY <2>5, CloseKnows
  <2> QED BY <1>4, <1>5, <2>1, <2>2, <2>3, <2>4, <2>5 DEF TurnStep
<1>6. ASSUME NEW r \in Requests, NEW n \in Natives, Accepted(r, n) PROVE Knowledge'
  BY <1>6, AcceptedKnows
<1>7. ASSUME NEW r \in Requests, NEW s \in {"running", "failed", "done"}, Says(r, s) PROVE Knowledge'
  <2>1. InTurn(r) /\ \A q \in Requests : q # r => rq'[q] = rq[q]
    BY <1>7, TurnMoves
  <2>2. /\ rq'[r].native = rq[r].native /\ rq'[r].sending = rq[r].sending /\ rq'[r].pc = rq[r].pc
        /\ rq'[r].turn = rq[r].turn /\ rq'[r].result = rq[r].result
    BY <1>1, <1>7 DEF Says, Request
  <2>3. UNCHANGED <<natives, sent, injected, ended, turns>>
    BY <1>7 DEF Says, history
  <2> QED BY <2>1, <2>2, <2>3, MovesOn
<1>8. ASSUME NEW r \in Requests, Eof(r) PROVE Knowledge'
  BY <1>8, EofKnows
<1>9. ASSUME NEW r \in Requests, Raise(r) \/ Gone(r) PROVE Knowledge'
  <2>1. InTurn(r) /\ \A s \in Requests : s # r => rq'[s] = rq[s]
    BY <1>9, TurnMoves
  <2>2. /\ rq'[r].native = rq[r].native /\ rq'[r].sending = rq[r].sending
        /\ \/ rq'[r].pc \in {"erring", "closing"} /\ rq'[r].result = "failed"
           \/ rq'[r].pc = "closing" /\ rq'[r].result = "interrupted"
    BY <1>1, <1>9 DEF Raise, Gone, Request
  <2>3. UNCHANGED <<natives, sent, injected, ended, turns>>
    BY <1>9 DEF Raise, Gone, log, history
  <2> QED BY <2>1, <2>2, <2>3, MovesOn
<1>10. CASE Stop
  <2> DEFINE r == active
  <2>1. r \in Requests
    BY <1>10 DEF Stop, IInv, TypeOK
  <2>2. /\ rq'[r].native = rq[r].native /\ rq'[r].sending = rq[r].sending /\ rq'[r].pc = rq[r].pc
        /\ rq'[r].turn = rq[r].turn /\ rq'[r].result = rq[r].result
        /\ \A s \in Requests : s # r => rq'[s] = rq[s]
    BY <1>1, <1>10, <2>1 DEF Stop, Request
  <2>3. UNCHANGED <<natives, sent, injected, ended, turns>>
    BY <1>10 DEF Stop, log, history
  <2> HIDE DEF r
  <2>4. CASE InTurn(r)
    BY <2>1, <2>2, <2>3, <2>4, MovesOn
  <2>5. CASE ~InTurn(r)
    BY <2>1, <2>2, <2>3, <2>5, QuietStep DEF InTurn, Knowledge, NativesKnown
  <2> QED BY <2>4, <2>5
<1>11. CASE ArchiveAsk \/ ArchiveLoad \/ ArchiveAppend \/ Restart \/ UNCHANGED vars
  BY <1>11, QuietStep DEF ArchiveAsk, ArchiveLoad, ArchiveAppend, Restart, vars, log, history
<1>12. CASE Crash
  BY <1>12, QuietStep DEF Crash, log, history, Free, InTurn
<1>13. ASSUME NEW r \in Requests, Refuse(r) PROVE Knowledge'
  <2>1. /\ rq'[r].native = rq[r].native /\ ~InTurn(r)'
        /\ \A s \in Requests : s # r => rq'[s] = rq[s]
    BY <1>1, <1>13 DEF Refuse, InTurn, Request
  <2> QED BY <1>13, <2>1, QuietStep DEF Refuse, log, history, Knowledge, NativesKnown
<1>14. ASSUME NEW r \in Requests, Leak(r) PROVE Knowledge'
  <2>1. /\ InTurn(r) /\ rq[r].pc = "reserved" /\ rq'[r].pc = "leaked"
        /\ rq'[r].native = rq[r].native /\ rq'[r].sending = rq[r].sending
        /\ \A s \in Requests : s # r => rq'[s] = rq[s]
    BY <1>1, <1>14 DEF Leak, InTurn, Request
  <2> QED BY <1>14, <2>1, MovesOn DEF Leak, log, history
<1> QED BY <1>2, <1>3, <1>4, <1>5, <1>6, <1>7, <1>8, <1>9, <1>10, <1>11, <1>12, <1>13, <1>14
        DEF Next
-----------------------------------------------------------------------------
LEMMA KnowledgeHolds == Spec => [](IInv /\ RunsIfRunning /\ OneNative /\ Knowledge)
<1> DEFINE Inv == IInv /\ RunsIfRunning /\ OneNative /\ Knowledge
<1>1. Init => Inv
  <2> SUFFICES ASSUME Init PROVE Inv
    OBVIOUS
  <2>1. IInv /\ \A r \in Requests : ~InTurn(r) /\ rq[r].native = NoNative
    BY InitOK DEF Init, InTurn, Free
  <2>2. RunsIfRunning /\ OneNative
    BY <2>1 DEF Init, RunsIfRunning, OneNative
  <2>3. Knowledge
    BY <2>1 DEF Init, Knowledge, NativesKnown, GivenKnown, DoneIsSent, ContextOnce, Delivery
  <2> QED BY <2>1, <2>2, <2>3
<1>2. Inv /\ [Next]_vars => Inv'
  BY StepOK, RunningStep, NativeStep, KnowledgeStep
<1> QED BY <1>1, <1>2, PTL DEF Spec

\* While the server is up, a session it can load is only shown as running when
\* a turn of this server runs it: every end of stream_session_turn writes another
\* status, and recover_orphaned_sessions does for a turn that a crash ended.
THEOREM RunningIsRun == Spec => []RunningHasTurn
<1>1. RunsIfRunning => RunningHasTurn
  BY DEF RunsIfRunning, RunningHasTurn
<1> QED BY <1>1, KnowledgeHolds, PTL

\* The ledger of sent contexts is true: mark_context_sent only names what a
\* provider was given, and what a finished turn gave a native session is in
\* it, so that no later turn gives it again.
THEOREM ContextsDeliveredOnce == Spec => []ContextOnce
<1>1. Knowledge => ContextOnce
  BY DEF Knowledge
<1> QED BY <1>1, KnowledgeHolds, PTL

\* load_session never meets a second native id, however turns fail, stop or
\* meet a crash, as long as each starts from the id the log has.
THEOREM OneNativeSession == Spec => []NativeStable
<1>1. OneNative => NativeStable
  <2> SUFFICES ASSUME OneNative, ~stale PROVE Cardinality(natives) <= 1
    BY DEF NativeStable, Loadable
  <2>1. CASE natives = {}
    BY <2>1, FS_EmptySet
  <2>2. CASE natives # {}
    <3>1. PICK n \in natives : natives = {n}
      BY <2>2 DEF OneNative
    <3>2. Cardinality({n}) = 1
      BY FS_Singleton
    <3> QED BY <3>1, <3>2
  <2> QED BY <2>1, <2>2
<1> QED BY <1>1, KnowledgeHolds, PTL
=============================================================================
