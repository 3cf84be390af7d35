----------------------- MODULE InteractiveSession_proofs -----------------------
(***************************************************************************)
(* InteractiveSession: the invariants and the step properties of an        *)
(* interactive run for any number of clients, leases, faults and restarts. *)
(***************************************************************************)
EXTENDS InteractiveSession, FiniteSetTheorems, TLAPS

USE Zenon

-----------------------------------------------------------------------------
(***************************************************************************)
(* What the state looks like.                                              *)
(***************************************************************************)

(* The session, a call of send, the creator's forwarder, a subscription:   *)
(* their fields, as far as the invariants speak of them.                   *)
SessRec(s) ==
    /\ DOMAIN s = {"state", "attached", "turns", "pending"}
    /\ s.attached \in BOOLEAN /\ s.turns \in BOOLEAN /\ s.pending \in Nat
SendRec(x) ==
    /\ DOMAIN x = {"pc", "kind", "lease", "reserved"}
    /\ x.kind \in Frames /\ x.lease \in Nat /\ x.reserved \in BOOLEAN
CreatorRec(r) == DOMAIN r = {"pc", "gone", "sentEOF", "last"}
SubRec(s) ==
    /\ DOMAIN s = {"open", "dropped", "buf", "pub", "seen"}
    /\ s.open \in BOOLEAN /\ s.dropped \in BOOLEAN
    /\ s.buf \in Seq(Nat) /\ s.pub \in Nat /\ s.seen \in Nat

(* Frames of the input channel, of the agent's stdin, of its output.       *)
Inputs == [kind : Frames, lease : Nat]
BoxFrames == {"msg", "eof", "close"}
OutFrames == {"turn", "result"}

Types ==
    /\ SessRec(sess) /\ CreatorRec(creator)
    /\ DOMAIN snd = Senders /\ \A p \in Senders : SendRec(snd[p])
    /\ DOMAIN cl = Clients /\ DOMAIN subs = Clients
    /\ \A c \in Clients : subs[c] = None \/ SubRec(subs[c])
    /\ input \in Seq(Inputs) /\ inbox \in Seq(BoxFrames) /\ out \in Seq(OutFrames)
    /\ lease \in Nat \ {0} /\ heard \in Nat /\ restarts \in Nat /\ early \in Nat

(* Ends of turns the daemon has not read.                                  *)
One(b) == IF b THEN 1 ELSE 0
Turns == Cardinality({i \in DOMAIN out : out[i] = "turn"})

(* Before the first message is sent nothing is at the agent, and a daemon  *)
(* that resumes a run never comes back here.                               *)
Starting == loop \in {"prepare", "begin", "first"}
StartOK ==
    Starting => /\ restarts = 0
                /\ inbox = <<>> /\ Turns = 0 /\ agent # "turn"
                /\ pump = "none" /\ token = FALSE

(* The turn is with the agent, on its way back, about to be released, or   *)
(* released; a resume releases one more.                                   *)
TurnOK ==
    AtAgent + Turns + One(token) + One(loop \in {"deliver", "reopen"}) <= 1 + restarts

(* A subscription that is open has not been dropped; what it holds         *)
(* continues what the client took.                                         *)
NoGap(s) ==
    /\ \A i \in DOMAIN s.buf : s.buf[i] = s.seen + i
    /\ s.dropped \/ s.pub = s.seen + Len(s.buf)
    /\ s.open => ~s.dropped
SubsOK ==
    \A c \in Clients :
        /\ cl[c] = "open" => SubRec(subs[c]) /\ NoGap(subs[c])
        /\ subs[c] # None => NoGap(subs[c])

(* Who holds the input lease.                                              *)
Holds(p) ==
    IF p = Creator THEN creator.pc # "done"
    ELSE p \in Clients /\ cl[p] \in {"leased", "open", "closing"}

(* One at a time holds the lease; who sends holds it, and what is queued   *)
(* was sent under it or an earlier one.                                    *)
HolderOK ==
    \A p \in Senders : Holds(p) =>
        sess.attached /\ \A q \in Senders : Holds(q) => q = p
SendingOK ==
    \A p \in Senders \ {Stopper} : snd[p].pc = "blocked" =>
        /\ snd[p].lease = lease
        /\ IF p = Creator THEN creator.pc = "recv" ELSE cl[p] \in {"open", "closing"}
LeaseOK ==
    /\ snd[Stopper].lease = 0
    /\ heard <= lease
    /\ \A i \in DOMAIN input : input[i].lease <= lease

(* Turns reserved by a send that is still under way.                       *)
Reserved == {p \in Senders : snd[p].pc = "blocked" /\ snd[p].reserved}
Queued == Cardinality({i \in DOMAIN input : input[i].kind = "msg"})

ReservedOK == \A p \in Senders : snd[p].reserved => snd[p].kind = "msg" /\ p # Stopper

(* Every message between its reservation and the end of its turn is        *)
(* pending, or was accepted before turns were tracked.                     *)
CountOK ==
    restarts = 0 =>
        AtAgent + One(pump = "gate") + Queued + Turns + Cardinality(Reserved)
            + One(loop = "first") <= sess.pending + early
UntrackedOK == restarts > 0 \/ loop \in {"prepare", "begin"} => ~sess.turns

SessionInv ==
    /\ Types /\ StartOK /\ TurnOK /\ SubsOK
    /\ HolderOK /\ SendingOK /\ LeaseOK /\ InputInLeaseOrder
    /\ ReservedOK /\ CountOK /\ UntrackedOK

-----------------------------------------------------------------------------
(***************************************************************************)
(* Counting the frames of a channel.                                       *)
(***************************************************************************)

(* How many elements of a queue are in S.                                  *)
Hits(q, S) == Cardinality({i \in DOMAIN q : q[i] \in S})

(* The positions behind the first one, moved to the front, are as many.    *)
LEMMA ShiftedCount ==
    ASSUME NEW n \in Nat, NEW S \in SUBSET (1..n)
    PROVE  LET T == {i \in 1..(n - 1) : i + 1 \in S}
           IN  /\ IsFiniteSet(S) /\ IsFiniteSet(T)
               /\ Cardinality(S) = Cardinality(T) + One(1 \in S)
<1> DEFINE T == {i \in 1..(n - 1) : i + 1 \in S}
           f == [i \in T |-> i + 1]
<1>1. IsFiniteSet(1..n) /\ IsFiniteSet(1..(n - 1))
    BY FS_Interval, SMT
<1>2. IsFiniteSet(S) /\ IsFiniteSet(T)
    BY <1>1, FS_Subset
<1>3. f \in Bijection(T, S \ {1})
  <2>1. f \in [T -> S \ {1}]
      BY SMT
  <2>2. \A a, b \in T : f[a] = f[b] => a = b
      BY SMT
  <2>3. ASSUME NEW y \in S \ {1} PROVE \E x \in T : f[x] = y
    <3>1. y - 1 \in T /\ f[y - 1] = y
        BY SMT
    <3> QED
        BY <3>1
  <2> HIDE DEF f, T
  <2>4. f \in Injection(T, S \ {1})
      BY <2>1, <2>2 DEF Injection, IsInjective
  <2>5. f \in Surjection(T, S \ {1})
      BY <2>1, <2>3 DEF Surjection
  <2> QED
      BY <2>4, <2>5 DEF Bijection
<1> HIDE DEF f, T
<1>4. Cardinality(S \ {1}) = Cardinality(T)
  <2>1. ExistsBijection(T, S \ {1})
      BY <1>3 DEF ExistsBijection
  <2> QED
      BY <1>2, <2>1, FS_Bijection
<1>5. Cardinality(S) = Cardinality(T) + One(1 \in S)
  <2>1. Cardinality(T) \in Nat /\ Cardinality(S) \in Nat
      BY <1>2, FS_CardinalityType
  <2>2. CASE 1 \in S
    <3>1. Cardinality(S \ {1}) = Cardinality(S) - 1
        BY <1>2, <2>2, FS_RemoveElement
    <3> QED
        BY <1>4, <2>1, <2>2, <3>1, SMT DEF One
  <2>3. CASE 1 \notin S
    <3>1. S \ {1} = S
        BY <2>3
    <3> QED
        BY <1>4, <2>1, <2>3, <3>1, SMT DEF One
  <2> QED
      BY <2>2, <2>3
<1> QED
    BY <1>2, <1>5 DEF T

(* A queue holds finitely many frames of a kind.                           *)
LEMMA HitsCount ==
    ASSUME NEW X, NEW q \in Seq(X), NEW S
    PROVE  /\ Hits(q, S) \in Nat
           /\ IsFiniteSet({i \in DOMAIN q : q[i] \in S})
<1>1. IsFiniteSet(1..Len(q))
    BY FS_Interval, SMT
<1>2. {i \in DOMAIN q : q[i] \in S} \subseteq 1..Len(q)
    BY SMT
<1> QED
    BY <1>1, <1>2, FS_Subset, FS_CardinalityType DEF Hits

(* Nothing is in an empty queue.                                           *)
LEMMA HitsEmpty ==
    ASSUME NEW S
    PROVE  Hits(<<>>, S) = 0
<1>1. {i \in DOMAIN <<>> : <<>>[i] \in S} = {}
    BY SMT
<1> QED
    BY <1>1, FS_EmptySet DEF Hits

(* A frame that is queued is counted once more.                            *)
LEMMA HitsAppend ==
    ASSUME NEW X, NEW q \in Seq(X), NEW x \in X, NEW S
    PROVE  Hits(Append(q, x), S) = Hits(q, S) + One(x \in S)
<1> DEFINE A == {i \in DOMAIN q : q[i] \in S}
           B == {i \in DOMAIN Append(q, x) : Append(q, x)[i] \in S}
           n == Len(q) + 1
<1>1. IsFiniteSet(A) /\ Cardinality(A) \in Nat
    BY HitsCount DEF Hits
<1>2. CASE x \in S
  <2>1. B = A \cup {n} /\ n \notin A
      BY <1>2, SMT
  <2>2. Cardinality(B) = Cardinality(A) + 1
      BY <1>1, <2>1, FS_AddElement
  <2>3. One(x \in S) = 1
      BY <1>2 DEF One
  <2> QED
      BY <2>2, <2>3 DEF Hits
<1>3. CASE x \notin S
  <2>1. B = A
      BY <1>3, SMT
  <2>2. One(x \in S) = 0
      BY <1>3 DEF One
  <2>3. Cardinality(A) = Cardinality(A) + 0
      BY <1>1, SMT
  <2> QED
      BY <2>1, <2>2, <2>3 DEF Hits
<1> QED
    BY <1>2, <1>3

(* The frame that is taken from the front is counted no more.              *)
LEMMA HitsTail ==
    ASSUME NEW X, NEW q \in Seq(X), q # <<>>, NEW S
    PROVE  Hits(q, S) = Hits(Tail(q), S) + One(Head(q) \in S)
<1> DEFINE A == {i \in DOMAIN q : q[i] \in S}
           B == {i \in DOMAIN Tail(q) : Tail(q)[i] \in S}
<1>1. Len(q) \in Nat \ {0} /\ A \in SUBSET (1..Len(q))
    BY SMT
<1>2. B = {i \in 1..(Len(q) - 1) : i + 1 \in A}
    BY <1>1, SMT
<1>3. 1 \in A <=> Head(q) \in S
    BY <1>1, SMT
<1>4. Cardinality(A) = Cardinality(B) + One(1 \in A)
    BY <1>1, <1>2, ShiftedCount
<1> QED
    BY <1>3, <1>4 DEF Hits, One

-----------------------------------------------------------------------------
(***************************************************************************)
(* Types.                                                                  *)
(***************************************************************************)

(* What the session's methods do to its fields.                            *)
LEMMA SessionFields ==
    ASSUME NEW s, SessRec(s)
    PROVE  /\ SessRec(LowerPending(s)) /\ SessRec(Acquired(s)) /\ SessRec(Released(s))
           /\ LowerPending(s).turns = s.turns
           /\ LowerPending(s).attached = s.attached
           /\ LowerPending(s).pending = IF s.pending > 0 THEN s.pending - 1 ELSE 0
           /\ Acquired(s).turns = s.turns /\ Acquired(s).pending = s.pending
           /\ Acquired(s).attached = TRUE
           /\ Released(s).turns = s.turns /\ Released(s).pending = s.pending
           /\ Released(s).attached = FALSE
<1>1. SessRec(LowerPending(s))
    BY SMT DEF SessRec, LowerPending
<1>2. SessRec(Acquired(s)) /\ SessRec(Released(s))
    BY SMT DEF SessRec, Acquired, Released
<1>3. LowerPending(s).turns = s.turns /\ LowerPending(s).attached = s.attached
    BY SMT DEF SessRec, LowerPending
<1>4. LowerPending(s).pending = IF s.pending > 0 THEN s.pending - 1 ELSE 0
    BY SMT DEF SessRec, LowerPending
<1>5. /\ Acquired(s).turns = s.turns /\ Acquired(s).pending = s.pending
      /\ Acquired(s).attached = TRUE
    BY SMT DEF SessRec, Acquired
<1>6. /\ Released(s).turns = s.turns /\ Released(s).pending = s.pending
      /\ Released(s).attached = FALSE
    BY SMT DEF SessRec, Released
<1> QED
    BY <1>1, <1>2, <1>3, <1>4, <1>5, <1>6

(* Publish and the close of a subscription keep its shape, and what it     *)
(* holds continues what its client took.                                   *)
LEMMA SubscriptionKept ==
    ASSUME NEW s, s = None \/ SubRec(s)
    PROVE  /\ Published(s) = None \/ SubRec(Published(s))
           /\ SubRec(s) => SubRec(Published(s))
           /\ NoGap(s) => NoGap(Published(s))
           /\ Hangup(s) = None \/ SubRec(Hangup(s))
           /\ SubRec(s) => SubRec(Hangup(s))
           /\ Published(s) # None \/ Hangup(s) # None => s # None
           /\ NoGap(s) => NoGap(Hangup(s))
<1>1. CASE s = None
    BY <1>1 DEF Published, Hangup
<1>2. CASE s # None
  <2>1. SubRec(s)
      BY <1>2
  <2>2. SubRec(Hangup(s))
      BY <1>2, <2>1, SMT DEF Hangup, SubRec
  <2>3. NoGap(s) => NoGap(Hangup(s))
    <3>1. /\ Hangup(s).open = FALSE /\ Hangup(s).dropped = s.dropped
          /\ Hangup(s).buf = s.buf /\ Hangup(s).pub = s.pub /\ Hangup(s).seen = s.seen
        BY <1>2, <2>1, SMT DEF Hangup, SubRec
    <3> QED
        BY <3>1 DEF NoGap
  <2>4. SubRec(Published(s))
    <3>1. CASE ~s.open
        BY <2>1, <3>1 DEF Published
    <3>2. CASE s.open /\ Len(s.buf) < SubCap
      <4>1. SubRec([s EXCEPT !.buf = Append(@, s.pub + 1), !.pub = @ + 1])
          BY <2>1, SMT DEF SubRec
      <4> QED
          BY <1>2, <3>2, <4>1 DEF Published
    <3>3. CASE s.open /\ ~(Len(s.buf) < SubCap)
      <4>1. SubRec([s EXCEPT !.open = FALSE, !.dropped = TRUE])
          BY <2>1, SMT DEF SubRec
      <4> QED
          BY <1>2, <3>3, <4>1 DEF Published
    <3> QED
        BY <3>1, <3>2, <3>3
  <2>5. NoGap(s) => NoGap(Published(s))
    <3> SUFFICES ASSUME NoGap(s) PROVE NoGap(Published(s))
        OBVIOUS
    <3>1. CASE ~s.open
        BY <3>1 DEF Published
    <3>2. CASE s.open /\ Len(s.buf) < SubCap
      <4> DEFINE t == [s EXCEPT !.buf = Append(@, s.pub + 1), !.pub = @ + 1]
      <4>1. Published(s) = t
          BY <1>2, <3>2 DEF Published
      <4>2. /\ t.open = s.open /\ t.dropped = s.dropped /\ t.seen = s.seen
            /\ t.pub = s.pub + 1 /\ t.buf = Append(s.buf, s.pub + 1)
          BY <2>1, SMT DEF SubRec
      <4>3. ~s.dropped /\ s.pub = s.seen + Len(s.buf)
          BY <3>2 DEF NoGap
      <4> HIDE DEF t
      <4>4. s.buf \in Seq(Nat) /\ s.pub \in Nat /\ s.seen \in Nat
          BY <2>1 DEF SubRec
      <4>5. \A i \in DOMAIN s.buf : s.buf[i] = s.seen + i
          BY DEF NoGap
      <4>6. ASSUME NEW i \in DOMAIN t.buf PROVE t.buf[i] = t.seen + i
        <5>1. i \in DOMAIN s.buf \/ i = Len(s.buf) + 1
            BY <4>2, <4>4, <4>6, SMT
        <5>2. CASE i \in DOMAIN s.buf
            BY <4>2, <4>4, <4>5, <5>2, SMT
        <5>3. CASE i = Len(s.buf) + 1
            BY <4>2, <4>3, <4>4, <5>3, SMT
        <5> QED
            BY <5>1, <5>2, <5>3
      <4>7. t.pub = t.seen + Len(t.buf)
          BY <4>2, <4>3, <4>4, SMT
      <4> QED
          BY <4>1, <4>2, <4>3, <4>6, <4>7 DEF NoGap
    <3>3. CASE s.open /\ ~(Len(s.buf) < SubCap)
      <4> DEFINE t == [s EXCEPT !.open = FALSE, !.dropped = TRUE]
      <4>1. Published(s) = t
          BY <1>2, <3>3 DEF Published
      <4>2. /\ t.open = FALSE /\ t.dropped = TRUE /\ t.seen = s.seen
            /\ t.pub = s.pub /\ t.buf = s.buf
          BY <2>1, SMT DEF SubRec
      <4> HIDE DEF t
      <4> QED
          BY <4>1, <4>2 DEF NoGap
    <3> QED
        BY <3>1, <3>2, <3>3 DEF SubRec
  <2> QED
      BY <1>2, <2>1, <2>2, <2>3, <2>4, <2>5
<1> QED
    BY <1>1, <1>2

(* What is sent or closed leaves a sequence of frames.                     *)
LEMMA BoxKept ==
    ASSUME NEW box \in Seq(BoxFrames), NEW k \in BoxFrames, inbox \in Seq(BoxFrames)
    PROVE  /\ Hears(box, k) \in Seq(BoxFrames)
           /\ Told(k) \in Seq(BoxFrames)
           /\ WithClose(box) \in Seq(BoxFrames)
<1>1. "close" \in BoxFrames
    BY DEF BoxFrames
<1> QED
    BY <1>1, SMT DEF Hears, Told, WithClose

(* The initial state has its types.                                        *)
LEMMA InitTypes ==
    ASSUME Init
    PROVE  Types
<1>1. SessRec(sess) /\ CreatorRec(creator)
    BY SMT DEF Init, NewSession, SessRec, CreatorRec
<1>2. SendRec(Quiet)
    BY SMT DEF SendRec, Quiet, Frames
<1>3. DOMAIN snd = Senders /\ \A p \in Senders : SendRec(snd[p])
    BY <1>2 DEF Init
<1>4. /\ DOMAIN cl = Clients /\ DOMAIN subs = Clients
      /\ \A c \in Clients : subs[c] = None \/ SubRec(subs[c])
    BY DEF Init
<1>5. /\ input \in Seq(Inputs) /\ inbox \in Seq(BoxFrames) /\ out \in Seq(OutFrames)
      /\ lease \in Nat \ {0} /\ heard \in Nat /\ restarts \in Nat /\ early \in Nat
    BY SMT DEF Init
<1> QED
    BY <1>1, <1>3, <1>4, <1>5 DEF Types

(* The first half of send, for sender p and a frame of kind k.             *)
LEMMA ReserveFields ==
    ASSUME Types, NEW p \in Senders, NEW k \in Frames, Reserve(p, k)
    PROVE  LET tracked == k = "msg" /\ sess.turns /\ ~Terminal
           IN  /\ DOMAIN snd' = Senders /\ \A q \in Senders \ {p} : snd'[q] = snd[q]
               /\ SendRec(snd'[p]) /\ snd'[p].pc = "blocked" /\ snd'[p].kind = k
               /\ snd'[p].reserved <=> tracked
               /\ snd'[p].lease = IF p = Stopper THEN 0 ELSE lease
               /\ SessRec(sess') /\ sess'.turns = sess.turns
               /\ sess'.attached = sess.attached
               /\ sess'.pending = sess.pending + One(tracked)
<1> DEFINE tracked == k = "msg" /\ sess.turns /\ ~Terminal
           x == [pc |-> "blocked", kind |-> k, reserved |-> tracked,
                 lease |-> IF p = Stopper THEN 0 ELSE lease]
           n == sess.pending + One(tracked)
<1>1. snd' = [snd EXCEPT ![p] = x]
    BY DEF Reserve, Starts
<1>2. sess.pending \in Nat /\ lease \in Nat
    BY SMT DEF Types, SessRec
<1>3. n = IF tracked THEN sess.pending + 1 ELSE sess.pending
    BY <1>2, SMT DEF One
<1>4. sess' = [sess EXCEPT !.pending = n]
    BY <1>3 DEF Reserve, Starts
<1>5. n \in Nat
    BY <1>2, <1>3, SMT
<1>6. SendRec(x) /\ x.pc = "blocked" /\ x.kind = k /\ (x.reserved <=> tracked)
      /\ x.lease = IF p = Stopper THEN 0 ELSE lease
  <2>1. DOMAIN x = {"pc", "kind", "lease", "reserved"}
      BY SMT
  <2>2. x.kind = k /\ x.pc = "blocked" /\ x.lease = IF p = Stopper THEN 0 ELSE lease
      BY SMT
  <2>3. x.reserved = tracked
      BY Zenon
  <2>4. tracked \in BOOLEAN
      BY DEF Types, SessRec
  <2>5. x.lease \in Nat
      BY <1>2, <2>2, SMT
  <2> HIDE DEF x, tracked
  <2> QED
      BY <2>1, <2>2, <2>3, <2>4, <2>5 DEF SendRec
<1>7. DOMAIN snd = Senders /\ SessRec(sess)
    BY DEF Types
<1> HIDE DEF x, n
<1>8. DOMAIN snd' = Senders /\ snd'[p] = x /\ \A q \in Senders \ {p} : snd'[q] = snd[q]
    BY <1>1, <1>7
<1>9. SessRec(sess') /\ sess'.turns = sess.turns /\ sess'.attached = sess.attached
    BY <1>4, <1>5, <1>7, SMT DEF SessRec
<1>10. sess'.pending = n
    BY <1>4, <1>7, SMT DEF SessRec
<1> QED
    BY <1>6, <1>8, <1>9, <1>10 DEF n

(* A send that fails gives back the turn it had reserved.                  *)
LEMMA FailsFields ==
    ASSUME Types, NEW p \in Senders, Fails(p)
    PROVE  /\ DOMAIN snd' = Senders /\ \A q \in Senders \ {p} : snd'[q] = snd[q]
           /\ snd'[p] = Quiet /\ SendRec(Quiet) /\ Quiet.pc = "none"
           /\ Quiet.lease = 0 /\ ~Quiet.reserved
           /\ SessRec(sess') /\ sess'.turns = sess.turns
           /\ sess'.attached = sess.attached
           /\ sess'.pending = IF snd[p].reserved /\ sess.pending > 0
                              THEN sess.pending - 1 ELSE sess.pending
<1>1. DOMAIN snd = Senders /\ SessRec(sess) /\ sess.pending \in Nat
    BY DEF Types, SessRec
<1>2. /\ SendRec(Quiet) /\ Quiet.pc = "none" /\ Quiet.lease = 0 /\ ~Quiet.reserved
    BY SMT DEF SendRec, Quiet, Frames
<1>3. DOMAIN snd' = Senders /\ snd'[p] = Quiet /\ \A q \in Senders \ {p} : snd'[q] = snd[q]
    BY <1>1 DEF Fails
<1>4. sess' = IF snd[p].reserved THEN LowerPending(sess) ELSE sess
    BY DEF Fails, RollBack
<1>5. CASE snd[p].reserved
  <2>1. sess' = LowerPending(sess)
      BY <1>4, <1>5
  <2>2. sess'.pending = IF sess.pending > 0 THEN sess.pending - 1 ELSE 0
      BY <1>1, <2>1, SessionFields
  <2>3. sess'.pending = IF sess.pending > 0 THEN sess.pending - 1 ELSE sess.pending
      BY <1>1, <2>2, SMT
  <2> QED
      BY <1>1, <1>2, <1>3, <1>5, <2>1, <2>3, SessionFields
<1>6. CASE ~snd[p].reserved
    BY <1>1, <1>2, <1>3, <1>4, <1>6
<1> QED
    BY <1>5, <1>6

(* The sender's loop after a failed send.                                  *)
LEMMA FailureTypes ==
    ASSUME Types, NEW p \in Senders, AfterFailure(p)
    PROVE  /\ CreatorRec(creator') /\ DOMAIN cl' = Clients /\ DOMAIN subs' = Clients
           /\ \A c \in Clients : subs'[c] = None \/ SubRec(subs'[c])
<1>1. /\ CreatorRec(creator) /\ DOMAIN cl = Clients /\ DOMAIN subs = Clients
      /\ \A c \in Clients : subs[c] = None \/ SubRec(subs[c])
    BY DEF Types
<1>2. CreatorRec([creator EXCEPT !.pc = "ending"])
    BY <1>1, SMT DEF CreatorRec
<1>3. ASSUME NEW c \in Clients, Leaves(c)
      PROVE  /\ DOMAIN cl' = Clients /\ DOMAIN subs' = Clients
             /\ \A d \in Clients : subs'[d] = None \/ SubRec(subs'[d])
    BY <1>1, <1>3 DEF Leaves
<1> QED
    BY <1>1, <1>2, <1>3 DEF AfterFailure

(* Publishing keeps the subscriptions.                                     *)
LEMMA PublishTypes ==
    ASSUME Types, Publish
    PROVE  DOMAIN subs' = Clients /\ \A c \in Clients : subs'[c] = None \/ SubRec(subs'[c])
<1>1. \A c \in Clients : subs[c] = None \/ SubRec(subs[c])
    BY DEF Types
<1> QED
    BY <1>1, SubscriptionKept DEF Publish

(* Every step keeps the types: the session and its senders.                *)
LEMMA SenderTypes ==
    ASSUME Types, NEW p \in Senders, SendFails(p) \/ SendQueued(p) \/ (p = Stopper /\ StopTimesOut)
    PROVE  Types'
<1> USE DEF session, clients, feed, guest, daemon, bounds, ghosts
<1>1. CASE SendFails(p) \/ (p = Stopper /\ StopTimesOut)
  <2>1. /\ Fails(p) /\ AfterFailure(p)
        /\ UNCHANGED <<input, inbox, out, lease, heard, restarts, early>>
      BY <1>1 DEF SendFails, StopTimesOut, Fails
  <2>2. \A q \in Senders : SendRec(snd'[q])
      BY <2>1, FailsFields DEF Types
  <2> QED
      BY <2>1, <2>2, FailsFields, FailureTypes DEF Types
<1>2. CASE SendQueued(p)
  <2> DEFINE x == [kind |-> snd[p].kind, lease |-> snd[p].lease]
  <2>1. SendRec(snd[p]) /\ DOMAIN snd = Senders /\ CreatorRec(creator)
      BY DEF Types
  <2>2. x \in Inputs
      BY <2>1, SMT DEF SendRec, Inputs
  <2>3. input' \in Seq(Inputs)
    <3>1. input' = Append(input, x) /\ input \in Seq(Inputs)
        BY <1>2 DEF SendQueued, Types
    <3> HIDE DEF x
    <3> QED
        BY <2>2, <3>1, SMT
  <2>4. SendRec(Quiet)
      BY SMT DEF SendRec, Quiet, Frames
  <2>5. DOMAIN snd' = Senders /\ \A q \in Senders : SendRec(snd'[q])
      BY <1>2, <2>1, <2>4 DEF SendQueued, Types
  <2>6. CreatorRec([creator EXCEPT !.pc = "ending"])
      BY <2>1, SMT DEF CreatorRec
  <2>7. CreatorRec(creator')
      BY <1>2, <2>1, <2>6 DEF SendQueued
  <2>8. early' \in Nat
      BY <1>2, SMT DEF SendQueued, Types
  <2>9. UNCHANGED <<sess, cl, subs, inbox, out, lease, heard, restarts>>
      BY <1>2 DEF SendQueued
  <2> QED
      BY <2>3, <2>5, <2>7, <2>8, <2>9 DEF Types
<1> QED
    BY <1>1, <1>2

(* Every step keeps the types: the creator's forwarder, the attached       *)
(* clients and StopRun.                                                    *)
LEMMA ClientTypes ==
    ASSUME Types, SubsOK
    PROVE  /\ CreatorReceiveFails \/ CreatorReleases \/ CreatorHalfCloses \/ CreatorLost => Types'
           /\ \A k \in Frames : CreatorFrame(k) => Types'
           /\ \A c \in Clients, k \in Frames : AttachFrame(c, k) => Types'
           /\ \A c \in Clients : AttachFinds(c) \/ AttachStep(c) \/ AttachEnds(c) => Types'
           /\ StopBegins \/ StopDecides => Types'
<1> USE DEF session, clients, feed, guest, daemon, bounds, ghosts
<1>1. /\ SessRec(sess) /\ CreatorRec(creator) /\ DOMAIN snd = Senders
      /\ \A p \in Senders : SendRec(snd[p])
      /\ DOMAIN cl = Clients /\ DOMAIN subs = Clients
    BY DEF Types
<1>2. Creator \in Senders /\ Stopper \in Senders /\ Clients \subseteq Senders
      /\ "msg" \in Frames /\ "eof" \in Frames
    BY DEF Senders, Frames
<1>3. /\ CreatorRec([creator EXCEPT !.pc = "ending"])
      /\ CreatorRec([creator EXCEPT !.gone = TRUE])
      /\ CreatorRec([creator EXCEPT !.last = TRUE])
      /\ \A b : CreatorRec([creator EXCEPT !.sentEOF = b])
      /\ CreatorRec(CreatorIsDone)
      /\ CreatorRec([CreatorIsDone EXCEPT !.gone = creator.gone])
    BY <1>1, SMT DEF CreatorRec, CreatorIsDone
<1>4. ASSUME NEW p \in Senders, NEW k \in Frames, Reserve(p, k)
      PROVE  SessRec(sess') /\ DOMAIN snd' = Senders /\ \A q \in Senders : SendRec(snd'[q])
  <2>1. /\ DOMAIN snd' = Senders /\ \A q \in Senders \ {p} : snd'[q] = snd[q]
        /\ SendRec(snd'[p]) /\ SessRec(sess')
      BY <1>4, ReserveFields
  <2> QED
      BY <1>1, <2>1
<1>5. ASSUME CreatorReceiveFails PROVE Types'
    BY <1>3, <1>5 DEF CreatorReceiveFails, Types
<1>6. ASSUME CreatorReleases PROVE Types'
    BY <1>1, <1>3, <1>6, SessionFields DEF CreatorReleases, Types
<1>7. ASSUME CreatorHalfCloses PROVE Types'
    BY <1>1, <1>2, <1>3, <1>4, <1>7 DEF CreatorHalfCloses, Types
<1>8. ASSUME CreatorLost PROVE Types'
    BY <1>3, <1>8 DEF CreatorLost, Types
<1>9. ASSUME NEW k \in Frames, CreatorFrame(k) PROVE Types'
  <2>1. creator' = [creator EXCEPT !.sentEOF = IF k = "eof" THEN TRUE ELSE creator.sentEOF]
      BY <1>9 DEF CreatorFrame
  <2>2. CreatorRec(creator')
      BY <1>3, <2>1
  <2> QED
      BY <1>2, <1>4, <1>9, <2>2 DEF CreatorFrame, Types
<1>10. ASSUME NEW c \in Clients, NEW k \in Frames, AttachFrame(c, k) PROVE Types'
    BY <1>2, <1>4, <1>10 DEF AttachFrame, Types
<1>11. ASSUME NEW c \in Clients, AttachFinds(c) PROVE Types'
    BY <1>1, <1>11 DEF AttachFinds, Types
<1>12. ASSUME NEW c \in Clients, AttachAcquires(c) PROVE Types'
  <2>1. lease' \in Nat \ {0}
      BY <1>12, SMT DEF AttachAcquires, Types
  <2>2. SessRec(sess')
    <3>1. sess' = sess \/ sess' = Acquired(sess)
        BY <1>12 DEF AttachAcquires
    <3>2. CASE sess' = sess
        BY <1>1, <3>2
    <3>3. CASE sess' = Acquired(sess)
      <4>1. SessRec(Acquired(sess))
          BY <1>1, SessionFields
      <4> QED
          BY <3>3, <4>1
    <3> QED
        BY <3>1, <3>2, <3>3
  <2>3. DOMAIN cl' = Clients
      BY <1>1, <1>12 DEF AttachAcquires
  <2> QED
      BY <1>12, <2>1, <2>2, <2>3 DEF AttachAcquires, Types
<1>13. ASSUME NEW c \in Clients, AttachSubscribes(c) PROVE Types'
  <2> DEFINE s == [open |-> TRUE, dropped |-> FALSE, buf |-> <<>>, pub |-> 0, seen |-> 0]
  <2>1. SubRec(s)
      BY SMT DEF SubRec
  <2>2. \/ subs' = [subs EXCEPT ![c] = s] /\ cl' = [cl EXCEPT ![c] = "open"]
        \/ subs' = [subs EXCEPT ![c] = None] /\ cl' = [cl EXCEPT ![c] = "closing"]
      BY <1>13 DEF AttachSubscribes, Leaves
  <2> HIDE DEF s
  <2>3. DOMAIN cl' = Clients /\ DOMAIN subs' = Clients
      BY <1>1, <2>2
  <2>4. \A d \in Clients : subs'[d] = None \/ SubRec(subs'[d])
      BY <1>1, <2>1, <2>2 DEF Types
  <2> QED
      BY <1>13, <2>3, <2>4 DEF AttachSubscribes, Types
<1>14. ASSUME NEW c \in Clients, AttachOutput(c) PROVE Types'
  <2>1. SubRec(subs[c])
      BY <1>14 DEF AttachOutput, SubsOK
  <2>2. subs' = [subs EXCEPT ![c] = Taken(subs[c])] /\ subs[c].buf # <<>>
      BY <1>14 DEF AttachOutput
  <2>3. SubRec(Taken(subs[c]))
      BY <2>1, <2>2, SMT DEF SubRec, Taken
  <2>4. DOMAIN subs' = Clients /\ \A d \in Clients : subs'[d] = None \/ SubRec(subs'[d])
      BY <1>1, <2>2, <2>3 DEF Types
  <2> QED
      BY <1>14, <2>4 DEF AttachOutput, Types
<1>15. ASSUME NEW c \in Clients, AttachReleases(c) PROVE Types'
    BY <1>1, <1>15, SessionFields DEF AttachReleases, Types
<1>16. ASSUME NEW c \in Clients, AttachEnds(c) PROVE Types'
    BY <1>1, <1>16 DEF AttachEnds, Leaves, Types
<1>17. ASSUME StopBegins PROVE Types'
    BY <1>17 DEF StopBegins, Types
<1>18. ASSUME StopDecides PROVE Types'
    BY <1>1, <1>2, <1>4, <1>18 DEF StopDecides, Types
<1> QED
    BY <1>5, <1>6, <1>7, <1>8, <1>9, <1>10, <1>11, <1>12, <1>13, <1>14, <1>15,
       <1>16, <1>17, <1>18 DEF AttachStep

(* Every step keeps the types: the pump, the agent, the run's goroutine,   *)
(* shutdown and restart.                                                   *)
LEMMA RunTypes ==
    ASSUME Types
    PROVE  /\ PumpStep => Types'
           /\ AgentStep => Types'
           /\ LoopStep \/ PrepareFails \/ ReceiveFails => Types'
           /\ Shutdown \/ Restart \/ Finished \/ UNCHANGED vars => Types'
<1> USE DEF session, clients, feed, guest, daemon, bounds, ghosts
<1>1. /\ SessRec(sess) /\ CreatorRec(creator) /\ DOMAIN snd = Senders
      /\ \A p \in Senders : SendRec(snd[p])
      /\ DOMAIN cl = Clients /\ DOMAIN subs = Clients
      /\ input \in Seq(Inputs) /\ inbox \in Seq(BoxFrames) /\ out \in Seq(OutFrames)
    BY DEF Types
<1>2. /\ "msg" \in BoxFrames /\ "eof" \in BoxFrames /\ "close" \in BoxFrames
      /\ "turn" \in OutFrames /\ "result" \in OutFrames /\ Frames \subseteq BoxFrames
      /\ <<>> \in Seq(BoxFrames) /\ <<>> \in Seq(Inputs) /\ <<>> \in Seq(OutFrames)
    BY SMT DEF BoxFrames, OutFrames, Frames
<1>3. \A k \in BoxFrames : /\ Told(k) \in Seq(BoxFrames)
                           /\ WithClose(Told(k)) \in Seq(BoxFrames)
                           /\ WithClose(inbox) \in Seq(BoxFrames)
    BY <1>1, BoxKept
<1>4. \A k \in OutFrames : Append(out, k) \in Seq(OutFrames)
    BY <1>1, SMT
<1>5. ASSUME PumpTakes PROVE Types'
  <2>1. Head(input) \in Inputs /\ Tail(input) \in Seq(Inputs)
      BY <1>1, <1>5, SMT DEF PumpTakes
  <2>2. Head(input).kind \in BoxFrames /\ Head(input).lease \in Nat
      BY <1>2, <2>1 DEF Inputs
  <2>3. inbox' \in Seq(BoxFrames)
      BY <1>1, <1>3, <1>5, <2>2 DEF PumpTakes, PumpEnds, CloseSend
  <2>4. heard' \in Nat
      BY <1>5, <2>2 DEF PumpTakes, Types
  <2>5. /\ input' = Tail(input)
        /\ UNCHANGED <<sess, creator, snd, cl, subs, out, lease, restarts, early>>
      BY <1>5 DEF PumpTakes
  <2> QED
      BY <2>1, <2>3, <2>4, <2>5 DEF Types
<1>6. ASSUME PumpSeesClose PROVE Types'
    BY <1>2, <1>3, <1>6 DEF PumpSeesClose, PumpEnds, CloseSend, Types
<1>7. ASSUME PumpForwards PROVE Types'
    BY <1>2, <1>3, <1>7 DEF PumpForwards, PumpEnds, CloseSend, Types
<1>8. ASSUME PumpCanceled PROVE Types'
    BY <1>2, <1>3, <1>8 DEF PumpCanceled, PumpEnds, CloseSend, Types
<1>9. ASSUME AgentReads PROVE Types'
  <2>1. Tail(inbox) \in Seq(BoxFrames)
      BY <1>1, <1>9, SMT DEF AgentReads
  <2> QED
      BY <1>2, <1>4, <1>9, <2>1 DEF AgentReads, Types
<1>10. ASSUME AgentKilled PROVE Types'
    BY <1>10 DEF AgentKilled, Types
<1>11. ASSUME NEW b \in BOOLEAN, AgentTurnEnds(b) PROVE Types'
    BY <1>2, <1>4, <1>11 DEF AgentTurnEnds, Types
<1>12. ASSUME NEW b \in BOOLEAN, WatchStops(b) PROVE Types'
    BY <1>2, <1>4, <1>12 DEF WatchStops, Types
<1>13. ASSUME Opens \/ PrepareFails \/ ReceivesResult \/ Removes PROVE Types'
    BY <1>13 DEF Opens, PrepareFails, ReceivesResult, Removes, LoopTo, LoopMoves, Types
<1>14. ASSUME BeginsFirstTurn PROVE Types'
  <2>1. SessRec(sess')
      BY <1>1, <1>14, SMT DEF BeginsFirstTurn, SessRec
  <2> QED
      BY <1>14, <2>1 DEF BeginsFirstTurn, LoopTo, LoopMoves, Types
<1>15. ASSUME SendsFirst PROVE Types'
    BY <1>2, <1>3, <1>15 DEF SendsFirst, LoopTo, LoopMoves, Types
<1>16. ASSUME ReceivesTurn PROVE Types'
  <2>1. Tail(out) \in Seq(OutFrames)
      BY <1>1, <1>16, SMT DEF ReceivesTurn
  <2> QED
      BY <1>1, <1>16, <2>1, SessionFields DEF ReceivesTurn, LoopTo, LoopMoves, Types
<1>17. ASSUME Delivers PROVE Types'
    BY <1>17, PublishTypes DEF Delivers, LoopTo, LoopMoves, Types
<1>18. ASSUME ReceiveFails PROVE Types'
    BY <1>18, PublishTypes DEF ReceiveFails, LoopMoves, Types
<1>19. ASSUME Disconnects PROVE Types'
    BY <1>19, PublishTypes DEF Disconnects, LoopTo, LoopMoves, Types
<1>20. ASSUME Completes PROVE Types'
    BY <1>2, <1>20, PublishTypes DEF Completes, Types
<1>21. ASSUME Closes PROVE Types'
  <2>1. SessRec(sess')
      BY <1>1, <1>21, SMT DEF Closes, SessRec
  <2>2. DOMAIN subs' = Clients /\ \A c \in Clients : subs'[c] = None \/ SubRec(subs'[c])
      BY <1>21, SubscriptionKept DEF Closes, Types
  <2>3. inbox' \in Seq(BoxFrames) /\ input' \in Seq(Inputs)
      BY <1>2, <1>3, <1>21 DEF Closes, CloseSend
  <2> QED
      BY <1>21, <2>1, <2>2, <2>3 DEF Closes, LoopTo, LoopMoves, Types
<1>22. ASSUME Resumes PROVE Types'
  <2>1. SessRec(sess')
      BY <1>1, <1>22, SMT DEF Resumes, SessRec
  <2> QED
      BY <1>22, <2>1 DEF Resumes, LoopTo, LoopMoves, Types
<1>23. ASSUME Restart PROVE Types'
  <2>1. SessRec(NewSession("created")) /\ CreatorRec(CreatorIsDone)
      BY SMT DEF SessRec, NewSession, CreatorRec, CreatorIsDone
  <2>2. SendRec(Quiet)
      BY SMT DEF SendRec, Quiet, Frames
  <2>3. restarts' \in Nat /\ early' \in Nat /\ heard' \in Nat
      BY <1>23, SMT DEF Restart, Types
  <2>4. DOMAIN snd' = Senders /\ \A p \in Senders : SendRec(snd'[p])
      BY <1>23, <2>2 DEF Restart
  <2>5. /\ DOMAIN cl' = Clients /\ DOMAIN subs' = Clients
        /\ \A c \in Clients : subs'[c] = None
      BY <1>23 DEF Restart
  <2>6. input' = <<>> /\ UNCHANGED <<lease, inbox, out>>
      BY <1>23 DEF Restart
  <2>7. SessRec(sess') /\ CreatorRec(creator')
      BY <1>23, <2>1 DEF Restart
  <2> QED
      BY <1>2, <2>3, <2>4, <2>5, <2>6, <2>7 DEF Types
<1>24. ASSUME Shutdown \/ Finished \/ UNCHANGED vars PROVE Types'
    BY <1>24 DEF Shutdown, Finished, vars, Types
<1> QED
    BY <1>5, <1>6, <1>7, <1>8, <1>9, <1>10, <1>11, <1>12, <1>13, <1>14, <1>15,
       <1>16, <1>17, <1>18, <1>19, <1>20, <1>21, <1>22, <1>23, <1>24
       DEF PumpStep, AgentStep, LoopStep

-----------------------------------------------------------------------------
(***************************************************************************)
(* What a client takes from its subscription.                              *)
(***************************************************************************)

(* Taking an output from the channel leaves the rest of it in order.       *)
LEMMA TakenKept ==
    ASSUME NEW s, SubRec(s), NoGap(s), s.buf # <<>>
    PROVE  SubRec(Taken(s)) /\ NoGap(Taken(s))
<1>1. SubRec(Taken(s))
    BY SMT DEF SubRec, Taken
<1>2. /\ Taken(s).open = s.open /\ Taken(s).dropped = s.dropped /\ Taken(s).pub = s.pub
      /\ Taken(s).buf = Tail(s.buf) /\ Taken(s).seen = Head(s.buf)
    BY SMT DEF SubRec, Taken
<1>3. s.buf \in Seq(Nat) /\ s.seen \in Nat /\ s.pub \in Nat
    BY DEF SubRec
<1>4. \A i \in DOMAIN s.buf : s.buf[i] = s.seen + i
    BY DEF NoGap
<1>5. Head(s.buf) = s.seen + 1
    BY <1>3, <1>4, SMT
<1>6. ASSUME NEW i \in DOMAIN Tail(s.buf) PROVE Tail(s.buf)[i] = Head(s.buf) + i
  <2>1. i + 1 \in DOMAIN s.buf /\ Tail(s.buf)[i] = s.buf[i + 1] /\ i \in Nat
      BY <1>3, <1>6, SMT
  <2>2. s.buf[i + 1] = s.seen + (i + 1)
      BY <1>4, <2>1
  <2>3. s.seen + (i + 1) = (s.seen + 1) + i
      BY <1>3, <2>1, SMT
  <2> QED
      BY <1>5, <2>1, <2>2, <2>3
<1>7. s.seen + Len(s.buf) = Head(s.buf) + Len(Tail(s.buf))
    BY <1>3, <1>5, SMT
<1> QED
    BY <1>1, <1>2, <1>6, <1>7 DEF NoGap

(* A client that leaves has no subscription.                               *)
LEMMA LeavesSubs ==
    ASSUME Types, SubsOK, NEW c \in Clients, Leaves(c)
    PROVE  SubsOK'
<1>1. DOMAIN cl = Clients /\ DOMAIN subs = Clients
    BY DEF Types
<1>2. cl'[c] = "closing" /\ subs'[c] = None
    BY <1>1 DEF Leaves
<1>3. \A d \in Clients \ {c} : cl'[d] = cl[d] /\ subs'[d] = subs[d]
    BY <1>1 DEF Leaves
<1> QED
    BY <1>2, <1>3 DEF SubsOK

(* Publish reaches every subscription.                                     *)
LEMMA PublishSubs ==
    ASSUME Types, SubsOK, Publish, UNCHANGED cl
    PROVE  SubsOK'
<1>1. ASSUME NEW c \in Clients
      PROVE  /\ cl'[c] = "open" => SubRec(subs'[c]) /\ NoGap(subs'[c])
             /\ subs'[c] # None => NoGap(subs'[c])
  <2>1. subs[c] = None \/ SubRec(subs[c])
      BY DEF Types
  <2>2. subs'[c] = Published(subs[c]) /\ cl'[c] = cl[c]
      BY DEF Publish
  <2>3. /\ SubRec(subs[c]) => SubRec(Published(subs[c]))
        /\ NoGap(subs[c]) => NoGap(Published(subs[c]))
        /\ Published(subs[c]) # None => subs[c] # None
      BY <2>1, SubscriptionKept
  <2> QED
      BY <2>2, <2>3 DEF SubsOK
<1> QED
    BY <1>1 DEF SubsOK

(* Every step keeps the subscriptions in order.                            *)
LEMMA SubsStep ==
    ASSUME Types, SubsOK, [Next]_vars
    PROVE  SubsOK'
<1> USE DEF session, clients, feed, guest, daemon, bounds, ghosts
<1>1. /\ DOMAIN cl = Clients /\ DOMAIN subs = Clients
      /\ \A d \in Clients : subs[d] = None \/ SubRec(subs[d])
    BY DEF Types
<1>2. ASSUME UNCHANGED <<cl, subs>> PROVE SubsOK'
    BY <1>2 DEF SubsOK
<1>3. ASSUME NEW c \in Clients, NEW v, v # "open", cl' = [cl EXCEPT ![c] = v], UNCHANGED subs
      PROVE  SubsOK'
  <2>1. cl'[c] # "open" /\ \A d \in Clients \ {c} : cl'[d] = cl[d]
      BY <1>1, <1>3
  <2> QED
      BY <1>3, <2>1 DEF SubsOK
<1>4. ASSUME StopTimesOut \/ \E p \in Senders : SendFails(p) PROVE SubsOK'
  <2>1. \E q \in Senders : AfterFailure(q)
      BY <1>4 DEF SendFails, StopTimesOut, Fails, Senders
  <2>2. \/ UNCHANGED <<cl, subs>>
        \/ \E c \in Clients : Leaves(c)
      BY <2>1 DEF AfterFailure
  <2> QED
      BY <1>2, <2>2, LeavesSubs
<1>5. ASSUME NEW p \in Senders, SendQueued(p) PROVE SubsOK'
    BY <1>2, <1>5 DEF SendQueued
<1>6. ASSUME CreatorStep \/ CreatorHalfCloses \/ CreatorLost PROVE SubsOK'
    BY <1>2, <1>6 DEF CreatorStep, CreatorReceiveFails, CreatorReleases, CreatorHalfCloses,
                      CreatorLost
<1>7. ASSUME NEW k \in Frames, CreatorFrame(k) \/ \E c \in Clients : AttachFrame(c, k)
      PROVE  SubsOK'
    BY <1>2, <1>7 DEF CreatorFrame, AttachFrame
<1>8. ASSUME NEW c \in Clients, AttachFinds(c) \/ AttachAcquires(c) \/ AttachReleases(c)
      PROVE  SubsOK'
  <2>1. UNCHANGED subs /\ \E v \in {"got", "idle", "leased"} : cl' = [cl EXCEPT ![c] = v]
      BY <1>8 DEF AttachFinds, AttachAcquires, AttachReleases
  <2> QED
      BY <1>3, <2>1
<1>9. ASSUME NEW c \in Clients, AttachEnds(c) PROVE SubsOK'
    BY <1>9, LeavesSubs DEF AttachEnds
<1>10. ASSUME NEW c \in Clients, AttachSubscribes(c) PROVE SubsOK'
  <2> DEFINE s == [open |-> TRUE, dropped |-> FALSE, buf |-> <<>>, pub |-> 0, seen |-> 0]
  <2>1. \/ subs' = [subs EXCEPT ![c] = s] /\ cl' = [cl EXCEPT ![c] = "open"]
        \/ Leaves(c)
      BY <1>10 DEF AttachSubscribes
  <2>2. SubRec(s) /\ NoGap(s)
      BY SMT DEF SubRec, NoGap
  <2> HIDE DEF s
  <2>3. CASE subs' = [subs EXCEPT ![c] = s] /\ cl' = [cl EXCEPT ![c] = "open"]
    <3>1. subs'[c] = s /\ \A d \in Clients \ {c} : cl'[d] = cl[d] /\ subs'[d] = subs[d]
        BY <1>1, <2>3
    <3> QED
        BY <2>2, <3>1 DEF SubsOK
  <2> QED
      BY <2>1, <2>3, LeavesSubs
<1>11. ASSUME NEW c \in Clients, AttachOutput(c) PROVE SubsOK'
  <2>1. SubRec(subs[c]) /\ NoGap(subs[c]) /\ subs[c].buf # <<>>
      BY <1>11 DEF AttachOutput, SubsOK
  <2>2. /\ subs'[c] = Taken(subs[c]) /\ UNCHANGED cl
        /\ \A d \in Clients \ {c} : subs'[d] = subs[d]
      BY <1>1, <1>11 DEF AttachOutput
  <2>3. SubRec(subs'[c]) /\ NoGap(subs'[c])
      BY <2>1, <2>2, TakenKept
  <2> QED
      BY <2>2, <2>3 DEF SubsOK
<1>12. ASSUME StopBegins \/ StopDecides PROVE SubsOK'
    BY <1>2, <1>12 DEF StopBegins, StopDecides
<1>13. ASSUME PumpStep PROVE SubsOK'
    BY <1>2, <1>13 DEF PumpStep, PumpTakes, PumpSeesClose, PumpForwards, PumpCanceled
<1>14. ASSUME AgentStep PROVE SubsOK'
    BY <1>2, <1>14 DEF AgentStep, AgentReads, AgentKilled, AgentTurnEnds, WatchStops
<1>15. ASSUME Opens \/ PrepareFails \/ BeginsFirstTurn \/ SendsFirst \/ ReceivesTurn
              \/ ReceivesResult \/ Removes \/ Resumes
       PROVE  SubsOK'
    BY <1>2, <1>15 DEF Opens, PrepareFails, BeginsFirstTurn, SendsFirst, ReceivesTurn,
                       ReceivesResult, Removes, Resumes
<1>16. ASSUME Delivers \/ ReceiveFails \/ Disconnects \/ Completes PROVE SubsOK'
    BY <1>16, PublishSubs DEF Delivers, ReceiveFails, Disconnects, Completes
<1>17. ASSUME Closes PROVE SubsOK'
  <2>1. ASSUME NEW c \in Clients
        PROVE  /\ cl'[c] = "open" => SubRec(subs'[c]) /\ NoGap(subs'[c])
               /\ subs'[c] # None => NoGap(subs'[c])
    <3>1. subs'[c] = Hangup(subs[c]) /\ cl'[c] = cl[c]
        BY <1>17 DEF Closes
    <3>2. /\ SubRec(subs[c]) => SubRec(Hangup(subs[c]))
          /\ NoGap(subs[c]) => NoGap(Hangup(subs[c]))
          /\ Hangup(subs[c]) # None => subs[c] # None
        BY <1>1, SubscriptionKept
    <3> QED
        BY <3>1, <3>2 DEF SubsOK
  <2> QED
      BY <2>1 DEF SubsOK
<1>18. ASSUME Restart PROVE SubsOK'
    BY <1>18 DEF Restart, SubsOK
<1>19. ASSUME Shutdown \/ Finished \/ UNCHANGED vars PROVE SubsOK'
    BY <1>2, <1>19 DEF Shutdown, Finished, vars
<1> QED
    BY <1>4, <1>5, <1>6, <1>7, <1>8, <1>9, <1>10, <1>11, <1>12, <1>13, <1>14,
       <1>15, <1>16, <1>17, <1>18, <1>19 DEF Next, SenderStep, AttachStep, LoopStep

-----------------------------------------------------------------------------
(***************************************************************************)
(* Who holds the lease, and the order of the input.                        *)
(***************************************************************************)

LeaseInv == HolderOK /\ SendingOK /\ LeaseOK /\ InputInLeaseOrder

(* A sender that is no client and not the creator is StopRun.              *)
LEMMA SenderKinds ==
    /\ Creator \in Senders /\ Stopper \in Senders /\ Clients \subseteq Senders
    /\ Creator # Stopper /\ Creator \notin Clients /\ Stopper \notin Clients
    /\ \A p \in Senders : p = Creator \/ p = Stopper \/ p \in Clients
<1>1. Creator # Stopper
    BY SMT DEF Creator, Stopper
<1> QED
    BY <1>1, SendersDistinct DEF Senders

(* A step that leaves the calls of send, the lease, its holders and the    *)
(* input channel alone.                                                    *)
LEMMA LeaseQuiet ==
    ASSUME LeaseInv, creator'.pc = creator.pc, sess'.attached = sess.attached,
           UNCHANGED <<snd, cl, lease, input, heard>>
    PROVE  LeaseInv'
<1>1. HolderOK'
    BY DEF LeaseInv, HolderOK, Holds
<1>2. SendingOK'
    BY DEF LeaseInv, SendingOK
<1>3. LeaseOK' /\ InputInLeaseOrder'
    BY DEF LeaseInv, LeaseOK, InputInLeaseOrder
<1> QED
    BY <1>1, <1>2, <1>3 DEF LeaseInv

(* The lease stays with who has it, or one is released by who has it.      *)
LEMMA HoldersKept ==
    ASSUME HolderOK,
           \A p \in Senders : Holds(p)' => Holds(p),
           \/ sess'.attached = sess.attached
           \/ \E p \in Senders : Holds(p) /\ ~Holds(p)'
    PROVE  HolderOK'
<1>1. CASE sess'.attached = sess.attached
    BY <1>1 DEF HolderOK
<1>2. ASSUME NEW p \in Senders, Holds(p), ~Holds(p)' PROVE HolderOK'
    BY <1>2 DEF HolderOK
<1> QED
    BY <1>1, <1>2

(* The first half of send: the sender has the lease it sends under.        *)
LEMMA ReserveLease ==
    ASSUME Types, LeaseInv, NEW p \in Senders, NEW k \in Frames, Reserve(p, k),
           p # Stopper => IF p = Creator THEN creator.pc = "recv" ELSE cl[p] = "open",
           creator'.pc = creator.pc, UNCHANGED <<cl, lease, input, heard>>
    PROVE  LeaseInv'
<1>1. /\ \A q \in Senders \ {p} : snd'[q] = snd[q]
      /\ snd'[p].lease = IF p = Stopper THEN 0 ELSE lease
      /\ sess'.attached = sess.attached
    BY ReserveFields
<1>2. HolderOK'
    BY <1>1 DEF LeaseInv, HolderOK, Holds
<1>3. SendingOK'
    BY <1>1 DEF LeaseInv, SendingOK
<1>4. snd'[Stopper].lease = 0
    BY <1>1, SenderKinds DEF LeaseInv, LeaseOK
<1>5. LeaseOK' /\ InputInLeaseOrder'
    BY <1>4 DEF LeaseInv, LeaseOK, InputInLeaseOrder
<1> QED
    BY <1>2, <1>3, <1>5 DEF LeaseInv

(* A send that fails, and what its sender does about it.                   *)
LEMMA FailsLease ==
    ASSUME Types, LeaseInv, NEW p \in Senders, snd[p].pc = "blocked", Fails(p)
    PROVE  LeaseInv'
<1> USE DEF session, clients, feed, guest, daemon, bounds, ghosts
<1>1. /\ \A q \in Senders \ {p} : snd'[q] = snd[q]
      /\ snd'[p].pc = "none" /\ snd'[p].lease = 0
      /\ sess'.attached = sess.attached
    BY FailsFields
<1>2. UNCHANGED <<lease, input, heard>> /\ AfterFailure(p)
    BY DEF Fails
<1>3. DOMAIN creator = {"pc", "gone", "sentEOF", "last"} /\ DOMAIN cl = Clients
    BY DEF Types, CreatorRec
<1>4. \/ /\ p = Creator /\ creator'.pc = "ending" /\ UNCHANGED cl
      \/ /\ p \in Clients /\ creator' = creator
         /\ \A q \in Clients \ {p} : cl'[q] = cl[q]
         /\ cl'[p] = cl[p] \/ (cl[p] = "open" /\ cl'[p] = "closing")
      \/ p = Stopper /\ creator' = creator /\ UNCHANGED cl
  <2>1. CASE p = Creator
    <3>1. creator' = [creator EXCEPT !.pc = "ending"] /\ UNCHANGED cl
        BY <1>2, <2>1, SenderKinds DEF AfterFailure
    <3>2. creator'.pc = "ending"
        BY <1>3, <3>1, SMT
    <3> QED
        BY <2>1, <3>1, <3>2
  <2>2. CASE p = Stopper
      BY <1>2, <2>2, SenderKinds DEF AfterFailure
  <2>3. CASE p \in Clients
    <3>1. /\ creator' = creator
          /\ IF cl[p] = "open" THEN Leaves(p) ELSE UNCHANGED <<cl, subs>>
        BY <1>2, <2>3, SenderKinds DEF AfterFailure
    <3> QED
        BY <1>3, <2>3, <3>1 DEF Leaves
  <2> QED
      BY <2>1, <2>2, <2>3, SenderKinds
<1>5. /\ p = Creator => creator.pc = "recv"
      /\ p \in Clients => cl[p] \in {"open", "closing"}
    BY SenderKinds DEF LeaseInv, SendingOK
<1>6. HolderOK'
  <2>1. \A q \in Senders : Holds(q)' => Holds(q)
      BY <1>4, <1>5, SenderKinds DEF Holds
  <2> QED
      BY <1>1, <2>1, HoldersKept DEF LeaseInv
<1>7. SendingOK'
  <2> SUFFICES ASSUME NEW q \in Senders \ {Stopper}, snd'[q].pc = "blocked"
               PROVE  /\ snd'[q].lease = lease'
                      /\ IF q = Creator THEN creator'.pc = "recv"
                                        ELSE cl'[q] \in {"open", "closing"}
      BY DEF SendingOK
  <2>1. q # p /\ snd'[q] = snd[q]
      BY <1>1
  <2>2. /\ snd[q].lease = lease
        /\ IF q = Creator THEN creator.pc = "recv" ELSE cl[q] \in {"open", "closing"}
      BY <2>1 DEF LeaseInv, SendingOK
  <2> QED
      BY <1>2, <1>4, <2>1, <2>2, SenderKinds
<1>8. snd'[Stopper].lease = 0
    BY <1>1, SenderKinds DEF LeaseInv, LeaseOK
<1>9. LeaseOK' /\ InputInLeaseOrder'
    BY <1>2, <1>8 DEF LeaseInv, LeaseOK, InputInLeaseOrder
<1> QED
    BY <1>6, <1>7, <1>9 DEF LeaseInv

(* A frame that is queued was sent under the latest lease.                 *)
LEMMA QueuedLease ==
    ASSUME Types, LeaseInv, NEW p \in Senders, SendQueued(p)
    PROVE  LeaseInv'
<1> USE DEF session, clients, feed, guest, daemon, bounds, ghosts
<1> DEFINE x == [kind |-> snd[p].kind, lease |-> snd[p].lease]
<1>1. DOMAIN snd = Senders /\ CreatorRec(creator) /\ SendRec(snd[p])
    BY DEF Types
<1>2. /\ snd[p].pc = "blocked" /\ input' = Append(input, x)
      /\ UNCHANGED <<sess, cl, lease, heard>>
    BY DEF SendQueued
<1>3. snd'[p] = Quiet /\ \A q \in Senders \ {p} : snd'[q] = snd[q]
    BY <1>1 DEF SendQueued
<1>4. Quiet.pc = "none" /\ Quiet.lease = 0
    BY SMT DEF Quiet
<1>5. creator'.pc = creator.pc \/ (p = Creator /\ creator'.pc = "ending")
  <2>1. [creator EXCEPT !.pc = "ending"].pc = "ending"
      BY <1>1, SMT DEF CreatorRec
  <2> QED
      BY <2>1 DEF SendQueued
<1>6. /\ p = Creator => creator.pc = "recv"
      /\ p \in Clients => cl[p] \in {"open", "closing"}
      /\ p # Stopper => snd[p].lease = lease
      /\ p = Stopper => snd[p].lease = 0
    BY <1>2, SenderKinds DEF LeaseInv, SendingOK, LeaseOK
<1>7. HolderOK'
    BY <1>2, <1>5, <1>6 DEF LeaseInv, HolderOK, Holds
<1>8. SendingOK'
    BY <1>2, <1>3, <1>4, <1>5 DEF LeaseInv, SendingOK
<1>9. snd'[Stopper].lease = 0
    BY <1>3, <1>4, SenderKinds DEF LeaseInv, LeaseOK
<1>10. x \in Inputs /\ x.lease = snd[p].lease
    BY <1>1, SMT DEF SendRec, Inputs
<1>11. /\ input \in Seq(Inputs) /\ lease \in Nat /\ heard \in Nat /\ heard <= lease
       /\ \A i \in DOMAIN input : input[i].lease <= lease
    BY SMT DEF Types, LeaseInv, LeaseOK
<1> HIDE DEF x
<1>12. \A i \in DOMAIN input' :
          \/ i \in DOMAIN input /\ input'[i] = input[i]
          \/ i = Len(input) + 1 /\ input'[i] = x
    BY <1>2, <1>10, <1>11, SMT
<1>13. x.lease = 0 \/ x.lease = lease
    BY <1>6, <1>10
<1>14. LeaseOK'
  <2>1. \A i \in DOMAIN input' : input'[i].lease <= lease
      BY <1>11, <1>12, <1>13, SMT
  <2> QED
      BY <1>2, <1>9, <1>11, <2>1 DEF LeaseOK
<1>15. InputInLeaseOrder'
  <2> SUFFICES ASSUME NEW i \in DOMAIN input', input'[i].lease # 0
               PROVE  /\ heard' <= input'[i].lease
                      /\ \A j \in DOMAIN input' : i < j /\ input'[j].lease # 0 =>
                             input'[i].lease <= input'[j].lease
      BY DEF InputInLeaseOrder
  <2>1. CASE i \in DOMAIN input /\ input'[i] = input[i]
    <3>1. /\ heard <= input[i].lease /\ input[i].lease <= lease
          /\ \A j \in DOMAIN input : i < j /\ input[j].lease # 0 =>
                 input[i].lease <= input[j].lease
        BY <1>11, <2>1 DEF LeaseInv, InputInLeaseOrder
    <3>2. ASSUME NEW j \in DOMAIN input', i < j, input'[j].lease # 0
          PROVE  input'[i].lease <= input'[j].lease
      <4>1. CASE j \in DOMAIN input /\ input'[j] = input[j]
          BY <2>1, <3>1, <3>2, <4>1
      <4>2. CASE input'[j] = x
          BY <1>13, <2>1, <3>1, <3>2, <4>2
      <4> QED
          BY <1>12, <4>1, <4>2
    <3> QED
        BY <1>2, <2>1, <3>1, <3>2
  <2>2. CASE i = Len(input) + 1 /\ input'[i] = x
    <3>1. \A j \in DOMAIN input' : ~(i < j)
        BY <1>11, <1>12, <2>2, SMT
    <3> QED
        BY <1>2, <1>11, <1>13, <2>2, <3>1
  <2> QED
      BY <1>12, <2>1, <2>2
<1> QED
    BY <1>7, <1>8, <1>14, <1>15 DEF LeaseInv

(* The pump takes the oldest frame.                                        *)
LEMMA TakesLease ==
    ASSUME Types, LeaseInv, PumpTakes
    PROVE  LeaseInv'
<1> USE DEF session, clients, feed, guest, daemon, bounds, ghosts
<1>1. /\ input # <<>> /\ input' = Tail(input)
      /\ heard' = IF Head(input).lease = 0 THEN heard ELSE Head(input).lease
      /\ UNCHANGED <<sess, lease, snd, creator, cl>>
    BY DEF PumpTakes
<1>2. HolderOK' /\ SendingOK'
    BY <1>1 DEF LeaseInv, HolderOK, Holds, SendingOK
<1>3. input \in Seq(Inputs) /\ 1 \in DOMAIN input /\ Head(input) = input[1]
    BY <1>1, SMT DEF Types
<1>4. \A i \in DOMAIN input' : /\ i + 1 \in DOMAIN input /\ input'[i] = input[i + 1]
                               /\ 1 < i + 1 /\ i \in Nat
    BY <1>1, <1>3, SMT
<1>5. LeaseOK'
    BY <1>1, <1>3, <1>4 DEF LeaseInv, LeaseOK
<1>6. InputInLeaseOrder'
  <2> SUFFICES ASSUME NEW i \in DOMAIN input', input'[i].lease # 0
               PROVE  /\ heard' <= input'[i].lease
                      /\ \A j \in DOMAIN input' : i < j /\ input'[j].lease # 0 =>
                             input'[i].lease <= input'[j].lease
      BY DEF InputInLeaseOrder
  <2>1. heard' <= input'[i].lease
      BY <1>1, <1>3, <1>4 DEF LeaseInv, InputInLeaseOrder
  <2>2. ASSUME NEW j \in DOMAIN input', i < j, input'[j].lease # 0
        PROVE  input'[i].lease <= input'[j].lease
    <3>1. i + 1 < j + 1
        BY <1>4, <2>2, SMT
    <3> QED
        BY <1>4, <2>2, <3>1 DEF LeaseInv, InputInLeaseOrder
  <2> QED
      BY <2>1, <2>2
<1> QED
    BY <1>2, <1>5, <1>6 DEF LeaseInv

(* The creator's forwarder: it has the lease until it releases it.         *)
LEMMA CreatorLease ==
    ASSUME Types, LeaseInv
    PROVE  /\ CreatorReceiveFails => LeaseInv'
           /\ CreatorReleases => LeaseInv'
           /\ CreatorHalfCloses => LeaseInv'
           /\ CreatorLost => LeaseInv'
           /\ \A k \in Frames : CreatorFrame(k) => LeaseInv'
<1> USE DEF session, clients, feed, guest, daemon, bounds, ghosts
<1>1. /\ CreatorRec(creator) /\ SessRec(sess) /\ "eof" \in Frames
      /\ DOMAIN creator = {"pc", "gone", "sentEOF", "last"}
    BY DEF Types, CreatorRec, Frames
<1>2. /\ [creator EXCEPT !.pc = "ending"].pc = "ending"
      /\ [creator EXCEPT !.gone = TRUE].pc = creator.pc
      /\ [creator EXCEPT !.last = TRUE].pc = creator.pc
      /\ \A b : [creator EXCEPT !.sentEOF = b].pc = creator.pc
      /\ CreatorIsDone.pc = "done"
      /\ [CreatorIsDone EXCEPT !.gone = creator.gone].pc = "done"
    BY <1>1, SMT DEF CreatorIsDone
<1>3. ASSUME creator.pc = "recv", snd[Creator].pc = "none", creator'.pc = "ending",
             UNCHANGED <<sess, snd, cl, lease, input, heard>>
      PROVE  LeaseInv'
  <2>1. HolderOK'
      BY <1>3 DEF LeaseInv, HolderOK, Holds
  <2>2. SendingOK'
      BY <1>3 DEF LeaseInv, SendingOK
  <2>3. LeaseOK' /\ InputInLeaseOrder'
      BY <1>3 DEF LeaseInv, LeaseOK, InputInLeaseOrder
  <2> QED
      BY <2>1, <2>2, <2>3 DEF LeaseInv
<1>4. ASSUME CreatorReceiveFails PROVE LeaseInv'
    BY <1>2, <1>3, <1>4 DEF CreatorReceiveFails, CreatorReceives
<1>5. ASSUME CreatorReleases PROVE LeaseInv'
  <2>1. creator.pc = "ending" /\ creator'.pc = "done"
      BY <1>2, <1>5 DEF CreatorReleases
  <2>2. sess' = Released(sess) /\ UNCHANGED <<snd, cl, lease, input, heard>>
      BY <1>5 DEF CreatorReleases
  <2>3. HolderOK'
    <3>1. Holds(Creator) /\ ~Holds(Creator)'
        BY <2>1 DEF Holds
    <3>2. \A p \in Senders : Holds(p)' => Holds(p)
        BY <2>1, <2>2 DEF Holds
    <3> QED
        BY <3>1, <3>2, SenderKinds, HoldersKept DEF LeaseInv
  <2>4. snd[Creator].pc # "blocked"
      BY <2>1, SenderKinds DEF LeaseInv, SendingOK
  <2>5. SendingOK'
      BY <2>2, <2>4 DEF LeaseInv, SendingOK
  <2>6. LeaseOK' /\ InputInLeaseOrder'
      BY <2>2 DEF LeaseInv, LeaseOK, InputInLeaseOrder
  <2> QED
      BY <2>3, <2>5, <2>6 DEF LeaseInv
<1>6. ASSUME CreatorHalfCloses PROVE LeaseInv'
  <2>1. creator.pc = "recv" /\ snd[Creator].pc = "none" /\ UNCHANGED <<cl, lease, input, heard>>
      BY <1>6 DEF CreatorHalfCloses, CreatorReceives
  <2>2. \/ creator' = [creator EXCEPT !.pc = "ending"] /\ UNCHANGED <<snd, sess>>
        \/ creator' = [creator EXCEPT !.last = TRUE] /\ Reserve(Creator, "eof")
      BY <1>6 DEF CreatorHalfCloses
  <2>3. CASE creator' = [creator EXCEPT !.pc = "ending"] /\ UNCHANGED <<snd, sess>>
      BY <1>2, <1>3, <2>1, <2>3
  <2>4. CASE creator' = [creator EXCEPT !.last = TRUE] /\ Reserve(Creator, "eof")
      BY <1>1, <1>2, <2>1, <2>4, SenderKinds, ReserveLease
  <2> QED
      BY <2>2, <2>3, <2>4
<1>7. ASSUME CreatorLost PROVE LeaseInv'
    BY <1>2, <1>7, LeaseQuiet DEF CreatorLost
<1>8. ASSUME NEW k \in Frames, CreatorFrame(k) PROVE LeaseInv'
  <2>1. /\ creator.pc = "recv" /\ Reserve(Creator, k) /\ UNCHANGED <<cl, lease, input, heard>>
        /\ creator' = [creator EXCEPT !.sentEOF = IF k = "eof" THEN TRUE ELSE creator.sentEOF]
      BY <1>8 DEF CreatorFrame, CreatorReceives
  <2>2. creator'.pc = creator.pc
      BY <1>2, <2>1
  <2> QED
      BY <2>1, <2>2, SenderKinds, ReserveLease
<1> QED
    BY <1>4, <1>5, <1>6, <1>7, <1>8

(* An attached client: it takes the lease only when nobody has it, and     *)
(* releases it only when it is in no send.                                 *)
LEMMA AttachLease ==
    ASSUME Types, LeaseInv, NEW c \in Clients
    PROVE  /\ \A k \in Frames : AttachFrame(c, k) => LeaseInv'
           /\ AttachFinds(c) => LeaseInv'
           /\ AttachAcquires(c) => LeaseInv'
           /\ AttachSubscribes(c) => LeaseInv'
           /\ AttachOutput(c) => LeaseInv'
           /\ AttachReleases(c) => LeaseInv'
           /\ AttachEnds(c) => LeaseInv'
<1> USE DEF session, clients, feed, guest, daemon, bounds, ghosts
<1>1. /\ SessRec(sess) /\ DOMAIN cl = Clients /\ c \in Senders
      /\ c # Creator /\ c # Stopper /\ lease \in Nat
    BY SenderKinds DEF Types
(* The client's state changes, but not whether it holds the lease or may   *)
(* be sending.                                                             *)
<1>2. ASSUME NEW v, cl' = [cl EXCEPT ![c] = v],
             v \in {"leased", "open", "closing"} => cl[c] \in {"leased", "open", "closing"},
             v \in {"open", "closing"} \/ cl[c] \notin {"open", "closing"},
             UNCHANGED <<sess, snd, creator, lease, input, heard>>
      PROVE  LeaseInv'
  <2>1. cl'[c] = v /\ \A d \in Clients \ {c} : cl'[d] = cl[d]
      BY <1>1, <1>2
  <2>2. \A p \in Senders : Holds(p)' => Holds(p)
      BY <1>1, <1>2, <2>1 DEF Holds
  <2>3. HolderOK'
      BY <1>2, <2>2, HoldersKept DEF LeaseInv
  <2>4. SendingOK'
      BY <1>1, <1>2, <2>1, SenderKinds DEF LeaseInv, SendingOK
  <2>5. LeaseOK' /\ InputInLeaseOrder'
      BY <1>2 DEF LeaseInv, LeaseOK, InputInLeaseOrder
  <2> QED
      BY <2>3, <2>4, <2>5 DEF LeaseInv
<1>3. ASSUME NEW k \in Frames, AttachFrame(c, k) PROVE LeaseInv'
    BY <1>1, <1>3, ReserveLease DEF AttachFrame
<1>4. ASSUME AttachFinds(c) PROVE LeaseInv'
    BY <1>2, <1>4 DEF AttachFinds
<1>5. ASSUME AttachAcquires(c) PROVE LeaseInv'
  <2>1. CASE Terminal \/ sess.attached
      BY <1>2, <1>5, <2>1 DEF AttachAcquires
  <2>2. CASE ~(Terminal \/ sess.attached)
    <3>1. /\ cl' = [cl EXCEPT ![c] = "leased"] /\ sess' = Acquired(sess)
          /\ lease' = lease + 1 /\ UNCHANGED <<snd, creator, input, heard>>
        BY <1>5, <2>2 DEF AttachAcquires
    <3>2. cl'[c] = "leased" /\ \A d \in Clients \ {c} : cl'[d] = cl[d]
        BY <1>1, <3>1
    <3>3. \A p \in Senders : ~Holds(p)
        BY <2>2 DEF LeaseInv, HolderOK
    <3>4. sess'.attached
        BY <1>1, <3>1, SessionFields
    <3>5. \A p \in Senders : Holds(p)' => p = c
        BY <3>1, <3>2, <3>3, SenderKinds DEF Holds
    <3>6. HolderOK'
        BY <3>4, <3>5 DEF HolderOK
    <3>7. \A p \in Senders \ {Stopper} : snd[p].pc # "blocked"
      <4>1. ASSUME NEW p \in Senders \ {Stopper}, snd[p].pc = "blocked" PROVE Holds(p)
          BY <4>1, SenderKinds DEF LeaseInv, SendingOK, Holds
      <4> QED
          BY <3>3, <4>1
    <3>8. SendingOK'
        BY <3>1, <3>7 DEF SendingOK
    <3>9. LeaseOK'
      <4>1. heard' <= lease'
          BY <3>1, SMT DEF Types, LeaseInv, LeaseOK
      <4>2. ASSUME NEW i \in DOMAIN input' PROVE input'[i].lease <= lease'
        <5>1. i \in DOMAIN input /\ input \in Seq(Inputs)
            BY <3>1, <4>2 DEF Types
        <5>2. input[i] \in Inputs
            BY <5>1, SMT
        <5>3. input[i].lease \in Nat /\ input[i].lease <= lease
            BY <5>1, <5>2 DEF Inputs, LeaseInv, LeaseOK
        <5> QED
            BY <1>1, <3>1, <5>3, SMT
      <4> QED
          BY <3>1, <4>1, <4>2 DEF LeaseInv, LeaseOK
    <3>10. InputInLeaseOrder'
        BY <3>1 DEF LeaseInv, InputInLeaseOrder
    <3> QED
        BY <3>6, <3>8, <3>9, <3>10 DEF LeaseInv
  <2> QED
      BY <2>1, <2>2
<1>6. ASSUME AttachSubscribes(c) PROVE LeaseInv'
  <2>1. /\ cl[c] = "leased" /\ \E v \in {"open", "closing"} : cl' = [cl EXCEPT ![c] = v]
        /\ UNCHANGED <<sess, snd, creator, lease, input, heard>>
      BY <1>6 DEF AttachSubscribes, Leaves
  <2> QED
      BY <1>2, <2>1
<1>7. ASSUME AttachOutput(c) PROVE LeaseInv'
    BY <1>7, LeaseQuiet DEF AttachOutput
<1>8. ASSUME AttachReleases(c) PROVE LeaseInv'
  <2>1. /\ cl[c] = "closing" /\ snd[c].pc = "none" /\ cl' = [cl EXCEPT ![c] = "idle"]
        /\ UNCHANGED <<snd, creator, lease, input, heard>>
      BY <1>8 DEF AttachReleases, CloseMayRelease
  <2>2. cl'[c] = "idle" /\ \A d \in Clients \ {c} : cl'[d] = cl[d]
      BY <1>1, <2>1
  <2>3. HolderOK'
    <3>1. Holds(c) /\ ~Holds(c)'
        BY <1>1, <2>1, <2>2 DEF Holds
    <3>2. \A p \in Senders : Holds(p)' => Holds(p)
        BY <1>1, <2>1, <2>2 DEF Holds
    <3> QED
        BY <1>1, <3>1, <3>2, HoldersKept DEF LeaseInv
  <2>4. SendingOK'
      BY <1>1, <2>1, <2>2, SenderKinds DEF LeaseInv, SendingOK
  <2>5. LeaseOK' /\ InputInLeaseOrder'
      BY <2>1 DEF LeaseInv, LeaseOK, InputInLeaseOrder
  <2> QED
      BY <2>3, <2>4, <2>5 DEF LeaseInv
<1>9. ASSUME AttachEnds(c) PROVE LeaseInv'
    BY <1>2, <1>9 DEF AttachEnds, Leaves
<1> QED
    BY <1>3, <1>4, <1>5, <1>6, <1>7, <1>8, <1>9

(* The initial state: the creator has the first lease.                     *)
LEMMA InitLease ==
    ASSUME Init
    PROVE  LeaseInv
<1>1. /\ creator.pc = "recv" /\ sess.attached /\ cl = [c \in Clients |-> "idle"]
      /\ snd = [p \in Senders |-> Quiet] /\ input = <<>> /\ heard = 0 /\ lease = 1
    BY SMT DEF Init, NewSession
<1>2. Quiet.pc = "none" /\ Quiet.lease = 0
    BY SMT DEF Quiet
<1>3. HolderOK
    BY <1>1 DEF HolderOK, Holds
<1>4. SendingOK
    BY <1>1, <1>2 DEF SendingOK
<1>5. \A i : i \notin DOMAIN input
    BY <1>1, SMT
<1>6. heard <= lease
    BY <1>1, SMT
<1>7. LeaseOK /\ InputInLeaseOrder
    BY <1>1, <1>2, <1>5, <1>6, SenderKinds DEF LeaseOK, InputInLeaseOrder
<1> QED
    BY <1>3, <1>4, <1>7 DEF LeaseInv

(* What the run's goroutine does to the session.                           *)
LEMMA LoopFields ==
    ASSUME SessRec(sess)
    PROVE  /\ BeginsFirstTurn =>
                 sess'.attached = sess.attached /\ sess'.pending = sess.pending + 1
           /\ Resumes \/ Closes =>
                 /\ sess'.attached = sess.attached /\ sess'.turns = sess.turns
                 /\ sess'.pending = sess.pending
<1>1. LET s == [sess EXCEPT !.turns = TRUE, !.pending = @ + 1]
      IN  s.attached = sess.attached /\ s.pending = sess.pending + 1
    BY SMT DEF SessRec
<1>2. \A v : LET s == [sess EXCEPT !.state = v]
             IN  s.attached = sess.attached /\ s.turns = sess.turns /\ s.pending = sess.pending
    BY SMT DEF SessRec
<1>3. ASSUME BeginsFirstTurn
      PROVE  sess'.attached = sess.attached /\ sess'.pending = sess.pending + 1
    BY <1>1, <1>3 DEF BeginsFirstTurn
<1>4. ASSUME Resumes
      PROVE  /\ sess'.attached = sess.attached /\ sess'.turns = sess.turns
             /\ sess'.pending = sess.pending
    BY <1>2, <1>4 DEF Resumes
<1>5. ASSUME Closes
      PROVE  /\ sess'.attached = sess.attached /\ sess'.turns = sess.turns
             /\ sess'.pending = sess.pending
    BY <1>2, <1>5 DEF Closes
<1> QED
    BY <1>3, <1>4, <1>5

(* Every step leaves the input in the order of its leases.                 *)
LEMMA LeaseStep ==
    ASSUME Types, LeaseInv, [Next]_vars
    PROVE  LeaseInv'
<1> USE DEF session, clients, feed, guest, daemon, bounds, ghosts
<1>1. SessRec(sess) /\ "eof" \in Frames
    BY DEF Types, Frames
<1>2. ASSUME StopTimesOut \/ \E p \in Senders : SendFails(p) PROVE LeaseInv'
    BY <1>2, FailsLease, SenderKinds DEF StopTimesOut, SendFails
<1>3. ASSUME NEW p \in Senders, SendQueued(p) PROVE LeaseInv'
    BY <1>3, QueuedLease
<1>4. ASSUME StopBegins \/ StopDecides PROVE LeaseInv'
  <2>1. CASE UNCHANGED <<snd, sess>>
      BY <1>4, <2>1, LeaseQuiet DEF StopBegins, StopDecides
  <2>2. CASE Reserve(Stopper, "eof") /\ StopDecides
      BY <1>1, <2>2, ReserveLease, SenderKinds DEF StopDecides
  <2> QED
      BY <1>4, <2>1, <2>2 DEF StopBegins, StopDecides
<1>5. ASSUME PumpSeesClose \/ PumpForwards \/ PumpCanceled PROVE LeaseInv'
    BY <1>5, LeaseQuiet DEF PumpSeesClose, PumpForwards, PumpCanceled
<1>6. ASSUME AgentStep PROVE LeaseInv'
    BY <1>6, LeaseQuiet DEF AgentStep, AgentReads, AgentKilled, AgentTurnEnds, WatchStops
<1>7. ASSUME Opens \/ PrepareFails \/ SendsFirst \/ Delivers \/ ReceivesResult
             \/ ReceiveFails \/ Disconnects \/ Completes \/ Removes
      PROVE  LeaseInv'
  <2>1. UNCHANGED <<sess, creator, snd, cl, lease, input, heard>>
      BY <1>7 DEF Opens, PrepareFails, SendsFirst, Delivers, ReceivesResult, ReceiveFails,
                  Disconnects, Completes, Removes, LoopTo, LoopMoves
  <2> QED
      BY <2>1, LeaseQuiet
<1>8. ASSUME BeginsFirstTurn \/ Resumes PROVE LeaseInv'
  <2>1. UNCHANGED <<creator, snd, cl, lease, input, heard>>
      BY <1>8 DEF BeginsFirstTurn, Resumes, LoopTo, LoopMoves
  <2>2. sess'.attached = sess.attached
      BY <1>1, <1>8, LoopFields
  <2> QED
      BY <2>1, <2>2, LeaseQuiet
<1>9. ASSUME ReceivesTurn PROVE LeaseInv'
  <2>1. UNCHANGED <<creator, snd, cl, lease, input, heard>>
      BY <1>9 DEF ReceivesTurn, LoopTo, LoopMoves
  <2>2. sess'.attached = sess.attached
      BY <1>1, <1>9, SessionFields DEF ReceivesTurn
  <2> QED
      BY <2>1, <2>2, LeaseQuiet
<1>10. ASSUME Closes PROVE LeaseInv'
  <2>1. UNCHANGED <<creator, snd, cl, lease, heard>> /\ input' = <<>>
      BY <1>10 DEF Closes, LoopTo, LoopMoves
  <2>2. sess'.attached = sess.attached
      BY <1>1, <1>10, LoopFields
  <2>3. HolderOK' /\ SendingOK'
      BY <2>1, <2>2 DEF LeaseInv, HolderOK, Holds, SendingOK
  <2>4. \A i : i \notin DOMAIN input'
      BY <2>1, SMT
  <2>5. LeaseOK' /\ InputInLeaseOrder'
      BY <2>1, <2>4 DEF LeaseInv, LeaseOK, InputInLeaseOrder
  <2> QED
      BY <2>3, <2>5 DEF LeaseInv
<1>11. ASSUME Restart PROVE LeaseInv'
  <2>1. /\ creator' = CreatorIsDone /\ cl' = [c \in Clients |-> "idle"]
        /\ snd' = [p \in Senders |-> Quiet] /\ input' = <<>> /\ heard' = 0 /\ lease' = lease
      BY <1>11 DEF Restart
  <2>2. Quiet.pc = "none" /\ Quiet.lease = 0 /\ CreatorIsDone.pc = "done"
      BY SMT DEF Quiet, CreatorIsDone
  <2>3. \A p \in Senders : ~Holds(p)'
      BY <2>1, <2>2 DEF Holds
  <2>4. HolderOK'
      BY <2>3 DEF HolderOK
  <2>5. SendingOK'
      BY <2>1, <2>2 DEF SendingOK
  <2>6. \A i : i \notin DOMAIN input'
      BY <2>1, SMT
  <2>7. heard' <= lease'
      BY <2>1, SMT DEF Types
  <2>8. LeaseOK' /\ InputInLeaseOrder'
      BY <2>1, <2>2, <2>6, <2>7, SenderKinds DEF LeaseOK, InputInLeaseOrder
  <2> QED
      BY <2>4, <2>5, <2>8 DEF LeaseInv
<1>12. ASSUME Shutdown \/ Finished \/ UNCHANGED vars PROVE LeaseInv'
    BY <1>12, LeaseQuiet DEF Shutdown, Finished, vars
<1> QED
    BY <1>2, <1>3, <1>4, <1>5, <1>6, <1>7, <1>8, <1>9, <1>10, <1>11, <1>12,
       CreatorLease, AttachLease, TakesLease
       DEF Next, SenderStep, CreatorStep, AttachStep, PumpStep, LoopStep

-----------------------------------------------------------------------------
(***************************************************************************)
(* The turns at the agent.                                                 *)
(***************************************************************************)

(* Turns the agent has been given and the daemon has not read the end of.  *)
Load == AtAgent + Turns

TurnInv == StartOK /\ TurnOK

(* The counts of frames are counts of a queue.                             *)
LEMMA CountsAreHits ==
    /\ \A box : Waiting(box) = Hits(box, {"msg"})
    /\ Turns = Hits(out, {"turn"})
    /\ Turns' = Hits(out', {"turn"})
<1>1. \A box : {i \in DOMAIN box : box[i] = "msg"} = {i \in DOMAIN box : box[i] \in {"msg"}}
    OBVIOUS
<1>2. {i \in DOMAIN out : out[i] = "turn"} = {i \in DOMAIN out : out[i] \in {"turn"}}
    OBVIOUS
<1>3. {i \in DOMAIN out' : out'[i] = "turn"} = {i \in DOMAIN out' : out'[i] \in {"turn"}}
    OBVIOUS
<1> QED
    BY <1>1, <1>2, <1>3 DEF Waiting, Turns, Hits

(* The counts are numbers.                                                 *)
LEMMA LoadCount ==
    ASSUME Types
    PROVE  /\ Waiting(inbox) \in Nat /\ Turns \in Nat /\ AtAgent \in Nat /\ Load \in Nat
           /\ Load = Waiting(inbox) + One(agent = "turn") + Turns
<1>1. Waiting(inbox) \in Nat /\ Turns \in Nat
    BY CountsAreHits, HitsCount DEF Types
<1> QED
    BY <1>1, SMT DEF AtAgent, Load, One

(* Only a message that reaches the agent's stdin adds to it.               *)
LEMMA BoxCount ==
    ASSUME inbox \in Seq(BoxFrames), NEW k \in BoxFrames
    PROVE  /\ Waiting(Told(k)) <= Waiting(inbox) + One(k = "msg")
           /\ Waiting(WithClose(Told(k))) <= Waiting(inbox) + One(k = "msg")
           /\ Waiting(WithClose(inbox)) <= Waiting(inbox)
<1>1. "close" \in BoxFrames /\ "close" # "msg"
    BY SMT DEF BoxFrames
<1>2. ASSUME NEW box \in Seq(BoxFrames), NEW f \in BoxFrames
      PROVE  /\ Hears(box, f) \in Seq(BoxFrames) /\ Waiting(box) \in Nat
             /\ Waiting(Hears(box, f)) <= Waiting(box) + One(f = "msg")
  <2>1. Waiting(Append(box, f)) = Waiting(box) + One(f \in {"msg"})
      BY <1>2, HitsAppend, CountsAreHits
  <2>2. One(f \in {"msg"}) = One(f = "msg")
      BY DEF One
  <2>3. Waiting(box) \in Nat
      BY <1>2, HitsCount, CountsAreHits
  <2>4. Waiting(box) <= Waiting(box) + One(f = "msg")
      BY <2>3, SMT DEF One
  <2>5. Waiting(box) + One(f = "msg") <= Waiting(box) + One(f = "msg")
      BY <2>3, SMT DEF One
  <2>6. Append(box, f) \in Seq(BoxFrames)
      BY <1>2, SMT
  <2> QED
      BY <2>1, <2>2, <2>3, <2>4, <2>5, <2>6 DEF Hears
<1>3. ASSUME NEW box \in Seq(BoxFrames) PROVE Waiting(WithClose(box)) <= Waiting(box)
  <2>1. Waiting(Hears(box, "close")) <= Waiting(box) + 0 /\ Waiting(box) \in Nat
      BY <1>1, <1>2 DEF One
  <2>2. Waiting(box) + 0 = Waiting(box) /\ Waiting(box) <= Waiting(box)
      BY <2>1, SMT
  <2> QED
      BY <2>1, <2>2 DEF WithClose
<1>4. Told(k) \in Seq(BoxFrames) /\ Waiting(Told(k)) <= Waiting(inbox) + One(k = "msg")
  <2>1. Waiting(inbox) <= Waiting(inbox) + One(k = "msg")
      BY <1>2, SMT DEF One
  <2> QED
      BY <1>2, <2>1 DEF Told
<1>5. Waiting(WithClose(Told(k))) <= Waiting(inbox) + One(k = "msg")
  <2>1. /\ Waiting(WithClose(Told(k))) <= Waiting(Told(k))
        /\ Waiting(Told(k)) \in Nat /\ Waiting(inbox) \in Nat
      BY <1>2, <1>3, <1>4
  <2>2. Waiting(WithClose(Told(k))) \in Nat
      BY <1>1, <1>2, <1>4 DEF WithClose
  <2>3. One(k = "msg") \in Nat
      BY SMT DEF One
  <2> QED
      BY <1>4, <2>1, <2>2, <2>3, SMT
<1> QED
    BY <1>3, <1>4, <1>5

(* What the pump and the agent do to the load: only a message that is      *)
(* forwarded adds one.                                                     *)
LEMMA LoadSteps ==
    ASSUME Types, Types'
    PROVE  /\ UNCHANGED <<inbox, agent, out>> => Load' = Load
           /\ PumpTakes \/ PumpSeesClose \/ PumpCanceled => Load' <= Load
           /\ PumpForwards => Load' <= Load + One(pump' = "recv")
           /\ AgentStep => Load' <= Load
           /\ SendsFirst => Load' <= Load + 1
           /\ ReceivesTurn => Load' + 1 = Load
           /\ Completes => Load' = 0
           /\ Closes => Load' <= Load
<1> USE DEF session, clients, feed, guest, daemon, bounds, ghosts
<1>1. /\ inbox \in Seq(BoxFrames) /\ out \in Seq(OutFrames) /\ input \in Seq(Inputs)
      /\ "msg" \in BoxFrames /\ "eof" \in BoxFrames /\ Frames \subseteq BoxFrames
      /\ "turn" \in OutFrames /\ "result" \in OutFrames
    BY DEF Types, BoxFrames, OutFrames, Frames
<1>2. /\ Waiting(inbox) \in Nat /\ Turns \in Nat
      /\ Load = Waiting(inbox) + One(agent = "turn") + Turns
    BY LoadCount
<1>3. /\ Waiting(inbox') \in Nat /\ Turns' \in Nat
      /\ Load' = Waiting(inbox') + One(agent' = "turn") + Turns'
  <2>1. Waiting(inbox') \in Nat /\ Turns' \in Nat
      BY CountsAreHits, HitsCount DEF Types
  <2> QED
      BY <2>1, SMT DEF AtAgent, Load, One
<1>4. ASSUME UNCHANGED <<agent, out>>
      PROVE  /\ UNCHANGED inbox => Load' = Load
             /\ Waiting(inbox') <= Waiting(inbox) => Load' <= Load
             /\ Waiting(inbox') <= Waiting(inbox) + 1 => Load' <= Load + 1
  <2>1. Turns' = Turns /\ One(agent' = "turn") = One(agent = "turn")
      BY <1>4 DEF Turns
  <2>2. One(agent = "turn") \in Nat
      BY SMT DEF One
  <2> QED
      BY <1>2, <1>3, <2>1, <2>2, SMT
<1>5. /\ \A k \in {"eof"} : One(k = "msg") = 0
      /\ Waiting(inbox) + 0 = Waiting(inbox)
    BY <1>2, SMT DEF One
<1>6. /\ Waiting(WithClose(Told("eof"))) <= Waiting(inbox)
      /\ Waiting(WithClose(inbox)) <= Waiting(inbox)
      /\ Waiting(inbox) <= Waiting(inbox)
      /\ Waiting(Told("msg")) <= Waiting(inbox) + 1
    BY <1>1, <1>2, BoxCount, SMT DEF One
<1>7. ASSUME PumpTakes PROVE Load' <= Load
  <2>1. Head(input) \in Inputs
      BY <1>1, <1>7, SMT DEF PumpTakes
  <2>2. Head(input).kind = "msg" \/ Head(input).kind = "eof"
      BY <2>1 DEF Inputs, Frames
  <2> QED
      BY <1>4, <1>6, <1>7, <2>2 DEF PumpTakes, PumpEnds, CloseSend
<1>8. ASSUME PumpSeesClose \/ PumpCanceled PROVE Load' <= Load
    BY <1>4, <1>6, <1>8 DEF PumpSeesClose, PumpCanceled, PumpEnds, CloseSend
<1>9. ASSUME PumpForwards PROVE Load' <= Load + One(pump' = "recv")
  <2>1. CASE pump' = "recv" /\ inbox' = Told("msg")
    <3>1. Load' <= Load + 1
        BY <1>4, <1>6, <1>9, <2>1 DEF PumpForwards
    <3> QED
        BY <2>1, <3>1 DEF One
  <2>2. CASE PumpEnds(inbox)
    <3>1. Load' <= Load
        BY <1>4, <1>6, <1>9, <2>2 DEF PumpForwards, PumpEnds, CloseSend
    <3>2. Load \in Nat /\ Load' \in Nat
        BY <1>2, <1>3, SMT DEF One
    <3> QED
        BY <3>1, <3>2, SMT DEF One
  <2> QED
      BY <1>9, <2>1, <2>2 DEF PumpForwards
<1>10. \A k \in OutFrames : Hits(Append(out, k), {"turn"}) = Turns + One(k \in {"turn"})
    BY <1>1, HitsAppend, CountsAreHits
<1>11. ASSUME AgentReads PROVE Load' <= Load
  <2>1. inbox # <<>> /\ inbox' = Tail(inbox) /\ agent = "idle"
      BY <1>11 DEF AgentReads
  <2>2. Waiting(inbox) = Waiting(inbox') + One(Head(inbox) \in {"msg"})
      BY <1>1, <2>1, HitsTail, CountsAreHits
  <2>3. CASE Head(inbox) = "msg"
    <3>1. agent' = "turn" /\ out' = out
        BY <1>11, <2>3 DEF AgentReads
    <3> QED
        BY <1>2, <1>3, <2>1, <2>2, <2>3, <3>1, SMT DEF One, Turns
  <2>4. CASE Head(inbox) # "msg"
    <3>1. agent' = "exited" /\ out' = Append(out, "result")
        BY <1>11, <2>4 DEF AgentReads
    <3>2. Turns' = Turns + One("result" \in {"turn"})
        BY <1>1, <1>10, <3>1, CountsAreHits
    <3>3. One("result" \in {"turn"}) = 0 /\ One(Head(inbox) \in {"msg"}) = 0
        BY <2>4, SMT DEF One
    <3>4. One(agent = "turn") = 0 /\ One(agent' = "turn") = 0
        BY <2>1, <3>1, SMT DEF One
    <3> QED
        BY <1>2, <1>3, <2>2, <3>2, <3>3, <3>4, SMT
  <2> QED
      BY <2>3, <2>4
<1>12. ASSUME AgentKilled PROVE Load' <= Load
  <2>1. agent' = "exited" /\ inbox' = inbox /\ Turns' = Turns
      BY <1>12 DEF AgentKilled, Turns
  <2> QED
      BY <1>2, <1>3, <2>1, SMT DEF One
<1>13. ASSUME NEW b \in BOOLEAN, AgentTurnEnds(b) PROVE Load' <= Load
  <2>1. /\ agent = "turn" /\ agent' # "turn" /\ inbox' = inbox
        /\ \E k \in OutFrames : out' = Append(out, k)
      BY <1>1, <1>13, SMT DEF AgentTurnEnds
  <2>2. PICK k \in OutFrames : out' = Append(out, k)
      BY <2>1
  <2>3. Turns' = Turns + One(k \in {"turn"})
      BY <1>10, <2>2, CountsAreHits
  <2> QED
      BY <1>2, <1>3, <2>1, <2>3, SMT DEF One
<1>14. ASSUME NEW b \in BOOLEAN, WatchStops(b) PROVE Load' <= Load
  <2>1. CASE UNCHANGED <<agent, out>>
    <3>1. inbox' = inbox
        BY <1>14 DEF WatchStops
    <3> QED
        BY <1>4, <1>6, <2>1, <3>1
  <2>2. CASE agent' = "exited" /\ out' = Append(out, "result")
    <3>1. inbox' = inbox
        BY <1>14 DEF WatchStops
    <3>2. Turns' = Turns + One("result" \in {"turn"})
        BY <1>1, <1>10, <2>2, CountsAreHits
    <3> QED
        BY <1>2, <1>3, <2>2, <3>1, <3>2, SMT DEF One
  <2> QED
      BY <1>14, <2>1, <2>2 DEF WatchStops
<1>15. ASSUME SendsFirst PROVE Load' <= Load + 1
    BY <1>4, <1>6, <1>15 DEF SendsFirst, LoopTo, LoopMoves
<1>16. ASSUME ReceivesTurn PROVE Load' + 1 = Load
  <2>1. out # <<>> /\ Head(out) = "turn" /\ out' = Tail(out) /\ UNCHANGED <<inbox, agent>>
      BY <1>16 DEF ReceivesTurn, LoopTo, LoopMoves
  <2>2. Turns = Turns' + One(Head(out) \in {"turn"})
      BY <1>1, <2>1, HitsTail, CountsAreHits
  <2> QED
      BY <1>2, <1>3, <2>1, <2>2, SMT DEF One
<1>17. ASSUME Completes PROVE Load' = 0
  <2>1. inbox' = <<>> /\ out' = <<>> /\ agent' = "exited"
      BY <1>17 DEF Completes
  <2>2. Waiting(inbox') = 0 /\ Turns' = 0
      BY <2>1, HitsEmpty, CountsAreHits
  <2> QED
      BY <1>3, <2>1, <2>2, SMT DEF One
<1>18. ASSUME Closes PROVE Load' <= Load
    BY <1>4, <1>6, <1>18 DEF Closes, CloseSend, LoopTo, LoopMoves
<1> QED
    BY <1>4, <1>7, <1>8, <1>9, <1>11, <1>12, <1>13, <1>14, <1>15, <1>16, <1>17,
       <1>18 DEF AgentStep

(* Before the first message: what a step leaves of it.                     *)
LEMMA StartStep ==
    ASSUME Types, Types', StartOK, [Next]_vars
    PROVE  StartOK'
<1> USE DEF session, clients, feed, guest, daemon, bounds, ghosts
<1>1. ASSUME UNCHANGED <<loop, restarts, inbox, out, agent, pump, token>> PROVE StartOK'
    BY <1>1 DEF StartOK, Starting, Turns
<1>2. ASSUME ~Starting' PROVE StartOK'
    BY <1>2 DEF StartOK
<1>3. ASSUME StopTimesOut \/ \E p \in Senders : SenderStep(p) PROVE StartOK'
    BY <1>1, <1>3 DEF StopTimesOut, SenderStep, SendFails, SendQueued, Fails
<1>4. ASSUME CreatorStep \/ CreatorHalfCloses \/ CreatorLost PROVE StartOK'
    BY <1>1, <1>4 DEF CreatorStep, CreatorReceiveFails, CreatorReleases, CreatorHalfCloses,
                      CreatorLost
<1>5. ASSUME NEW k \in Frames, CreatorFrame(k) \/ \E c \in Clients : AttachFrame(c, k)
      PROVE  StartOK'
    BY <1>1, <1>5 DEF CreatorFrame, AttachFrame
<1>6. ASSUME NEW c \in Clients, AttachFinds(c) \/ AttachStep(c) \/ AttachEnds(c)
      PROVE  StartOK'
    BY <1>1, <1>6 DEF AttachFinds, AttachStep, AttachAcquires, AttachSubscribes,
                      AttachOutput, AttachReleases, AttachEnds
<1>7. ASSUME StopBegins \/ StopDecides \/ Shutdown \/ Finished \/ UNCHANGED vars
      PROVE  StartOK'
    BY <1>1, <1>7 DEF StopBegins, StopDecides, Shutdown, Finished, vars
<1>8. ASSUME PumpStep PROVE StartOK'
  <2>1. pump # "none" /\ loop' = loop
      BY <1>8, SMT DEF PumpStep, PumpTakes, PumpSeesClose, PumpForwards, PumpCanceled
  <2> QED
      BY <1>2, <2>1 DEF StartOK, Starting
<1>9. ASSUME AgentReads \/ \E b \in BOOLEAN : AgentTurnEnds(b) PROVE StartOK'
  <2>1. loop' = loop /\ (inbox # <<>> \/ agent = "turn")
      BY <1>9 DEF AgentReads, AgentTurnEnds
  <2> QED
      BY <1>2, <2>1 DEF StartOK, Starting
<1>10. ASSUME AgentKilled PROVE StartOK'
  <2>1. agent' # "turn" /\ UNCHANGED <<loop, restarts, inbox, out, pump, token>>
      BY <1>10, SMT DEF AgentKilled
  <2> QED
      BY <2>1 DEF StartOK, Starting, Turns
<1>11. ASSUME NEW b \in BOOLEAN, WatchStops(b) PROVE StartOK'
  <2>1. UNCHANGED <<loop, restarts, inbox, pump, token>>
      BY <1>11 DEF WatchStops
  <2>2. CASE UNCHANGED <<agent, out>>
      BY <1>1, <2>1, <2>2
  <2>3. CASE agent' = "exited" /\ out' = Append(out, "result")
    <3>1. "result" \in OutFrames /\ out \in Seq(OutFrames)
        BY DEF Types, OutFrames
    <3>2. Turns' = Turns + One("result" \in {"turn"})
        BY <2>3, <3>1, HitsAppend, CountsAreHits
    <3>3. One("result" \in {"turn"}) = 0 /\ agent' # "turn" /\ 0 + 0 = 0
        BY <2>3, SMT DEF One
    <3> QED
        BY <2>1, <3>2, <3>3 DEF StartOK, Starting
  <2> QED
      BY <1>11, <2>2, <2>3 DEF WatchStops
<1>12. ASSUME Opens \/ BeginsFirstTurn PROVE StartOK'
  <2>1. Starting /\ UNCHANGED <<restarts, inbox, out, agent, pump, token>>
      BY <1>12 DEF Opens, BeginsFirstTurn, LoopTo, LoopMoves, Starting
  <2> QED
      BY <2>1 DEF StartOK, Turns
<1>13. ASSUME \/ PrepareFails \/ SendsFirst \/ ReceivesTurn \/ Delivers \/ ReceivesResult
              \/ ReceiveFails \/ Disconnects \/ Completes \/ Removes \/ Closes \/ Resumes
              \/ Restart
       PROVE  StartOK'
  <2>1. loop' \in {"complete", "recv", "remove", "deliver", "close", "gone", "reopen"}
      BY <1>13 DEF PrepareFails, SendsFirst, ReceivesTurn, Delivers, ReceivesResult,
                   ReceiveFails, Disconnects, Completes, Removes, Closes, Resumes, Restart,
                   LoopTo, LoopMoves
  <2>2. ~Starting'
      BY <2>1, SMT DEF Starting
  <2> QED
      BY <1>2, <2>2
<1> QED
    BY <1>3, <1>4, <1>5, <1>6, <1>7, <1>8, <1>9, <1>10, <1>11, <1>12, <1>13
       DEF Next, AgentStep, LoopStep

Between == loop \in {"deliver", "reopen"}

(* The sum of TurnOK, and that what a step adds to it must come from it.   *)
LEMMA TurnSum ==
    ASSUME Types, Types', TurnOK
    PROVE  /\ Load + One(token) + One(Between) <= 1 + restarts
           /\ Load' + One(token') + One(Between') <= 1 + restarts' => TurnOK'
           /\ Load \in Nat /\ Load' \in Nat /\ restarts \in Nat
           /\ \A b : One(b) \in 0..1
<1>1. Load \in Nat /\ AtAgent \in Nat /\ Turns \in Nat /\ restarts \in Nat
    BY LoadCount DEF Types
<1>2. Waiting(inbox') \in Nat /\ Turns' \in Nat
    BY CountsAreHits, HitsCount DEF Types
<1>3. Load' \in Nat /\ AtAgent' \in Nat
    BY <1>2, SMT DEF Load, AtAgent, One
<1>4. \A b : One(b) \in 0..1
    BY SMT DEF One
<1> QED
    BY <1>1, <1>2, <1>3, <1>4 DEF TurnOK, Load, Between

(* A step gives the agent no second turn.                                  *)
LEMMA TurnStep ==
    ASSUME Types, Types', TurnInv, [Next]_vars
    PROVE  TurnOK'
<1> USE DEF session, clients, feed, guest, daemon, bounds, ghosts
<1>1. StartOK /\ TurnOK
    BY DEF TurnInv
<1>2. /\ Load + One(token) + One(Between) <= 1 + restarts
      /\ Load' + One(token') + One(Between') <= 1 + restarts' => TurnOK'
      /\ Load \in Nat /\ Load' \in Nat /\ restarts \in Nat
      /\ \A b : One(b) \in 0..1
    BY <1>1, TurnSum
(* The load does not grow and neither do the other two.                    *)
<1>3. ASSUME Load' <= Load, token' => token, Between' => Between, UNCHANGED restarts
      PROVE  TurnOK'
  <2>1. One(token') <= One(token) /\ One(Between') <= One(Between)
      BY <1>3, SMT DEF One
  <2> QED
      BY <1>2, <1>3, <2>1, SMT
<1>4. ASSUME UNCHANGED <<inbox, agent, out, token, loop, restarts>> PROVE TurnOK'
  <2>1. Load' = Load /\ Load <= Load
      BY <1>2, <1>4, LoadSteps, SMT
  <2> QED
      BY <1>3, <1>4, <2>1 DEF Between
<1>5. ASSUME StopTimesOut \/ \E p \in Senders : SenderStep(p) PROVE TurnOK'
    BY <1>4, <1>5 DEF StopTimesOut, SenderStep, SendFails, SendQueued, Fails
<1>6. ASSUME CreatorStep \/ CreatorHalfCloses \/ CreatorLost PROVE TurnOK'
    BY <1>4, <1>6 DEF CreatorStep, CreatorReceiveFails, CreatorReleases, CreatorHalfCloses,
                      CreatorLost
<1>7. ASSUME NEW k \in Frames, CreatorFrame(k) \/ \E c \in Clients : AttachFrame(c, k)
      PROVE  TurnOK'
    BY <1>4, <1>7 DEF CreatorFrame, AttachFrame
<1>8. ASSUME NEW c \in Clients, AttachFinds(c) \/ AttachStep(c) \/ AttachEnds(c)
      PROVE  TurnOK'
    BY <1>4, <1>8 DEF AttachFinds, AttachStep, AttachAcquires, AttachSubscribes,
                      AttachOutput, AttachReleases, AttachEnds
<1>9. ASSUME StopBegins \/ StopDecides \/ Shutdown \/ Finished \/ UNCHANGED vars
      PROVE  TurnOK'
    BY <1>4, <1>9 DEF StopBegins, StopDecides, Shutdown, Finished, vars
<1>10. ASSUME PumpTakes \/ PumpSeesClose \/ PumpCanceled PROVE TurnOK'
  <2>1. UNCHANGED <<token, loop, restarts>>
      BY <1>10 DEF PumpTakes, PumpSeesClose, PumpCanceled
  <2> QED
      BY <1>3, <1>10, <2>1, LoadSteps DEF Between
<1>11. ASSUME PumpForwards PROVE TurnOK'
  <2>1. token = TRUE /\ token' = FALSE /\ UNCHANGED <<loop, restarts>>
      BY <1>11, TRUE DEF PumpForwards, TakesTurn
  <2>2. Load' <= Load + One(pump' = "recv")
      BY <1>11, LoadSteps
  <2>3. One(token) = 1 /\ One(token') = 0 /\ One(Between') = One(Between)
      BY <2>1 DEF One, Between
  <2> QED
      BY <1>2, <2>1, <2>2, <2>3, SMT
<1>12. ASSUME AgentStep PROVE TurnOK'
  <2>1. UNCHANGED <<token, loop, restarts>>
      BY <1>12 DEF AgentStep, AgentReads, AgentKilled, AgentTurnEnds, WatchStops
  <2> QED
      BY <1>3, <1>12, <2>1, LoadSteps DEF Between
<1>13. ASSUME \/ Opens \/ PrepareFails \/ BeginsFirstTurn \/ ReceivesResult
              \/ ReceiveFails \/ Disconnects \/ Removes
       PROVE  TurnOK'
  <2>1. /\ loop' \in {"begin", "complete", "first", "remove", "close"}
        /\ UNCHANGED <<inbox, agent, out, token, restarts>>
      BY <1>13 DEF Opens, PrepareFails, BeginsFirstTurn, ReceivesResult, ReceiveFails,
                   Disconnects, Removes, LoopTo, LoopMoves
  <2>2. ~Between'
      BY <2>1, SMT DEF Between
  <2>3. Load' = Load /\ Load <= Load
      BY <1>2, <2>1, LoadSteps, SMT
  <2> QED
      BY <1>3, <2>1, <2>2, <2>3
<1>14. ASSUME SendsFirst PROVE TurnOK'
  <2>1. /\ loop = "first" /\ loop' \in {"recv", "remove"} /\ UNCHANGED <<token, restarts>>
      BY <1>14 DEF SendsFirst, LoopTo, LoopMoves
  <2>2. inbox = <<>> /\ Turns = 0 /\ agent # "turn" /\ token = FALSE
      BY <1>1, <2>1 DEF StartOK, Starting
  <2>3. Waiting(inbox) = 0
      BY <2>2, HitsEmpty, CountsAreHits
  <2>4. Load = 0
      BY <2>2, <2>3, LoadCount, SMT DEF One
  <2>5. Load' <= Load + 1
      BY <1>14, LoadSteps
  <2>6. One(token') = 0 /\ One(Between') = 0
      BY <2>1, <2>2, SMT DEF One, Between
  <2>7. restarts' = restarts
      BY <2>1
  <2>8. Load' + One(token') + One(Between') <= 1 + restarts'
    <3>1. \A l \in Nat, r \in Nat : l <= 0 + 1 => l + 0 + 0 <= 1 + r
        BY SMT
    <3> QED
        BY <1>2, <2>4, <2>5, <2>6, <2>7, <3>1
  <2> QED
      BY <1>2, <2>8
<1>15. ASSUME ReceivesTurn PROVE TurnOK'
  <2>1. loop = "recv" /\ UNCHANGED <<token, restarts>>
      BY <1>15 DEF ReceivesTurn, LoopTo, LoopMoves
  <2>2. Load' + 1 = Load
      BY <1>15, LoadSteps
  <2>3. One(Between) = 0 /\ One(token') = One(token)
      BY <2>1, SMT DEF One, Between
  <2>4. restarts' = restarts /\ One(token) \in 0..1 /\ One(Between') \in 0..1
      BY <1>2, <2>1
  <2>5. Load' + One(token') + One(Between') <= 1 + restarts'
    <3>1. \A l \in Nat, m \in Nat, t \in 0..1, w \in 0..1, r \in Nat :
             l + 1 = m /\ m + t + 0 <= 1 + r => l + t + w <= 1 + r
        BY SMT
    <3> QED
        BY <1>2, <2>2, <2>3, <2>4, <3>1
  <2> QED
      BY <1>2, <2>5
<1>16. ASSUME Delivers PROVE TurnOK'
  <2>1. loop = "deliver" /\ loop' \in {"recv", "complete"}
        /\ UNCHANGED <<inbox, agent, out, restarts>>
      BY <1>16 DEF Delivers, LoopTo, LoopMoves
  <2>2. Load' = Load
      BY <2>1, LoadSteps
  <2>3. One(Between) = 1 /\ One(Between') = 0
      BY <2>1, SMT DEF One, Between
  <2>4. token' = TRUE \/ token' = token
      BY <1>16 DEF Delivers
  <2>5. One(token') <= 1
      BY SMT DEF One
  <2> QED
      BY <1>2, <2>1, <2>2, <2>3, <2>5, SMT
<1>17. ASSUME Completes PROVE TurnOK'
  <2>1. loop' = "remove" /\ UNCHANGED restarts
      BY <1>17 DEF Completes
  <2>2. Load' = 0
      BY <1>17, LoadSteps
  <2>3. One(Between') = 0
      BY <2>1, SMT DEF One, Between
  <2> QED
      BY <1>2, <2>1, <2>2, <2>3, SMT
<1>18. ASSUME Closes PROVE TurnOK'
  <2>1. loop' = "gone" /\ UNCHANGED <<token, restarts>>
      BY <1>18 DEF Closes, LoopTo, LoopMoves
  <2>2. ~Between'
      BY <2>1, SMT DEF Between
  <2> QED
      BY <1>3, <1>18, <2>1, <2>2, LoadSteps
<1>19. ASSUME Resumes PROVE TurnOK'
  <2>1. /\ loop = "reopen" /\ loop' \in {"recv", "remove", "complete"}
        /\ UNCHANGED <<inbox, agent, out, restarts>>
      BY <1>19 DEF Resumes, LoopTo, LoopMoves
  <2>2. Load' = Load
      BY <2>1, LoadSteps
  <2>3. One(Between) = 1 /\ One(Between') = 0
      BY <2>1, SMT DEF One, Between
  <2> QED
      BY <1>2, <2>1, <2>2, <2>3, SMT
<1>20. ASSUME Restart PROVE TurnOK'
  <2>1. /\ restarts' = restarts + 1 /\ token' = FALSE /\ UNCHANGED <<inbox, agent, out>>
      BY <1>20 DEF Restart
  <2>2. Load' = Load
      BY <2>1, LoadSteps
  <2>3. One(token') = 0
      BY <2>1 DEF One
  <2> QED
      BY <1>2, <2>1, <2>2, <2>3, SMT
<1> QED
    BY <1>5, <1>6, <1>7, <1>8, <1>9, <1>10, <1>11, <1>12, <1>13, <1>14, <1>15,
       <1>16, <1>17, <1>18, <1>19, <1>20 DEF Next, PumpStep, LoopStep

(* At the start.                                                           *)
LEMMA InitTurn ==
    ASSUME Init
    PROVE  TurnInv
<1>1. /\ restarts = 0 /\ inbox = <<>> /\ out = <<>> /\ agent = "idle" /\ pump = "none"
      /\ token = FALSE /\ loop = "prepare"
    BY DEF Init
<1>2. Waiting(inbox) = 0 /\ Turns = 0
    BY <1>1, HitsEmpty, CountsAreHits
<1>3. AtAgent = 0
    BY <1>1, <1>2, SMT DEF AtAgent
<1>4. One(token) = 0 /\ One(loop \in {"deliver", "reopen"}) = 0
    BY <1>1, SMT DEF One
<1>5. TurnOK
    BY <1>1, <1>2, <1>3, <1>4, SMT DEF TurnOK
<1>6. agent # "turn"
    BY <1>1, SMT
<1> QED
    BY <1>1, <1>2, <1>5, <1>6 DEF TurnInv, StartOK

----------------------------------------------------------------------------
(* Pending turns.                                                          *)

CountInv == ReservedOK /\ CountOK /\ UntrackedOK

(* Messages on their way, other than the ones a send still holds; and what *)
(* the session has accounted for.                                          *)
Busy == Load + One(pump = "gate") + Queued + One(loop = "first")
Credit == sess.pending + early

(* The senders are finitely many.                                          *)
LEMMA SendersFinite == IsFiniteSet(Senders)
<1>1. IsFiniteSet({Creator, Stopper}) /\ IsFiniteSet(Clients)
  <2>1. {Creator} \cup {Stopper} = {Creator, Stopper}
      OBVIOUS
  <2>2. IsFiniteSet({Creator}) /\ IsFiniteSet({Stopper})
      BY FS_Singleton
  <2>3. IsFiniteSet({Creator} \cup {Stopper})
      BY <2>2, FS_Union
  <2> QED
      BY <2>1, <2>3, SendersDistinct
<1>2. IsFiniteSet({Creator, Stopper} \cup Clients)
    BY <1>1, FS_Union
<1>3. Senders = {Creator, Stopper} \cup Clients
    BY DEF Senders
<1> QED
    BY <1>2, <1>3

(* What one sender does changes the reservations by its own.               *)
LEMMA ReservedCount ==
    ASSUME NEW p \in Senders, \A q \in Senders \ {p} : snd'[q] = snd[q]
    PROVE  /\ Cardinality(Reserved) \in Nat /\ Cardinality(Reserved') \in Nat
           /\ Cardinality(Reserved') + One(p \in Reserved)
                = Cardinality(Reserved) + One(p \in Reserved')
<1> DEFINE B == {q \in Senders : q # p /\ snd[q].pc = "blocked" /\ snd[q].reserved}
<1>1. IsFiniteSet(B) /\ p \notin B
  <2>1. B \subseteq Senders
      OBVIOUS
  <2> QED
      BY <2>1, SendersFinite, FS_Subset
<1>2. ASSUME NEW R, R \ {p} = B
      PROVE  Cardinality(R) \in Nat /\ Cardinality(R) = Cardinality(B) + One(p \in R)
  <2> HIDE DEF B
  <2>1. CASE p \in R
    <3>1. R = B \cup {p}
        BY <1>2, <2>1
    <3>2. IsFiniteSet(R) /\ Cardinality(R) = Cardinality(B) + 1
        BY <1>1, <3>1, FS_AddElement
    <3> QED
        BY <2>1, <3>2, FS_CardinalityType DEF One
  <2>2. CASE p \notin R
    <3>1. R = B
        BY <1>2, <2>2
    <3>2. Cardinality(B) \in Nat
        BY <1>1, FS_CardinalityType
    <3>3. Cardinality(B) = Cardinality(B) + 0
        BY <3>2, SMT
    <3> QED
        BY <2>2, <3>1, <3>2, <3>3 DEF One
  <2> QED
      BY <2>1, <2>2
<1>3. Reserved \ {p} = B
    BY DEF Reserved
<1>4. Reserved' \ {p} = B
    BY DEF Reserved
<1>5. /\ Cardinality(Reserved) \in Nat /\ Cardinality(Reserved') \in Nat
      /\ Cardinality(Reserved) = Cardinality(B) + One(p \in Reserved)
      /\ Cardinality(Reserved') = Cardinality(B) + One(p \in Reserved')
      /\ Cardinality(B) \in Nat
    BY <1>1, <1>2, <1>3, <1>4, FS_CardinalityType
<1>6. One(p \in Reserved) \in 0..1 /\ One(p \in Reserved') \in 0..1
    BY SMT DEF One
<1>7. \A b \in Nat, x \in 0..1, y \in 0..1 : (b + y) + x = (b + x) + y
    BY SMT
<1>8. (Cardinality(B) + One(p \in Reserved')) + One(p \in Reserved)
        = (Cardinality(B) + One(p \in Reserved)) + One(p \in Reserved')
    BY <1>5, <1>6, <1>7
<1> QED
    BY <1>5, <1>8

(* The parts of the count.                                                 *)
LEMMA CountParts ==
    ASSUME Types, Types'
    PROVE  /\ Busy \in Nat /\ Busy' \in Nat /\ Credit \in Nat /\ Credit' \in Nat
           /\ Queued \in Nat /\ Queued' \in Nat
           /\ Queued = Hits(input, {f \in Inputs : f.kind = "msg"})
           /\ Queued' = Hits(input', {f \in Inputs : f.kind = "msg"})
           /\ Cardinality(Reserved) \in Nat /\ Cardinality(Reserved') \in Nat
           /\ CountOK <=> (restarts = 0 => Busy + Cardinality(Reserved) <= Credit)
           /\ CountOK' <=> (restarts' = 0 => Busy' + Cardinality(Reserved') <= Credit')
<1> DEFINE M == {f \in Inputs : f.kind = "msg"}
<1>1. /\ input \in Seq(Inputs) /\ input' \in Seq(Inputs)
      /\ sess.pending \in Nat /\ sess'.pending \in Nat /\ early \in Nat /\ early' \in Nat
    BY DEF Types, SessRec
<1>2. Queued = Hits(input, M) /\ Queued' = Hits(input', M)
  <2>1. /\ \A i \in DOMAIN input : input[i] \in Inputs
        /\ \A i \in DOMAIN input' : input'[i] \in Inputs
      BY <1>1, SMT
  <2>2. /\ {i \in DOMAIN input : input[i].kind = "msg"} = {i \in DOMAIN input : input[i] \in M}
        /\ {i \in DOMAIN input' : input'[i].kind = "msg"}
              = {i \in DOMAIN input' : input'[i] \in M}
      BY <2>1
  <2> QED
      BY <2>2 DEF Queued, Hits
<1>3. Queued \in Nat /\ Queued' \in Nat
    BY <1>1, <1>2, HitsCount
<1>4. Waiting(inbox) \in Nat /\ Turns \in Nat /\ Waiting(inbox') \in Nat /\ Turns' \in Nat
    BY CountsAreHits, HitsCount DEF Types
<1>5. /\ AtAgent \in Nat /\ AtAgent' \in Nat /\ Load = AtAgent + Turns
      /\ Load' = AtAgent' + Turns'
    BY <1>4, SMT DEF AtAgent, Load
<1>6. Cardinality(Reserved) \in Nat /\ Cardinality(Reserved') \in Nat
  <2>1. Reserved \subseteq Senders /\ Reserved' \subseteq Senders
      BY DEF Reserved
  <2> QED
      BY <2>1, SendersFinite, FS_Subset, FS_CardinalityType
<1>7. /\ One(pump = "gate") \in Nat /\ One(loop = "first") \in Nat
      /\ One(pump' = "gate") \in Nat /\ One(loop' = "first") \in Nat
    BY SMT DEF One
<1>8. Busy \in Nat /\ Busy' \in Nat /\ Credit \in Nat /\ Credit' \in Nat
  <2>1. /\ \A a, b, c, d \in Nat : a + b + c + d \in Nat
        /\ \A a, b \in Nat : a + b \in Nat
      BY SMT
  <2>2. Load \in Nat /\ Load' \in Nat
      BY <1>4, <1>5, <2>1
  <2> QED
      BY <1>1, <1>3, <1>7, <2>1, <2>2 DEF Busy, Credit
<1>9. CountOK <=> (restarts = 0 => Busy + Cardinality(Reserved) <= Credit)
  <2>1. Busy = (AtAgent + Turns) + One(pump = "gate") + Queued + One(loop = "first")
      BY <1>5 DEF Busy
  <2>2. AtAgent + One(pump = "gate") + Queued + Turns + Cardinality(Reserved)
            + One(loop = "first") <= Credit
          <=> Busy + Cardinality(Reserved) <= Credit
      BY <1>3, <1>4, <1>5, <1>6, <1>7, <1>8, <2>1, SMT
  <2> QED
      BY <2>2 DEF CountOK, Credit
<1>10. CountOK' <=> (restarts' = 0 => Busy' + Cardinality(Reserved') <= Credit')
  <2>1. Busy' = (AtAgent' + Turns') + One(pump' = "gate") + Queued' + One(loop' = "first")
      BY <1>5 DEF Busy
  <2>2. AtAgent' + One(pump' = "gate") + Queued' + Turns' + Cardinality(Reserved')
            + One(loop' = "first") <= Credit'
          <=> Busy' + Cardinality(Reserved') <= Credit'
      BY <1>3, <1>4, <1>5, <1>6, <1>7, <1>8, <2>1, SMT
  <2> QED
      BY <2>2 DEF CountOK, Credit
<1> QED
    BY <1>2, <1>3, <1>6, <1>8, <1>9, <1>10

(* Messages in the input channel are counted.                              *)
LEMMA QueuedIsNat ==
    ASSUME Types
    PROVE  Queued \in Nat
<1>1. IsFiniteSet(DOMAIN input)
  <2>1. IsFiniteSet(1..Len(input)) /\ DOMAIN input = 1..Len(input)
      BY FS_Interval, SMT DEF Types
  <2> QED
      BY <2>1
<1>2. {i \in DOMAIN input : input[i].kind = "msg"} \subseteq DOMAIN input
    OBVIOUS
<1> QED
    BY <1>1, <1>2, FS_Subset, FS_CardinalityType DEF Queued

(* From the differences of the parts to the count.                         *)
LEMMA CountKept ==
    ASSUME Types, Types', CountOK, UNCHANGED restarts,
           NEW b \in 0..1, NEW r \in 0..1, NEW c \in 0..1, NEW d \in 0..1,
           Busy' + d <= Busy + b, Cardinality(Reserved') + r <= Cardinality(Reserved) + c,
           Credit + b + c <= Credit' + r + d
    PROVE  CountOK'
<1>1. /\ CountOK <=> (restarts = 0 => Busy + Cardinality(Reserved) <= Credit)
      /\ CountOK' <=> (restarts' = 0 => Busy' + Cardinality(Reserved') <= Credit')
    BY CountParts
<1>2. /\ Busy \in Nat /\ Busy' \in Nat /\ Credit \in Nat /\ Credit' \in Nat
      /\ Cardinality(Reserved) \in Nat /\ Cardinality(Reserved') \in Nat
    BY CountParts
<1>3. ASSUME Busy + Cardinality(Reserved) <= Credit
      PROVE  Busy' + Cardinality(Reserved') <= Credit'
  <2>1. \A x, y \in Nat : y + d <= x + b =>
            \A m, n \in Nat : n + r <= m + c =>
                \A e, f \in Nat : e + b + c <= f + r + d /\ x + m <= e => y + n <= f
      BY SMT
  <2>2. \A m, n \in Nat : n + r <= m + c =>
            \A e, f \in Nat : e + b + c <= f + r + d /\ Busy + m <= e => Busy' + n <= f
      BY <1>2, <2>1
  <2>3. \A e, f \in Nat : e + b + c <= f + r + d /\ Busy + Cardinality(Reserved) <= e
            => Busy' + Cardinality(Reserved') <= f
      BY <1>2, <2>2
  <2> QED
      BY <1>2, <1>3, <2>3
<1> QED
    BY <1>1, <1>3

(* A step that leaves the calls of send and the session's turns alone.     *)
LEMMA CountQuiet ==
    ASSUME Types, Types', CountInv, sess'.pending = sess.pending, sess'.turns = sess.turns,
           UNCHANGED <<snd, early, restarts>>, Busy' <= Busy,
           loop' \in {"prepare", "begin"} => loop \in {"prepare", "begin"}
    PROVE  CountInv'
<1>1. ReservedOK' /\ UntrackedOK'
    BY DEF CountInv, ReservedOK, UntrackedOK
<1>2. Cardinality(Reserved') = Cardinality(Reserved) /\ Credit' = Credit
    BY DEF Reserved, Credit
<1>3. /\ Busy \in Nat /\ Busy' \in Nat /\ Credit \in Nat /\ Cardinality(Reserved) \in Nat
    BY CountParts
<1>4. /\ 0 \in 0..1 /\ Busy' + 0 <= Busy + 0
      /\ Cardinality(Reserved') + 0 <= Cardinality(Reserved) + 0
      /\ Credit + 0 + 0 <= Credit' + 0 + 0
  <2>1. /\ 0 \in 0..1 /\ \A x, y \in Nat : y <= x => y + 0 <= x + 0
        /\ \A n \in Nat : n + 0 <= n + 0 /\ n + 0 + 0 <= n + 0 + 0
      BY SMT
  <2> QED
      BY <1>2, <1>3, <2>1
<1>5. CountOK'
    BY <1>4, CountKept DEF CountInv
<1> QED
    BY <1>1, <1>5 DEF CountInv

(* The same, of the messages on their way as well.                         *)
LEMMA CountStill ==
    ASSUME Types, Types', CountInv, sess'.pending = sess.pending, sess'.turns = sess.turns,
           UNCHANGED <<snd, early, restarts, inbox, agent, out, input>>,
           pump' = pump \/ pump' # "gate", loop' = loop \/ loop' \notin {"prepare", "first"},
           loop' = "begin" => loop \in {"prepare", "begin"}
    PROVE  CountInv'
<1>1. Load' = Load /\ Queued' = Queued /\ Load \in Nat /\ Queued \in Nat
    BY LoadSteps, LoadCount, CountParts DEF Queued
<1>2. /\ One(pump = "gate") \in 0..1 /\ One(pump' = "gate") \in 0..1
      /\ One(pump' = "gate") <= One(pump = "gate")
      /\ One(loop = "first") \in 0..1 /\ One(loop' = "first") \in 0..1
      /\ One(loop' = "first") <= One(loop = "first")
    BY SMT DEF One
<1>3. Busy' <= Busy
    BY <1>1, <1>2, SMT DEF Busy
<1>4. loop' \in {"prepare", "begin"} => loop \in {"prepare", "begin"}
    OBVIOUS
<1> QED
    BY <1>3, <1>4, CountQuiet

(* A send that begins reserves what it adds.                               *)
LEMMA ReserveCount ==
    ASSUME Types, Types', CountInv, NEW p \in Senders, NEW k \in Frames, Reserve(p, k),
           snd[p].pc = "none" \/ p = Stopper, p = Stopper => k = "eof",
           UNCHANGED <<input, inbox, agent, out, pump, loop, restarts, early>>
    PROVE  CountInv'
<1> DEFINE tracked == k = "msg" /\ sess.turns /\ ~Terminal
<1>1. /\ \A q \in Senders \ {p} : snd'[q] = snd[q]
      /\ snd'[p].pc = "blocked" /\ snd'[p].kind = k /\ (snd'[p].reserved <=> tracked)
      /\ sess'.turns = sess.turns /\ sess'.pending = sess.pending + One(tracked)
    BY ReserveFields
<1>2. p = Stopper => ~tracked
    BY SMT
<1>3. ReservedOK'
    BY <1>1, <1>2 DEF CountInv, ReservedOK
<1>4. UntrackedOK'
    BY <1>1 DEF CountInv, UntrackedOK
<1>5. p \notin Reserved /\ (p \in Reserved' <=> tracked)
  <2>1. "none" # "blocked"
      BY SMT
  <2> QED
      BY <1>1, <2>1 DEF CountInv, ReservedOK, Reserved
<1>6. /\ Load' = Load /\ Load \in Nat /\ Queued' = Queued /\ Queued \in Nat
      /\ Credit \in Nat /\ Credit' \in Nat /\ Busy \in Nat
    BY LoadSteps, LoadCount, CountParts DEF Queued
<1>7. Busy' = Busy
    BY <1>6 DEF Busy
<1>8. /\ Cardinality(Reserved) \in Nat /\ Cardinality(Reserved') \in Nat
      /\ Cardinality(Reserved') + One(p \in Reserved)
           = Cardinality(Reserved) + One(p \in Reserved')
    BY <1>1, ReservedCount
<1>9. One(p \in Reserved) = 0 /\ One(p \in Reserved') = One(tracked) /\ One(tracked) \in 0..1
  <2>1. One(tracked) \in 0..1
      BY SMT DEF One
  <2> QED
      BY <1>5, <2>1 DEF One
<1>10. sess.pending \in Nat /\ early \in Nat /\ Credit = sess.pending + early
       /\ Credit' = (sess.pending + One(tracked)) + early
    BY <1>1 DEF Types, SessRec, Credit
<1> HIDE DEF tracked
<1>11. /\ 0 \in 0..1 /\ Busy' + 0 <= Busy + 0
       /\ Cardinality(Reserved') + 0 <= Cardinality(Reserved) + One(tracked)
       /\ Credit + 0 + One(tracked) <= Credit' + 0 + 0
  <2>1. Cardinality(Reserved') + 0 <= Cardinality(Reserved) + One(tracked)
      BY <1>8, <1>9, SMT
  <2>2. Credit + 0 + One(tracked) <= Credit' + 0 + 0
      BY <1>9, <1>10, SMT
  <2>3. 0 \in 0..1 /\ Busy' + 0 <= Busy + 0
      BY <1>6, <1>7, SMT
  <2> QED
      BY <2>1, <2>2, <2>3
<1>12. CountOK'
    BY <1>9, <1>11, CountKept DEF CountInv
<1> QED
    BY <1>3, <1>4, <1>12 DEF CountInv

(* A send that fails gives back what it reserved.                          *)
LEMMA FailsCount ==
    ASSUME Types, Types', CountInv, NEW p \in Senders, snd[p].pc = "blocked", Fails(p)
    PROVE  CountInv'
<1> USE DEF session, clients, feed, guest, daemon, bounds, ghosts
<1>1. /\ \A q \in Senders \ {p} : snd'[q] = snd[q]
      /\ snd'[p].pc = "none" /\ ~snd'[p].reserved /\ sess'.turns = sess.turns
      /\ sess'.pending = IF snd[p].reserved /\ sess.pending > 0
                         THEN sess.pending - 1 ELSE sess.pending
    BY FailsFields
<1>2. UNCHANGED <<input, inbox, agent, out, pump, loop, restarts, early>>
    BY DEF Fails
<1>3. ReservedOK' /\ UntrackedOK'
    BY <1>1, <1>2 DEF CountInv, ReservedOK, UntrackedOK
<1>4. (p \in Reserved <=> snd[p].reserved) /\ p \notin Reserved'
    BY <1>1 DEF Reserved
<1>5. /\ Load' = Load /\ Queued' = Queued /\ Busy \in Nat
    BY <1>2, LoadSteps, CountParts DEF Queued
<1>6. Busy' = Busy
    BY <1>2, <1>5 DEF Busy
<1>7. /\ Cardinality(Reserved) \in Nat /\ Cardinality(Reserved') \in Nat
      /\ Cardinality(Reserved') + One(p \in Reserved)
           = Cardinality(Reserved) + One(p \in Reserved')
    BY <1>1, ReservedCount
<1> DEFINE r == One(snd[p].reserved)
<1>8. One(p \in Reserved') = 0 /\ One(p \in Reserved) = r /\ r \in 0..1
  <2>1. r \in 0..1
      BY SMT DEF One
  <2> QED
      BY <1>4, <2>1 DEF One
<1>9. /\ sess.pending \in Nat /\ early \in Nat /\ Credit = sess.pending + early
      /\ Credit' = sess'.pending + early
    BY <1>2 DEF Types, SessRec, Credit
<1>10. sess.pending <= sess'.pending + r /\ sess'.pending \in Nat
  <2>1. CASE snd[p].reserved
    <3>1. r = 1
        BY <2>1 DEF One
    <3>2. sess'.pending = IF sess.pending > 0 THEN sess.pending - 1 ELSE sess.pending
        BY <1>1, <2>1
    <3> HIDE DEF r
    <3> QED
        BY <1>9, <3>1, <3>2, SMT
  <2>2. CASE ~snd[p].reserved
    <3>1. r = 0 /\ sess'.pending = sess.pending
        BY <1>1, <2>2 DEF One
    <3> HIDE DEF r
    <3> QED
        BY <1>9, <3>1, SMT
  <2> QED
      BY <2>1, <2>2
<1> HIDE DEF r
<1>11. Cardinality(Reserved') + r <= Cardinality(Reserved) + 0
    BY <1>7, <1>8, SMT
<1>12. Credit + 0 + 0 <= Credit' + r + 0
    BY <1>8, <1>9, <1>10, SMT
<1>13. 0 \in 0..1 /\ Busy' + 0 <= Busy + 0
    BY <1>5, <1>6, SMT
<1>14. CountOK'
    BY <1>2, <1>8, <1>11, <1>12, <1>13, CountKept DEF CountInv
<1> QED
    BY <1>3, <1>14 DEF CountInv

(* A send that is queued hands its reservation to the input channel.       *)
LEMMA QueuedCount ==
    ASSUME Types, Types', CountInv, NEW p \in Senders, SendQueued(p)
    PROVE  CountInv'
<1> USE DEF session, clients, feed, guest, daemon, bounds, ghosts
<1> DEFINE x == [kind |-> snd[p].kind, lease |-> snd[p].lease]
           M == {f \in Inputs : f.kind = "msg"}
           m == One(snd[p].kind = "msg")
           r == One(snd[p].reserved)
<1>1. DOMAIN snd = Senders /\ SendRec(snd[p]) /\ snd[p].pc = "blocked"
    BY DEF Types, SendQueued
<1>2. /\ input' = Append(input, x)
      /\ early' = IF snd[p].kind = "msg" /\ ~snd[p].reserved THEN early + 1 ELSE early
      /\ UNCHANGED <<sess, inbox, agent, out, pump, loop, restarts>>
    BY DEF SendQueued, Starts
<1>3. snd'[p] = Quiet /\ \A q \in Senders \ {p} : snd'[q] = snd[q]
    BY <1>1 DEF SendQueued
<1>4. Quiet.pc = "none" /\ ~Quiet.reserved
    BY SMT DEF Quiet
<1>5. ReservedOK' /\ UntrackedOK'
    BY <1>2, <1>3, <1>4 DEF CountInv, ReservedOK, UntrackedOK
<1>6. (p \in Reserved <=> snd[p].reserved) /\ p \notin Reserved'
  <2>1. "none" # "blocked"
      BY SMT
  <2> QED
      BY <1>1, <1>3, <1>4, <2>1 DEF Reserved
<1>7. x \in Inputs /\ (x \in M <=> snd[p].kind = "msg")
  <2>1. x.kind = snd[p].kind
      BY SMT
  <2>2. x \in Inputs
      BY <1>1 DEF SendRec, Inputs
  <2> QED
      BY <2>1, <2>2
<1>8. Queued' = Queued + m
  <2>1. Hits(Append(input, x), M) = Hits(input, M) + One(x \in M)
    <3>1. input \in Seq(Inputs) /\ x \in Inputs
        BY <1>7 DEF Types
    <3> HIDE DEF x, M
    <3> QED
        BY <3>1, HitsAppend
  <2>2. One(x \in M) = m
      BY <1>7 DEF One
  <2> QED
      BY <1>2, <2>1, <2>2, CountParts
<1>9. /\ Load' = Load /\ Load \in Nat /\ Queued \in Nat /\ Busy \in Nat /\ Busy' \in Nat
      /\ Credit \in Nat /\ Credit' \in Nat
    BY <1>2, LoadSteps, LoadCount, CountParts
<1>10. m \in 0..1 /\ r \in 0..1 /\ One(pump = "gate") \in Nat /\ One(loop = "first") \in Nat
    BY SMT DEF One
<1>11. Busy' + 0 <= Busy + m
  <2>1. \A l, g, q, f \in Nat : l + g + (q + m) + f + 0 <= (l + g + q + f) + m
      BY <1>10, SMT
  <2>2. Busy' = Load + One(pump = "gate") + (Queued + m) + One(loop = "first")
      BY <1>2, <1>8, <1>9 DEF Busy
  <2>3. Load + One(pump = "gate") + (Queued + m) + One(loop = "first") + 0
          <= (Load + One(pump = "gate") + Queued + One(loop = "first")) + m
      BY <1>9, <1>10, <2>1
  <2> QED
      BY <2>2, <2>3 DEF Busy
<1>12. Cardinality(Reserved') + r <= Cardinality(Reserved) + 0
  <2>1. /\ Cardinality(Reserved) \in Nat /\ Cardinality(Reserved') \in Nat
        /\ Cardinality(Reserved') + One(p \in Reserved)
             = Cardinality(Reserved) + One(p \in Reserved')
      BY <1>3, ReservedCount
  <2>2. One(p \in Reserved) = r /\ One(p \in Reserved') = 0
      BY <1>6 DEF One
  <2>3. \A a, b \in Nat : b + r = a + 0 => b + r <= a + 0
      BY <1>10, SMT
  <2> QED
      BY <2>1, <2>2, <2>3
<1>13. Credit + m + 0 <= Credit' + r + 0
  <2>1. sess.pending \in Nat /\ early \in Nat
      BY DEF Types, SessRec
  <2>2. Credit = sess.pending + early /\ Credit' = sess.pending + early'
      BY <1>2 DEF Credit
  <2>3. snd[p].reserved => snd[p].kind = "msg"
      BY DEF CountInv, ReservedOK
  <2>4. (early' = early + m /\ r = 0) \/ (early' = early /\ m = r)
    <3>1. CASE snd[p].kind = "msg" /\ ~snd[p].reserved
        BY <1>2, <3>1 DEF One
    <3>2. CASE ~(snd[p].kind = "msg" /\ ~snd[p].reserved)
        BY <1>2, <2>3, <3>2 DEF One
    <3> QED
        BY <3>1, <3>2
  <2>5. \A a, e \in Nat, i, j \in 0..1 : /\ (a + e) + i + 0 <= (a + (e + i)) + 0 + 0
                                         /\ (a + e) + i + 0 <= (a + e) + i + 0
      BY SMT
  <2> HIDE DEF m, r
  <2> QED
      BY <1>10, <2>1, <2>2, <2>4, <2>5
<1>14. 0 \in 0..1
    BY SMT
<1> HIDE DEF m, r
<1>15. CountOK'
    BY <1>2, <1>10, <1>11, <1>12, <1>13, <1>14, CountKept DEF CountInv
<1> QED
    BY <1>5, <1>15 DEF CountInv

(* The pump and the agent pass on what they have.                          *)
LEMMA PassedOn ==
    ASSUME Types, Types', PumpStep \/ AgentStep
    PROVE  Busy' <= Busy
<1> USE DEF session, clients, feed, guest, daemon, bounds, ghosts
<1> DEFINE M == {f \in Inputs : f.kind = "msg"}
           g == One(pump = "gate")
           h == One(pump' = "gate")
           s == One(loop = "first")
<1>1. /\ Load \in Nat /\ Load' \in Nat /\ Queued \in Nat /\ Queued' \in Nat
      /\ g \in Nat /\ h \in Nat /\ s \in Nat
  <2>1. Load' \in Nat
    <3>1. Waiting(inbox') \in Nat /\ Turns' \in Nat
        BY CountsAreHits, HitsCount DEF Types
    <3> QED
        BY <3>1, SMT DEF Load, AtAgent
  <2>2. g \in Nat /\ h \in Nat /\ s \in Nat
      BY SMT DEF One
  <2> QED
      BY <2>1, <2>2, LoadCount, CountParts
<1>2. loop' = loop
    BY DEF PumpStep, AgentStep, PumpTakes, PumpSeesClose, PumpForwards, PumpCanceled,
           AgentReads, AgentKilled, AgentTurnEnds, WatchStops
<1>3. Busy = Load + g + Queued + s /\ Busy' = Load' + h + Queued' + s
    BY <1>2 DEF Busy
<1>4. ASSUME NEW a \in Nat, Load' + h + Queued' <= a, a <= Load + g + Queued
      PROVE  Busy' <= Busy
  <2> HIDE DEF g, h, s
  <2>1. \A i, j, k \in Nat : i <= a /\ a <= j => i + k <= j + k
      BY SMT
  <2>2. \A i, j, k \in Nat : i + j + k \in Nat
      BY SMT
  <2> QED
      BY <1>1, <1>3, <1>4, <2>1, <2>2
<1>5. ASSUME Load' <= Load, h <= g, Queued' = Queued PROVE Busy' <= Busy
  <2> HIDE DEF g, h, s
  <2>1. \A i, j, x, y, k \in Nat : i <= x /\ j <= y => i + j + k <= x + y + k
      BY SMT
  <2>2. \A i, j, k \in Nat : i + j + k \in Nat /\ i + j + k <= i + j + k
      BY SMT
  <2> QED
      BY <1>1, <1>4, <1>5, <2>1, <2>2
<1>6. ASSUME AgentStep PROVE Busy' <= Busy
  <2>1. UNCHANGED <<input, pump>>
      BY <1>6 DEF AgentStep, AgentReads, AgentKilled, AgentTurnEnds, WatchStops
  <2>2. Queued' = Queued /\ h <= g
      BY <1>1, <2>1, SMT DEF Queued
  <2> QED
      BY <1>5, <1>6, <2>2, LoadSteps
<1>7. ASSUME PumpSeesClose \/ PumpCanceled PROVE Busy' <= Busy
  <2>1. input' = input /\ pump' = "exited"
      BY <1>7 DEF PumpSeesClose, PumpCanceled, PumpEnds
  <2>2. Queued' = Queued
      BY <2>1 DEF Queued
  <2>3. h <= g
      BY <2>1, SMT DEF One
  <2> QED
      BY <1>5, <1>7, <2>2, <2>3, LoadSteps
<1>8. ASSUME PumpForwards PROVE Busy' <= Busy
  <2>1. input' = input /\ pump = "gate" /\ pump' # "gate"
    <3>1. "recv" # "gate" /\ "exited" # "gate"
        BY SMT
    <3> QED
        BY <1>8, <3>1 DEF PumpForwards, PumpEnds
  <2>2. Queued' = Queued /\ g = 1 /\ h = 0
      BY <2>1 DEF Queued, One
  <2>3. One(pump' = "recv") \in 0..1
      BY SMT DEF One
  <2>4. Load' <= Load + One(pump' = "recv")
      BY <1>8, LoadSteps
  <2>5. /\ \A i, j, q \in Nat, e \in 0..1 : i <= j + e => i + 0 + q <= j + 1 + q
        /\ \A i, j, k \in Nat : i + j + k \in Nat
        /\ \A i \in Nat : i <= i
      BY SMT
  <2>6. Load' + 0 + Queued <= Load + 1 + Queued
      BY <1>1, <2>3, <2>4, <2>5
  <2>7. 1 \in Nat /\ Load + 1 + Queued \in Nat
      BY <1>1, SMT
  <2> HIDE DEF g, h, s
  <2> QED
      BY <1>1, <1>4, <2>2, <2>5, <2>6, <2>7
<1>9. ASSUME PumpTakes PROVE Busy' <= Busy
  <2>1. input # <<>> /\ input' = Tail(input) /\ pump = "recv"
      BY <1>9 DEF PumpTakes
  <2>2. Queued = Queued' + One(Head(input) \in M)
    <3>1. Hits(input, M) = Hits(Tail(input), M) + One(Head(input) \in M)
        BY <2>1, HitsTail DEF Types
    <3> QED
        BY <2>1, <3>1, CountParts
  <2>3. h = One(Head(input) \in M) /\ g = 0
    <3>1. Head(input) \in Inputs
        BY <2>1, SMT DEF Types
    <3>2. pump' = "gate" <=> Head(input).kind = "msg"
      <4>1. "exited" # "gate"
          BY SMT
      <4> QED
          BY <1>9, <4>1 DEF PumpTakes, PumpEnds
    <3>3. pump # "gate"
        BY <2>1, SMT
    <3> QED
        BY <3>1, <3>2, <3>3 DEF One
  <2>4. Load' <= Load
      BY <1>9, LoadSteps
  <2>5. /\ \A i, j, k, q \in Nat : i <= j => i + k + q <= j + 0 + (q + k)
        /\ \A i \in Nat : i <= i
      BY SMT
  <2> HIDE DEF g, h, s
  <2>6. Load' + h + Queued' <= Load + 0 + (Queued' + h)
      BY <1>1, <2>4, <2>5
  <2>7. Load + 0 + Queued \in Nat
      BY <1>1, SMT
  <2> QED
      BY <1>4, <2>2, <2>3, <2>5, <2>6, <2>7
<1> QED
    BY <1>6, <1>7, <1>8, <1>9 DEF PumpStep

(* The steps of the run's goroutine that move a message or a turn.         *)
LEMMA LoopCount ==
    ASSUME Types, Types', CountInv, StartOK
    PROVE  /\ BeginsFirstTurn => CountInv'
           /\ SendsFirst => CountInv'
           /\ ReceivesTurn => CountInv'
           /\ Completes \/ Closes => CountInv'
<1> USE DEF session, clients, feed, guest, daemon, bounds, ghosts
<1> DEFINE g == One(pump = "gate")
           h == One(pump' = "gate")
           s == One(loop = "first")
           t == One(loop' = "first")
<1>1. /\ Load \in Nat /\ Load' \in Nat /\ Queued \in Nat /\ Queued' \in Nat
      /\ g \in 0..1 /\ h \in 0..1 /\ s \in 0..1 /\ t \in 0..1
      /\ Busy \in Nat /\ Busy' \in Nat /\ Credit \in Nat /\ Credit' \in Nat
  <2>1. Load' \in Nat
    <3>1. Waiting(inbox') \in Nat /\ Turns' \in Nat
        BY CountsAreHits, HitsCount DEF Types
    <3> QED
        BY <3>1, SMT DEF Load, AtAgent
  <2>2. g \in 0..1 /\ h \in 0..1 /\ s \in 0..1 /\ t \in 0..1
      BY SMT DEF One
  <2> QED
      BY <2>1, <2>2, LoadCount, CountParts
<1>2. Busy = Load + g + Queued + s /\ Busy' = Load' + h + Queued' + t
    BY DEF Busy
<1>3. ASSUME UNCHANGED snd
      PROVE  Cardinality(Reserved') + 0 <= Cardinality(Reserved) + 0
  <2>1. Reserved' = Reserved /\ Cardinality(Reserved) \in Nat
      BY <1>3, CountParts DEF Reserved
  <2>2. \A n \in Nat : n + 0 <= n + 0
      BY SMT
  <2> QED
      BY <2>1, <2>2
<1>4. 0 \in 0..1 /\ 1 \in 0..1
    BY SMT
<1>5. SessRec(sess) /\ sess.pending \in Nat /\ early \in Nat
    BY DEF Types, SessRec
<1>6. ASSUME BeginsFirstTurn PROVE CountInv'
  <2>1. /\ loop = "begin" /\ loop' = "first" /\ UNCHANGED <<snd, early, restarts>>
        /\ UNCHANGED <<inbox, agent, out, input, pump>>
      BY <1>6 DEF BeginsFirstTurn, LoopTo, LoopMoves
  <2>2. sess'.pending = sess.pending + 1
      BY <1>5, <1>6, LoopFields
  <2>3. Load' = Load /\ Queued' = Queued /\ h = g /\ s = 0 /\ t = 1
    <3>1. s = 0 /\ t = 1
        BY <2>1, SMT DEF One
    <3> QED
        BY <2>1, <3>1, LoadSteps DEF Queued
  <2>4. Busy' + 0 <= Busy + 1
    <3>1. \A l, q \in Nat, w \in 0..1 : l + w + q + 1 + 0 <= (l + w + q + 0) + 1
        BY SMT
    <3> HIDE DEF g, h, s, t
    <3> QED
        BY <1>1, <1>2, <2>3, <3>1
  <2>5. Credit + 1 + 0 <= Credit' + 0 + 0
    <3>1. \A p, e \in Nat : (p + e) + 1 + 0 <= ((p + 1) + e) + 0 + 0
        BY SMT
    <3> QED
        BY <1>5, <2>1, <2>2, <3>1 DEF Credit
  <2>6. CountOK'
      BY <1>3, <1>4, <2>1, <2>4, <2>5, CountKept DEF CountInv
  <2>7. ReservedOK'
      BY <2>1 DEF CountInv, ReservedOK
  <2>8. UntrackedOK'
    <3>1. restarts = 0 /\ ~(0 > 0)
        BY <2>1, SMT DEF StartOK, Starting
    <3>2. loop' \notin {"prepare", "begin"}
        BY <2>1, SMT
    <3> QED
        BY <2>1, <3>1, <3>2 DEF UntrackedOK
  <2> QED
      BY <2>6, <2>7, <2>8 DEF CountInv
<1>7. ASSUME SendsFirst PROVE CountInv'
  <2>1. /\ loop = "first" /\ loop' \in {"recv", "remove"}
        /\ UNCHANGED <<snd, sess, early, restarts, input>>
        /\ pump' = pump \/ pump' = "recv"
      BY <1>7 DEF SendsFirst, LoopTo, LoopMoves
  <2>2. Queued' = Queued /\ Load' <= Load + 1
      BY <1>7, <2>1, LoadSteps DEF Queued
  <2>3. h <= g /\ s = 1 /\ t = 0
      BY <2>1, SMT DEF One
  <2>4. Busy' <= Busy
    <3>1. \A l, k, q \in Nat, w, v \in 0..1 :
              l <= k + 1 /\ w <= v => l + w + q + 0 <= k + v + q + 1
        BY SMT
    <3> HIDE DEF g, h, s, t
    <3> QED
        BY <1>1, <1>2, <2>2, <2>3, <3>1
  <2>5. loop' \notin {"prepare", "begin"}
      BY <2>1, SMT
  <2> QED
      BY <2>1, <2>4, <2>5, CountQuiet
<1>8. ASSUME ReceivesTurn PROVE CountInv'
  <2>1. /\ loop = "recv" /\ loop' = "deliver" /\ UNCHANGED <<snd, early, restarts, input, pump>>
        /\ sess' = IF restarts = 0 THEN LowerPending(sess) ELSE sess
      BY <1>8 DEF ReceivesTurn, LoopTo, LoopMoves
  <2>2. Queued' = Queued /\ Load' + 1 = Load /\ h = g
      BY <1>8, <2>1, LoadSteps DEF Queued
  <2>3. s = 0 /\ t = 0
      BY <2>1, SMT DEF One
  <2>4. Busy' + 1 <= Busy + 0
    <3>1. \A l, k, q \in Nat, w \in 0..1 :
              l + 1 = k => l + w + q + 0 + 1 <= (k + w + q + 0) + 0
        BY SMT
    <3> HIDE DEF g, h, s, t
    <3> QED
        BY <1>1, <1>2, <2>2, <2>3, <3>1
  <2>5. sess'.turns = sess.turns
      BY <1>5, <2>1, SessionFields
  <2>6. sess.pending <= sess'.pending + 1 /\ sess'.pending \in Nat
    <3>1. LowerPending(sess).pending = IF sess.pending > 0 THEN sess.pending - 1 ELSE 0
        BY <1>5, SessionFields
    <3>2. sess.pending <= LowerPending(sess).pending + 1 /\ LowerPending(sess).pending \in Nat
        BY <1>5, <3>1, SMT
    <3>3. sess.pending <= sess.pending + 1
        BY <1>5, SMT
    <3> QED
        BY <1>5, <2>1, <3>2, <3>3
  <2>7. Credit + 0 + 0 <= Credit' + 0 + 1
    <3>1. \A p, q, e \in Nat : p <= q + 1 => (p + e) + 0 + 0 <= (q + e) + 0 + 1
        BY SMT
    <3> QED
        BY <1>5, <2>1, <2>6, <3>1 DEF Credit
  <2>8. CountOK'
      BY <1>3, <1>4, <2>1, <2>4, <2>7, CountKept DEF CountInv
  <2>9. loop' \notin {"prepare", "begin"}
      BY <2>1, SMT
  <2>10. ReservedOK' /\ UntrackedOK'
      BY <2>1, <2>5, <2>9 DEF CountInv, ReservedOK, UntrackedOK
  <2> QED
      BY <2>8, <2>10 DEF CountInv
<1>9. ASSUME Completes \/ Closes PROVE CountInv'
  <2>1. /\ loop' \in {"remove", "gone"} /\ UNCHANGED <<snd, early, restarts, pump>>
        /\ input' = input \/ input' = <<>>
      BY <1>9 DEF Completes, Closes, LoopTo, LoopMoves
  <2>2. sess'.pending = sess.pending /\ sess'.turns = sess.turns
      BY <1>5, <1>9, LoopFields DEF Completes
  <2>3. Queued' <= Queued
    <3>1. CASE input' = input
        BY <1>1, <3>1, SMT DEF Queued
    <3>2. CASE input' = <<>>
      <4>1. Queued' = 0
          BY <3>2, HitsEmpty, CountParts
      <4> QED
          BY <1>1, <4>1, SMT
    <3> QED
        BY <2>1, <3>1, <3>2
  <2>4. Load' <= Load
    <3>1. \A n \in Nat : 0 <= n
        BY SMT
    <3> QED
        BY <1>1, <1>9, <3>1, LoadSteps
  <2>5. h = g /\ t = 0
    <3>1. t = 0
        BY <2>1, SMT DEF One
    <3> QED
        BY <2>1, <3>1
  <2>6. Busy' <= Busy
    <3>1. \A l, k, q, r \in Nat, w, v \in 0..1 :
              l <= k /\ q <= r => l + w + q + 0 <= k + w + r + v
        BY SMT
    <3> HIDE DEF g, h, s, t
    <3> QED
        BY <1>1, <1>2, <2>3, <2>4, <2>5, <3>1
  <2>7. loop' \notin {"prepare", "begin"}
      BY <2>1, SMT
  <2> QED
      BY <2>1, <2>2, <2>6, <2>7, CountQuiet
<1> QED
    BY <1>6, <1>7, <1>8, <1>9

(* A step loses no turn.                                                   *)
LEMMA CountStep ==
    ASSUME Types, Types', CountInv, StartOK, [Next]_vars
    PROVE  CountInv'
<1> USE DEF session, clients, feed, guest, daemon, bounds, ghosts
<1>1. SessRec(sess) /\ "eof" \in Frames
    BY DEF Types, Frames
<1>2. ASSUME StopTimesOut \/ \E p \in Senders : SendFails(p) PROVE CountInv'
    BY <1>2, FailsCount, SenderKinds DEF StopTimesOut, SendFails
<1>3. ASSUME NEW p \in Senders, SendQueued(p) PROVE CountInv'
    BY <1>3, QueuedCount
<1>4. ASSUME NEW k \in Frames, CreatorFrame(k) PROVE CountInv'
    BY <1>4, ReserveCount, SenderKinds DEF CreatorFrame, CreatorReceives
<1>5. ASSUME NEW c \in Clients, NEW k \in Frames, AttachFrame(c, k) PROVE CountInv'
    BY <1>5, ReserveCount, SenderKinds DEF AttachFrame
<1>6. ASSUME CreatorHalfCloses PROVE CountInv'
  <2>1. CASE UNCHANGED <<snd, sess>>
      BY <1>6, <2>1, CountStill DEF CreatorHalfCloses
  <2>2. CASE Reserve(Creator, "eof")
      BY <1>1, <1>6, <2>2, ReserveCount, SenderKinds DEF CreatorHalfCloses, CreatorReceives
  <2> QED
      BY <1>6, <2>1, <2>2 DEF CreatorHalfCloses
<1>7. ASSUME StopBegins \/ StopDecides PROVE CountInv'
  <2>1. CASE UNCHANGED <<snd, sess>>
      BY <1>7, <2>1, CountStill DEF StopBegins, StopDecides
  <2>2. CASE StopDecides /\ Reserve(Stopper, "eof")
      BY <1>1, <2>2, ReserveCount, SenderKinds DEF StopDecides
  <2> QED
      BY <1>7, <2>1, <2>2 DEF StopBegins, StopDecides
<1>8. ASSUME CreatorLost \/ CreatorReceiveFails \/ Shutdown \/ Finished \/ UNCHANGED vars
      PROVE  CountInv'
    BY <1>8, CountStill DEF CreatorLost, CreatorReceiveFails, Shutdown, Finished, vars
<1>9. ASSUME NEW c \in Clients, AttachFinds(c) \/ AttachSubscribes(c) \/ AttachOutput(c)
                                  \/ AttachEnds(c)
      PROVE  CountInv'
    BY <1>9, CountStill DEF AttachFinds, AttachSubscribes, AttachOutput, AttachEnds
<1>10. ASSUME CreatorReleases \/ \E c \in Clients : AttachAcquires(c) \/ AttachReleases(c)
       PROVE  CountInv'
  <2>1. /\ sess' \in {sess, Acquired(sess), Released(sess)}
        /\ UNCHANGED <<snd, early, restarts, inbox, agent, out, input, pump, loop>>
      BY <1>10 DEF CreatorReleases, AttachAcquires, AttachReleases
  <2>2. sess'.pending = sess.pending /\ sess'.turns = sess.turns
      BY <1>1, <2>1, SessionFields
  <2> QED
      BY <2>1, <2>2, CountStill
<1>11. ASSUME PumpStep \/ AgentStep PROVE CountInv'
  <2>1. UNCHANGED <<sess, snd, early, restarts, loop>>
      BY <1>11 DEF PumpStep, AgentStep, PumpTakes, PumpSeesClose, PumpForwards, PumpCanceled,
                   AgentReads, AgentKilled, AgentTurnEnds, WatchStops
  <2> QED
      BY <1>11, <2>1, PassedOn, CountQuiet
<1>12. ASSUME \/ Opens \/ PrepareFails \/ Delivers \/ ReceivesResult \/ ReceiveFails
              \/ Disconnects \/ Removes
       PROVE  CountInv'
  <2>1. /\ loop' \in {"begin", "complete", "recv", "remove", "close"}
        /\ loop' = "begin" => loop = "prepare"
        /\ UNCHANGED <<sess, snd, early, restarts, inbox, agent, out, input, pump>>
    <3>1. "begin" \notin {"complete", "recv", "remove", "close"}
        BY SMT
    <3> QED
        BY <1>12, <3>1 DEF Opens, PrepareFails, Delivers, ReceivesResult, ReceiveFails,
                   Disconnects, Removes, LoopTo, LoopMoves
  <2>2. loop' \notin {"prepare", "first"}
      BY <2>1, SMT
  <2> QED
      BY <2>1, <2>2, CountStill
<1>13. ASSUME Resumes PROVE CountInv'
  <2>1. /\ loop' \in {"recv", "remove", "complete"} /\ (pump' = pump \/ pump' = "recv")
        /\ UNCHANGED <<snd, early, restarts, inbox, agent, out, input>>
      BY <1>13 DEF Resumes, LoopTo, LoopMoves
  <2>2. loop' \notin {"prepare", "first"} /\ loop' # "begin" /\ "recv" # "gate"
      BY <2>1, SMT
  <2>3. sess'.pending = sess.pending /\ sess'.turns = sess.turns
      BY <1>1, <1>13, LoopFields
  <2> QED
      BY <2>1, <2>2, <2>3, CountStill
<1>14. ASSUME BeginsFirstTurn \/ SendsFirst \/ ReceivesTurn \/ Completes \/ Closes
       PROVE  CountInv'
    BY <1>14, LoopCount
<1>15. ASSUME Restart PROVE CountInv'
  <2>1. /\ restarts' = restarts + 1 /\ sess' = NewSession("created")
        /\ snd' = [p \in Senders |-> Quiet]
      BY <1>15 DEF Restart
  <2>2. restarts' # 0
      BY <2>1, SMT DEF Types
  <2>3. ~Quiet.reserved /\ ~NewSession("created").turns
      BY SMT DEF Quiet, NewSession
  <2> QED
      BY <2>1, <2>2, <2>3 DEF CountInv, ReservedOK, CountOK, UntrackedOK
<1> QED
    BY <1>2, <1>3, <1>4, <1>5, <1>6, <1>7, <1>8, <1>9, <1>10, <1>11, <1>12, <1>13,
       <1>14, <1>15 DEF Next, SenderStep, CreatorStep, AttachStep, LoopStep

(* At the start.                                                           *)
LEMMA InitCount ==
    ASSUME Init
    PROVE  CountInv
<1>1. /\ restarts = 0 /\ inbox = <<>> /\ out = <<>> /\ agent = "idle" /\ pump = "none"
      /\ loop = "prepare" /\ input = <<>> /\ early = 0 /\ snd = [p \in Senders |-> Quiet]
    BY DEF Init
<1>2. sess.pending = 0 /\ ~sess.turns
    BY SMT DEF Init, NewSession
<1>3. ~Quiet.reserved
    BY SMT DEF Quiet
<1>4. ReservedOK /\ UntrackedOK
    BY <1>1, <1>2, <1>3 DEF ReservedOK, UntrackedOK
<1>5. Waiting(inbox) = 0 /\ Turns = 0
    BY <1>1, HitsEmpty, CountsAreHits
<1>6. AtAgent = 0
    BY <1>1, <1>5, SMT DEF AtAgent
<1>7. One(pump = "gate") = 0 /\ One(loop = "first") = 0
    BY <1>1, SMT DEF One
<1>8. Queued = 0
  <2>1. {i \in DOMAIN input : input[i].kind = "msg"} = {}
      BY <1>1, SMT
  <2> QED
      BY <2>1, FS_EmptySet DEF Queued
<1>9. Cardinality(Reserved) = 0
  <2>1. Reserved = {}
      BY <1>1, <1>3 DEF Reserved
  <2> QED
      BY <2>1, FS_EmptySet
<1>10. 0 + 0 + 0 + 0 + 0 + 0 <= 0 + 0
    BY SMT
<1>11. CountOK
    BY <1>1, <1>2, <1>5, <1>6, <1>7, <1>8, <1>9, <1>10 DEF CountOK
<1> QED
    BY <1>4, <1>11 DEF CountInv

-----------------------------------------------------------------------------
(***************************************************************************)
(* The theorems.                                                           *)
(***************************************************************************)

(* Every step keeps the types.                                             *)
LEMMA TypesStep ==
    ASSUME Types, SubsOK, [Next]_vars
    PROVE  Types'
<1>1. ASSUME StopTimesOut \/ \E p \in Senders : SenderStep(p) PROVE Types'
    BY <1>1, SenderTypes, SenderKinds DEF SenderStep
<1>2. ASSUME \/ CreatorStep \/ CreatorHalfCloses \/ CreatorLost \/ StopBegins \/ StopDecides
             \/ \E k \in Frames : CreatorFrame(k) \/ \E c \in Clients : AttachFrame(c, k)
             \/ \E c \in Clients : AttachFinds(c) \/ AttachStep(c) \/ AttachEnds(c)
      PROVE  Types'
    BY <1>2, ClientTypes DEF CreatorStep
<1> QED
    BY <1>1, <1>2, RunTypes DEF Next

(* The invariant of the session holds in every state.                      *)
THEOREM SessionInvariant == Spec => []SessionInv
<1>1. ASSUME Init PROVE SessionInv
  <2>1. SubsOK
    <3>1. "idle" # "open"
        BY SMT
    <3> QED
        BY <1>1, <3>1 DEF Init, SubsOK
  <2> QED
      BY <1>1, <2>1, InitTypes, InitTurn, InitLease, InitCount
         DEF SessionInv, TurnInv, LeaseInv, CountInv
<1>2. ASSUME SessionInv, [Next]_vars PROVE SessionInv'
  <2>1. Types /\ SubsOK /\ TurnInv /\ LeaseInv /\ CountInv /\ StartOK
      BY <1>2 DEF SessionInv, TurnInv, LeaseInv, CountInv
  <2>2. Types'
      BY <1>2, <2>1, TypesStep
  <2>3. SubsOK'
      BY <1>2, <2>1, SubsStep
  <2>4. LeaseInv'
      BY <1>2, <2>1, LeaseStep
  <2>5. StartOK' /\ TurnOK'
      BY <1>2, <2>1, <2>2, StartStep, TurnStep
  <2>6. CountInv'
      BY <1>2, <2>1, <2>2, CountStep
  <2> QED
      BY <2>2, <2>3, <2>4, <2>5, <2>6 DEF SessionInv, LeaseInv, CountInv
<1> QED
    BY <1>1, <1>2, PTL DEF Spec

(* Input reaches the agent in the order in which its senders held the      *)
(* lease, because attachment.Close waits for a Send under way.             *)
THEOREM LeaseOrder == Spec => []InputInLeaseOrder
<1>1. SessionInv => InputInLeaseOrder
    BY DEF SessionInv
<1> QED
    BY <1>1, SessionInvariant, PTL

(* turnReady gives the agent one message at a time, plus at most one for   *)
(* every restart that resumed the run.                                     *)
THEOREM OneTurn == Spec => []OneTurnAtATime
<1>1. ASSUME SessionInv PROVE OneTurnAtATime
  <2>1. Types /\ TurnOK
      BY <1>1 DEF SessionInv
  <2>2. AtAgent \in Nat /\ Turns \in Nat /\ restarts \in Nat
      BY <2>1, LoadCount DEF Types
  <2> DEFINE t == IF token THEN 1 ELSE 0
             b == One(loop \in {"deliver", "reopen"})
  <2>3. One(token) = t /\ t \in 0..1 /\ b \in 0..1
    <3>1. b \in 0..1 /\ 0 \in 0..1 /\ 1 \in 0..1
        BY SMT DEF One
    <3> QED
        BY <3>1 DEF One
  <2>4. AtAgent + Turns + t + b <= 1 + restarts
      BY <2>1, <2>3 DEF TurnOK
  <2>5. \A x, y, r \in Nat, u, v \in 0..1 : x + y + u + v <= 1 + r => x + u <= 1 + r
      BY SMT
  <2>6. AtAgent + t <= 1 + restarts
      <3> HIDE DEF t, b
      <3> QED
          BY <2>2, <2>3, <2>4, <2>5
  <2> QED
      BY <2>6 DEF OneTurnAtATime
<1> QED
    BY <1>1, SessionInvariant, PTL

(* What a client takes from its subscription has no gap, and Publish only  *)
(* loses output for a client it dropped.                                   *)
THEOREM NoGapInOutput == Spec => []OutputHasNoGap
<1>1. SessionInv => OutputHasNoGap
    BY DEF SessionInv, SubsOK, NoGap, OutputHasNoGap
<1> QED
    BY <1>1, SessionInvariant, PTL

(* StopInteractiveRun closes a session only when promptTurnsPending covers *)
(* every message that is queued or worked on.                              *)
THEOREM StopCountsTurns == Spec => TurnsAreCounted
<1> USE DEF session, clients, feed, guest, daemon, bounds, ghosts
<1>1. ASSUME SessionInv, [Next]_vars, stop = "decide", stop' = "send"
      PROVE  Outstanding <= early
  <2>1. StopDecides
    <3>1. "send" \notin {"decide", "cancel", "eof", "idle"}
        BY SMT
    <3>2. ~(StopTimesOut \/ \E p \in Senders : SenderStep(p))
        BY <1>1, <3>1 DEF StopTimesOut, SenderStep, SendFails, SendQueued, Fails, AfterFailure
    <3>3. ~\E k \in Frames : CreatorFrame(k) \/ \E c \in Clients : AttachFrame(c, k)
        BY <1>1, <3>1 DEF CreatorFrame, AttachFrame
    <3>4. ~(CreatorStep \/ CreatorHalfCloses \/ CreatorLost)
        BY <1>1, <3>1 DEF CreatorStep, CreatorReceiveFails, CreatorReleases,
                          CreatorHalfCloses, CreatorLost
    <3>5. ~\E c \in Clients : AttachFinds(c) \/ AttachStep(c) \/ AttachEnds(c)
        BY <1>1, <3>1 DEF AttachFinds, AttachStep, AttachAcquires, AttachSubscribes,
                          AttachOutput, AttachReleases, AttachEnds
    <3>6. ~(PumpStep \/ AgentStep)
        BY <1>1, <3>1 DEF PumpStep, AgentStep, PumpTakes, PumpSeesClose, PumpForwards,
                          PumpCanceled, AgentReads, AgentKilled, AgentTurnEnds, WatchStops
    <3>7. ~(LoopStep \/ PrepareFails \/ ReceiveFails)
        BY <1>1, <3>1 DEF LoopStep, Opens, PrepareFails, BeginsFirstTurn, SendsFirst,
                          ReceivesTurn, Delivers, ReceivesResult, ReceiveFails, Disconnects,
                          Completes, Removes, Closes, Resumes, LoopTo, LoopMoves
    <3>8. ~(StopBegins \/ Shutdown \/ Restart \/ Finished \/ UNCHANGED vars)
        BY <1>1, <3>1 DEF StopBegins, Shutdown, Restart, Finished, vars
    <3> QED
        BY <1>1, <3>2, <3>3, <3>4, <3>5, <3>6, <3>7, <3>8 DEF Next
  <2>2. sess.turns /\ sess.pending = 0
    <3>1. "send" # "cancel"
        BY SMT
    <3> QED
        BY <1>1, <2>1, <3>1 DEF StopDecides, ClosesGracefully
  <2>3. Types /\ CountOK /\ UntrackedOK
      BY <1>1 DEF SessionInv
  <2>4. restarts = 0
    <3>1. restarts \in Nat /\ ~(restarts > 0)
        BY <2>2, <2>3 DEF Types, UntrackedOK
    <3> QED
        BY <3>1, SMT
  <2> DEFINE g == One(pump = "gate")
             f == One(loop = "first")
             m == Cardinality(Reserved)
  <2>5. AtAgent + g + Queued + Turns + m + f <= 0 + early
      BY <2>2, <2>3, <2>4 DEF CountOK
  <2>6. /\ AtAgent \in Nat /\ Queued \in Nat /\ Turns \in Nat /\ early \in Nat
        /\ g \in Nat /\ f \in Nat /\ m \in Nat
    <3>1. g \in Nat /\ f \in Nat
        BY SMT DEF One
    <3>2. m \in Nat
      <4>1. Reserved \subseteq Senders
          BY DEF Reserved
      <4> QED
          BY <4>1, SendersFinite, FS_Subset, FS_CardinalityType
    <3>3. Queued \in Nat
        BY <2>3, QueuedIsNat
    <3> QED
        BY <2>3, <3>1, <3>2, <3>3, LoadCount DEF Types
  <2>7. Outstanding = AtAgent + g + Queued
      BY DEF Outstanding, Queued, One
  <2> HIDE DEF g, f, m
  <2>8. AtAgent + g + Queued <= early
      BY <2>5, <2>6, SMT
  <2> QED
      BY <2>7, <2>8
<1>2. SessionInv /\ [Next]_vars => [stop = "decide" /\ stop' = "send" => Outstanding <= early]_vars
    BY <1>1
<1> QED
    BY <1>2, SessionInvariant, PTL DEF Spec, TurnsAreCounted

(* A daemon that shuts down sends a supervised task nothing more.          *)
THEOREM ShutdownSpares == Spec => ShutdownSparesTask
<1> USE DEF session, clients, feed, guest, daemon, bounds, ghosts
<1> DEFINE A == Supervised /\ shutdown /\ run' = "running" /\ inbox' # inbox
                  => inbox' = Tail(inbox)
<1>1. ASSUME [Next]_vars, Supervised, shutdown, run' = "running", inbox' # inbox
      PROVE  inbox' = Tail(inbox)
  <2>1. ~CanSend /\ "ended" # "running"
      BY <1>1, SMT DEF CanSend
  <2>2. \A k, box : Told(k) = inbox /\ WithClose(box) = box
      BY <2>1 DEF Told, WithClose
  <2>3. ~(StopTimesOut \/ \E p \in Senders : SenderStep(p))
      BY <1>1 DEF StopTimesOut, SenderStep, SendFails, SendQueued, Fails
  <2>4. ~\E k \in Frames : CreatorFrame(k) \/ \E c \in Clients : AttachFrame(c, k)
      BY <1>1 DEF CreatorFrame, AttachFrame
  <2>5. ~(CreatorStep \/ CreatorHalfCloses \/ CreatorLost)
      BY <1>1 DEF CreatorStep, CreatorReceiveFails, CreatorReleases, CreatorHalfCloses,
                  CreatorLost
  <2>6. ~\E c \in Clients : AttachFinds(c) \/ AttachStep(c) \/ AttachEnds(c)
      BY <1>1 DEF AttachFinds, AttachStep, AttachAcquires, AttachSubscribes,
                  AttachOutput, AttachReleases, AttachEnds
  <2>7. ~PumpStep
    <3>1. \A k : WithClose(Told(k)) = inbox /\ WithClose(inbox) = inbox /\ Told(k) = inbox
        BY <2>2
    <3>2. PumpTakes \/ PumpSeesClose \/ PumpCanceled => inbox' = inbox
      <4>1. PumpTakes => \/ inbox' = inbox \/ inbox' = WithClose(Told(Head(input).kind))
          BY DEF PumpTakes, PumpEnds, CloseSend
      <4>2. PumpSeesClose => inbox' = WithClose(Told("eof"))
          BY DEF PumpSeesClose, PumpEnds, CloseSend
      <4>3. PumpCanceled => inbox' = WithClose(inbox)
          BY DEF PumpCanceled, PumpEnds, CloseSend
      <4>4. /\ WithClose(Told(Head(input).kind)) = inbox /\ WithClose(Told("eof")) = inbox
            /\ WithClose(inbox) = inbox
          BY <3>1
      <4> QED
          BY <4>1, <4>2, <4>3, <4>4
    <3>3. PumpForwards => inbox' = inbox
      <4>1. Told("msg") = inbox /\ WithClose(inbox) = inbox
          BY <3>1
      <4>2. PumpForwards => inbox' = Told("msg") \/ inbox' = WithClose(inbox)
          BY DEF PumpForwards, PumpEnds, CloseSend
      <4> QED
          BY <4>1, <4>2
    <3> QED
        BY <1>1, <3>2, <3>3 DEF PumpStep
  <2>8. AgentStep => inbox' = Tail(inbox)
      BY <1>1 DEF AgentStep, AgentReads, AgentKilled, AgentTurnEnds, WatchStops
  <2>9. ~(LoopStep \/ PrepareFails \/ ReceiveFails)
      BY <1>1, <2>1, <2>2 DEF LoopStep, Opens, PrepareFails, BeginsFirstTurn, SendsFirst,
                  ReceivesTurn, Delivers, ReceivesResult, ReceiveFails, Disconnects,
                  Completes, Removes, Closes, Resumes, CloseSend
  <2>10. ~(StopBegins \/ StopDecides \/ Shutdown \/ Restart \/ Finished \/ UNCHANGED vars)
      BY <1>1 DEF StopBegins, StopDecides, Shutdown, Restart, Finished, vars
  <2> QED
      BY <1>1, <2>3, <2>4, <2>5, <2>6, <2>7, <2>8, <2>9, <2>10 DEF Next
<1>2. [Next]_vars => [A]_vars
    BY <1>1
<1> QED
    BY <1>2, PTL DEF Spec, ShutdownSparesTask
=============================================================================
