------------------------ MODULE CollabSession_proofs ------------------------
(***************************************************************************)
(* Who is joined holds the session, the status line is true, no attachment *)
(* outlives its socket and who has lost the circuit writes no more: for    *)
(* any browsers, users, edits and incidents, any MaxRejoins and MaxPending. *)
(*                                                                         *)
(* A step is one browser's, one connection's or both's, so the lemmas speak *)
(* of a session k, its connection s and the document D, and the last       *)
(* section puts them together.                                             *)
(***************************************************************************)
EXTENDS CollabSession, SequenceTheorems, TLAPS

(* The kinds of the values: E is the edits there are, V the viewers. *)

Access == {"none", "read", "write"}
Reasons == {"unauthorised", "overloaded", "gone"}
Codes == {"FORBIDDEN", "PAYLOAD_TOO_LARGE", "NOT_FOUND", "DATABASE_UNAVAILABLE", "CIRCUIT_TOO_LARGE"}

Ups(E, V) ==
  [type : {"authenticate"}, viewer : V \ {Anonymous}]
    \cup [type : {"join"}, since : SUBSET E]
    \cup [type : {"update"}, edits : SUBSET E]
    \cup [type : {"leave", "bye"}]

Downs(E, V) ==
  [type : {"ready"}, viewer : V]
    \cup [type : {"joined"}, access : {"read", "write"}, update : SUBSET E, vector : SUBSET E]
    \cup [type : {"update"}, edits : SUBSET E]
    \cup [type : {"left"}, reason : Reasons]
    \cup [type : {"refused"}, code : Codes]
    \cup [type : {"error", "close"}]

Attachments(E) == [access : Access, fresh : BOOLEAN, peer : BOOLEAN, queue : Seq(SUBSET E)]

Connections(E, V) ==
  [open : BOOLEAN, viewer : V, expired : BOOLEAN, busy : {"idle", "reading", "building", "checking"},
   since : SUBSET E, found : Access \cup {"unknown"}, att : Attachments(E),
   up : Seq(Ups(E, V)), down : Seq(Downs(E, V))]

Sessions(E, V) ==
  [status : {"connecting", "open", "reconnecting", "ended", "off"},
   ended : Reasons \cup {"none", "unavailable"}, reconciled : BOOLEAN,
   socket : {"none", "opening", "open"}, ready : BOOLEAN, asking : BOOLEAN, awaiting : BOOLEAN,
   joined : BOOLEAN, joinRequested : BOOLEAN, everJoined : BOOLEAN,
   access : Access, finished : BOOLEAN, retry : BOOLEAN,
   rejoin : BOOLEAN, rejoins : 0 .. MaxRejoins,
   doc : SUBSET E, bridged : BOOLEAN, carried : BOOLEAN,
   pending : SUBSET E, flush : BOOLEAN, out : Seq(Ups(E, V))]

------------------------------------------------------------------------------
(* What the frames on the wire are to the browser. *)

\* It ends what the browser has of the session, or asks for it again.
Ending(f) ==
  \/ f.type \in {"left", "close"}
  \/ f.type = "refused" /\ f.code \in {"NOT_FOUND", "DATABASE_UNAVAILABLE", "CIRCUIT_TOO_LARGE"}
EndsAfter(d, i) == \E j \in DOMAIN d : j > i /\ Ending(d[j])
Closing(d) == d # <<>> /\ d[Len(d)].type = "close"

\* It takes back that the browser may write, or that all it wrote arrived.
Denial(f) == f.type = "refused" /\ f.code \in {"FORBIDDEN", "PAYLOAD_TOO_LARGE"}
Denied(d) == \E j \in DOMAIN d : Denial(d[j])

\* It carries edits, and says what the document holds.
Tells(f) == f.type \in {"joined", "update"}
Content(f) == IF f.type = "joined" THEN f.update ELSE IF f.type = "update" THEN f.edits ELSE {}
Claims(f) == IF f.type = "joined" THEN f.update \cup f.vector ELSE Content(f)
Comes(d, x, i) == \E j \in DOMAIN d : j >= i /\ x \in Content(d[j])

\* And to the relay.
Upload(f) == IF f.type = "update" THEN f.edits ELSE {}
Since(f) == IF f.type = "join" THEN f.since ELSE {}
Goes(u, x) == \E n \in DOMAIN u : x \in Upload(u[n])
Asks(u, type) == \E n \in DOMAIN u : u[n].type = type
Waits(q, x) == \E m \in DOMAIN q : x \in q[m]

\* The answer to a token, which is not the greeting of an accepted socket.
Answer(f) == f.type = "error" \/ (f.type = "ready" /\ f.viewer # Anonymous)
AnswerComes(d) == \E j \in DOMAIN d : Answer(d[j])
JoinedComes(d) == \E j \in DOMAIN d : d[j].type = "joined"

------------------------------------------------------------------------------
(* The inductive invariant. *)

\* What a session is by itself.
SessionInd(k) ==
  /\ k.pending \subseteq k.doc
  /\ k.finished <=> k.status \in {"ended", "off"}
  /\ k.finished => k.socket = "none" /\ ~k.asking /\ ~k.rejoin /\ ~k.joined /\ ~k.flush
  /\ k.ready <=> k.socket = "open"
  /\ k.socket # "open" /\ ~k.finished => ~k.joinRequested /\ ~k.joined /\ ~k.rejoin
  /\ k.joined => k.status = "open" /\ k.bridged
  /\ k.retry <=> k.socket = "none" /\ ~k.finished

ClientInd(k) == k.out = <<>> /\ SessionInd(k)

\* What a connection is by itself, with the document D, to a browser that
\* holds doc.
ConnectionInd(s, D, doc) ==
  /\ ~s.open => s.up = <<>> /\ ~s.att.peer
  /\ Attached(s) => s.att.access # "none"
  /\ s.att.queue # <<>> => s.att.peer
  /\ Len(s.att.queue) <= MaxPending
  /\ s.att.peer => s.busy # "building"
  /\ Attached(s) /\ ~s.att.peer => s.busy = "building"
  /\ \A m \in DOMAIN s.att.queue : s.att.queue[m] \subseteq D
  /\ s.since \subseteq doc
  /\ \A n \in DOMAIN s.up : Upload(s.up[n]) \subseteq doc /\ Since(s.up[n]) \subseteq doc

\* Who is joined, or was told something, is a peer until told otherwise.
PeerInd(k, s) ==
  /\ k.joined => s.att.peer \/ EndsAfter(s.down, 0)
  /\ \A i \in DOMAIN s.down : Tells(s.down[i]) => s.att.peer \/ EndsAfter(s.down, i)

Reaches(doc, s, x, i) == x \in doc \/ Comes(s.down, x, i) \/ Waits(s.att.queue, x)

\* What the document holds reaches whoever is joined, or will be.
CompleteInd(k, s, D) ==
  /\ k.joined /\ ~EndsAfter(s.down, 0) => \A x \in D : Reaches(k.doc, s, x, 1)
  /\ \A i \in DOMAIN s.down :
       s.down[i].type = "joined" /\ ~EndsAfter(s.down, i) => \A x \in D : Reaches(k.doc, s, x, i)

\* What a browser is told of, the document holds.
GenuineInd(s, D) ==
  \A j \in DOMAIN s.down : ~EndsAfter(s.down, j) => Claims(s.down[j]) \subseteq D

\* What a writer holds, the document holds or will.
GivenInd(k, s, D) ==
  /\ k.joined /\ k.access = "write" /\ k.reconciled
  /\ ~EndsAfter(s.down, 0) /\ ~Denied(s.down)
  => \A x \in k.doc : x \in D \/ x \in k.pending \/ Goes(s.up, x)

JoinOnItsWay(s) == Asks(s.up, "join") \/ s.busy = "reading" \/ (s.busy = "building" /\ Attached(s))

\* Who is on the way into the session waits for its token or for an answer.
AnsweredInd(k, s) ==
  k.status \in {"connecting", "reconnecting"} /\ ~k.rejoin /\ ~EndsAfter(s.down, 0) =>
    /\ \/ k.asking \/ k.joinRequested
       \/ k.awaiting /\ (Asks(s.up, "authenticate") \/ AnswerComes(s.down))
    /\ k.joinRequested => JoinOnItsWay(s) \/ JoinedComes(s.down)

Live(k, s, D) ==
  PeerInd(k, s) /\ CompleteInd(k, s, D) /\ GenuineInd(s, D) /\ GivenInd(k, s, D) /\ AnsweredInd(k, s)

\* A session and the connection it reads from.
Link(k, s, D) ==
  /\ \A n \in DOMAIN s.up : s.up[n].type \in {"authenticate", "join", "update"}
  /\ IF s.open THEN Live(k, s, D) ELSE Closing(s.down)

\* Whom a socket may be authenticated as, and what may be found on it: of what
\* users did who had lost the circuit, each has only their own.
Own(c) == {Anonymous, setting.people[c]}
Fit(c) == {e \in edited : \A w \in barred : w[2] = e => w[1] = setting.people[c]}

Viewers == {Anonymous} \cup {setting.people[c] : c \in Clients}

Kinds ==
  /\ document \subseteq edited
  /\ sessions \in [Clients -> Sessions(edited, Viewers)]
  /\ connections \in [Clients -> Seq(Connections(edited, Viewers))]
  /\ \A c \in Clients : sessions[c] \in Sessions(Fit(c), Own(c))
  /\ \A id \in Ids : At(id) \in Connections(Fit(id[1]), Own(id[1]))

\* No decision is kept, or is on its way, that lets in who has lost the circuit,
\* or nobody in particular; and what waits for a decision that will not come is
\* an update with nothing in it that B keeps out.
Guarded(s, B) ==
  /\ s.open /\ s.busy = "checking" => s.up # <<>> /\ Head(s.up).type = "update"
  /\ s.found = "unknown" => s.busy = "checking"
  /\ s.viewer = Anonymous => s.att.access # "write" /\ s.found # "write"
  /\ \A w \in B : s.viewer = w[1] => ~(s.att.fresh /\ s.att.access = "write") /\ s.found # "write"
  /\ \A w \in B : s.open /\ s.busy = "checking" /\ s.found = "unknown" => w[2] \notin Upload(Head(s.up))

\* The circuit has an owner, who has not lost it; what is barred was done, and
\* is not in the document.
Allowed ==
  /\ grants = [owner |-> grants.owner, public |-> grants.public] /\ grants.owner \in Owners
  /\ \A w \in barred : w[1] # grants.owner /\ w[2] \in edited \ document
  /\ \A id \in Ids : Guarded(At(id), barred)

Linked(c) == sessions[c].socket = "open" => connections[c] # <<>> /\ Link(sessions[c], At(Current(c)), document)

IInv ==
  /\ Kinds
  /\ \A c \in Clients : ClientInd(sessions[c])
  /\ \A id \in Ids : ConnectionInd(At(id), document, sessions[id[1]].doc)
  /\ \A c \in Clients : Linked(c)
  /\ Allowed

------------------------------------------------------------------------------
(* Frames at the two ends of a wire. *)

\* A sequence with one more frame.
LEMMA AppendFacts ==
  ASSUME NEW T, NEW d \in Seq(T), NEW f \in T, NEW r, r = Append(d, f)
  PROVE  /\ r \in Seq(T) /\ Len(r) = Len(d) + 1 /\ DOMAIN r = 1 .. Len(d) + 1
         /\ Len(d) \in Nat /\ DOMAIN d = 1 .. Len(d)
         /\ \A i \in DOMAIN d : r[i] = d[i]
         /\ r[Len(d) + 1] = f
         /\ \A i \in DOMAIN r : i \in DOMAIN d \/ i = Len(d) + 1
         /\ r # <<>>
  BY AppendProperties, LenProperties, SMT

\* A sequence without its first frame.
LEMMA TailFacts ==
  ASSUME NEW T, NEW d \in Seq(T), d # <<>>, NEW r, r = Tail(d)
  PROVE  /\ r \in Seq(T) /\ Len(d) \in Nat \ {0} /\ Len(r) = Len(d) - 1
         /\ DOMAIN d = 1 .. Len(d) /\ DOMAIN r = 1 .. Len(d) - 1
         /\ Head(d) = d[1] /\ Head(d) \in T
         /\ \A i \in DOMAIN r : i + 1 \in DOMAIN d /\ r[i] = d[i + 1]
         /\ \A i \in DOMAIN d : i = 1 \/ (i - 1 \in DOMAIN r /\ d[i] = r[i - 1])
  BY HeadTailProperties, LenProperties, EmptySeq, SMT

\* Two sequences, one behind the other.
LEMMA ConcatFacts ==
  ASSUME NEW T, NEW u \in Seq(T), NEW v \in Seq(T), NEW r, r = u \o v
  PROVE  /\ r \in Seq(T)
         /\ \A i \in DOMAIN u : i \in DOMAIN r /\ r[i] = u[i]
         /\ \A i \in DOMAIN v : Len(u) + i \in DOMAIN r /\ r[Len(u) + i] = v[i]
         /\ \A i \in DOMAIN r : \/ i \in DOMAIN u /\ r[i] = u[i]
                                \/ i - Len(u) \in DOMAIN v /\ r[i] = v[i - Len(u)]
  BY ConcatProperties, LenProperties, SMT

\* What is told behind a frame: one more frame.
LEMMA EndsAppend ==
  ASSUME NEW T, NEW d \in Seq(T), NEW f \in T, NEW r, r = Append(d, f), NEW i \in Nat, i <= Len(d)
  PROVE  EndsAfter(r, i) <=> EndsAfter(d, i) \/ Ending(f)
<1>1. /\ DOMAIN r = 1 .. Len(d) + 1 /\ DOMAIN d = 1 .. Len(d) /\ Len(d) \in Nat
      /\ \A n \in DOMAIN d : r[n] = d[n] /\ n \in DOMAIN r
      /\ r[Len(d) + 1] = f /\ Len(d) + 1 \in DOMAIN r
      /\ \A n \in DOMAIN r : n \in DOMAIN d \/ n = Len(d) + 1
  BY AppendFacts, SMT
<1>2. ASSUME EndsAfter(r, i) PROVE EndsAfter(d, i) \/ Ending(f)
  BY <1>1, <1>2 DEF EndsAfter
<1>3. ASSUME EndsAfter(d, i) PROVE EndsAfter(r, i)
  BY <1>1, <1>3 DEF EndsAfter
<1>4. ASSUME Ending(f) PROVE EndsAfter(r, i)
  BY <1>1, <1>4, SMT DEF EndsAfter
<1> QED BY <1>2, <1>3, <1>4

\* And one frame less.
LEMMA EndsTail ==
  ASSUME NEW T, NEW d \in Seq(T), d # <<>>, NEW r, r = Tail(d)
  PROVE  /\ \A i \in Nat : EndsAfter(r, i) <=> EndsAfter(d, i + 1)
         /\ EndsAfter(d, 0) <=> EndsAfter(r, 0) \/ Ending(Head(d))
<1>1. /\ Len(d) \in Nat \ {0} /\ DOMAIN d = 1 .. Len(d) /\ DOMAIN r = 1 .. Len(d) - 1
      /\ Head(d) = d[1]
      /\ \A i \in DOMAIN r : i + 1 \in DOMAIN d /\ r[i] = d[i + 1]
      /\ \A i \in DOMAIN d : i = 1 \/ (i - 1 \in DOMAIN r /\ d[i] = r[i - 1])
  BY TailFacts
<1>2. ASSUME NEW i \in Nat, EndsAfter(r, i) PROVE EndsAfter(d, i + 1)
  <2>1. PICK j \in DOMAIN r : j > i /\ Ending(r[j])
    BY <1>2 DEF EndsAfter
  <2>2. j + 1 \in DOMAIN d /\ j + 1 > i + 1 /\ Ending(d[j + 1])
    BY <1>1, <2>1, SMT
  <2> QED BY <2>2 DEF EndsAfter
<1>3. ASSUME NEW i \in Nat, EndsAfter(d, i + 1) PROVE EndsAfter(r, i)
  <2>1. PICK j \in DOMAIN d : j > i + 1 /\ Ending(d[j])
    BY <1>3 DEF EndsAfter
  <2>2. j - 1 \in DOMAIN r /\ j - 1 > i /\ Ending(r[j - 1])
    BY <1>1, <2>1, SMT
  <2> QED BY <2>2 DEF EndsAfter
<1>4. ASSUME EndsAfter(d, 0) PROVE EndsAfter(r, 0) \/ Ending(Head(d))
  <2>1. PICK j \in DOMAIN d : j > 0 /\ Ending(d[j])
    BY <1>4 DEF EndsAfter
  <2>2. CASE j = 1
    BY <1>1, <2>1, <2>2
  <2>3. CASE j # 1
    <3>1. j - 1 \in DOMAIN r /\ j - 1 > 0 /\ Ending(r[j - 1])
      BY <1>1, <2>1, <2>3, SMT
    <3> QED BY <3>1 DEF EndsAfter
  <2> QED BY <2>2, <2>3
<1>5. ASSUME EndsAfter(r, 0) PROVE EndsAfter(d, 0)
  <2>1. EndsAfter(d, 1)
    BY <1>2, <1>5
  <2> QED BY <1>1, <2>1, SMT DEF EndsAfter
<1>6. ASSUME Ending(Head(d)) PROVE EndsAfter(d, 0)
  BY <1>1, <1>6, SMT DEF EndsAfter
<1> QED BY <1>2, <1>3, <1>4, <1>5, <1>6

\* What is carried stays carried behind one more frame, and comes nearer.
LEMMA ComesAppend ==
  ASSUME NEW T, NEW d \in Seq(T), NEW f \in T, NEW r, r = Append(d, f), NEW x, NEW i \in Nat, i <= Len(d) + 1
  PROVE  Comes(d, x, i) \/ x \in Content(f) => Comes(r, x, i)
<1>1. /\ DOMAIN r = 1 .. Len(d) + 1 /\ DOMAIN d = 1 .. Len(d) /\ Len(d) \in Nat
      /\ \A n \in DOMAIN d : r[n] = d[n] /\ n \in DOMAIN r
      /\ r[Len(d) + 1] = f /\ Len(d) + 1 \in DOMAIN r
  BY AppendFacts, SMT
<1>2. ASSUME Comes(d, x, i) PROVE Comes(r, x, i)
  BY <1>1, <1>2 DEF Comes
<1>3. ASSUME x \in Content(f) PROVE Comes(r, x, i)
  BY <1>1, <1>3, SMT DEF Comes
<1> QED BY <1>2, <1>3

\* And once the first frame is taken.
LEMMA ComesTail ==
  ASSUME NEW T, NEW d \in Seq(T), d # <<>>, NEW r, r = Tail(d), NEW x
  PROVE  /\ \A i \in Nat : Comes(d, x, i + 1) => Comes(r, x, i) \/ (i = 0 /\ x \in Content(Head(d)))
         /\ Comes(d, x, 1) => x \in Content(Head(d)) \/ Comes(r, x, 1)
<1>1. /\ Len(d) \in Nat \ {0} /\ DOMAIN d = 1 .. Len(d) /\ DOMAIN r = 1 .. Len(d) - 1
      /\ Head(d) = d[1]
      /\ \A i \in DOMAIN d : i = 1 \/ (i - 1 \in DOMAIN r /\ d[i] = r[i - 1])
  BY TailFacts
<1>2. ASSUME NEW i \in Nat, Comes(d, x, i + 1) PROVE Comes(r, x, i) \/ (i = 0 /\ x \in Content(Head(d)))
  <2>1. PICK j \in DOMAIN d : j >= i + 1 /\ x \in Content(d[j])
    BY <1>2 DEF Comes
  <2>2. CASE j = 1
    BY <1>1, <2>1, <2>2, SMT
  <2>3. CASE j # 1
    <3>1. j - 1 \in DOMAIN r /\ j - 1 >= i /\ x \in Content(r[j - 1])
      BY <1>1, <2>1, <2>3, SMT
    <3> QED BY <3>1 DEF Comes
  <2> QED BY <2>2, <2>3
<1>3. ASSUME Comes(d, x, 1) PROVE x \in Content(Head(d)) \/ Comes(r, x, 1)
  <2>1. PICK j \in DOMAIN d : j >= 1 /\ x \in Content(d[j])
    BY <1>3 DEF Comes
  <2>2. CASE j = 1
    BY <1>1, <2>1, <2>2
  <2>3. CASE j # 1
    <3>1. j - 1 \in DOMAIN r /\ j - 1 >= 1 /\ x \in Content(r[j - 1])
      BY <1>1, <2>1, <2>3, SMT
    <3> QED BY <3>1 DEF Comes
  <2> QED BY <2>2, <2>3
<1> QED BY <1>2, <1>3

\* The other things that are found on a wire, behind one more frame.
LEMMA FoundAppend ==
  ASSUME NEW T, NEW d \in Seq(T), NEW f \in T, NEW r, r = Append(d, f)
  PROVE  /\ Denied(r) <=> Denied(d) \/ Denial(f)
         /\ AnswerComes(r) <=> AnswerComes(d) \/ Answer(f)
         /\ JoinedComes(r) <=> JoinedComes(d) \/ f.type = "joined"
         /\ \A type : Asks(r, type) <=> Asks(d, type) \/ f.type = type
         /\ \A x : Goes(r, x) <=> Goes(d, x) \/ x \in Upload(f)
         /\ \A x : Waits(r, x) <=> Waits(d, x) \/ x \in f
<1>1. /\ \A n \in DOMAIN d : r[n] = d[n] /\ n \in DOMAIN r
      /\ r[Len(d) + 1] = f /\ Len(d) + 1 \in DOMAIN r
      /\ \A n \in DOMAIN r : n \in DOMAIN d \/ n = Len(d) + 1
  BY AppendFacts, SMT
<1>2. Denied(r) <=> Denied(d) \/ Denial(f)
  BY <1>1, Zenon DEF Denied
<1>3. AnswerComes(r) <=> AnswerComes(d) \/ Answer(f)
  BY <1>1, Zenon DEF AnswerComes
<1>4. JoinedComes(r) <=> JoinedComes(d) \/ f.type = "joined"
  BY <1>1, Zenon DEF JoinedComes
<1>5. ASSUME NEW type PROVE Asks(r, type) <=> Asks(d, type) \/ f.type = type
  BY <1>1, Zenon DEF Asks
<1>6. ASSUME NEW x PROVE Goes(r, x) <=> Goes(d, x) \/ x \in Upload(f)
  BY <1>1, Zenon DEF Goes
<1>7. ASSUME NEW x PROVE Waits(r, x) <=> Waits(d, x) \/ x \in f
  BY <1>1, Zenon DEF Waits
<1> QED BY <1>2, <1>3, <1>4, <1>5, <1>6, <1>7

\* And when the first frame is taken.
LEMMA FoundTail ==
  ASSUME NEW T, NEW d \in Seq(T), d # <<>>, NEW r, r = Tail(d)
  PROVE  /\ Denied(d) <=> Denied(r) \/ Denial(Head(d))
         /\ AnswerComes(d) <=> AnswerComes(r) \/ Answer(Head(d))
         /\ JoinedComes(d) <=> JoinedComes(r) \/ Head(d).type = "joined"
         /\ \A type : Asks(d, type) <=> Asks(r, type) \/ Head(d).type = type
         /\ \A x : Goes(d, x) <=> Goes(r, x) \/ x \in Upload(Head(d))
         /\ \A x : Waits(d, x) <=> Waits(r, x) \/ x \in Head(d)
<1>1. /\ 1 \in DOMAIN d /\ Head(d) = d[1]
      /\ \A i \in DOMAIN r : i + 1 \in DOMAIN d /\ r[i] = d[i + 1]
      /\ \A i \in DOMAIN d : i = 1 \/ (i - 1 \in DOMAIN r /\ d[i] = r[i - 1])
  BY TailFacts, SMT
<1>2. Denied(d) <=> Denied(r) \/ Denial(Head(d))
  BY <1>1, Zenon DEF Denied
<1>3. AnswerComes(d) <=> AnswerComes(r) \/ Answer(Head(d))
  BY <1>1, Zenon DEF AnswerComes
<1>4. JoinedComes(d) <=> JoinedComes(r) \/ Head(d).type = "joined"
  BY <1>1, Zenon DEF JoinedComes
<1>5. ASSUME NEW type PROVE Asks(d, type) <=> Asks(r, type) \/ Head(d).type = type
  BY <1>1, Zenon DEF Asks
<1>6. ASSUME NEW x PROVE Goes(d, x) <=> Goes(r, x) \/ x \in Upload(Head(d))
  BY <1>1, Zenon DEF Goes
<1>7. ASSUME NEW x PROVE Waits(d, x) <=> Waits(r, x) \/ x \in Head(d)
  BY <1>1, Zenon DEF Waits
<1> QED BY <1>2, <1>3, <1>4, <1>5, <1>6, <1>7

\* Behind other frames, what was asked is still asked.
LEMMA FoundConcat ==
  ASSUME NEW T, NEW u \in Seq(T), NEW v \in Seq(T), NEW r, r = u \o v
  PROVE  /\ \A type : Asks(r, type) <=> Asks(u, type) \/ Asks(v, type)
         /\ \A x : Goes(r, x) <=> Goes(u, x) \/ Goes(v, x)
<1>1. /\ \A i \in DOMAIN u : i \in DOMAIN r /\ r[i] = u[i]
      /\ \A i \in DOMAIN v : Len(u) + i \in DOMAIN r /\ r[Len(u) + i] = v[i]
      /\ \A i \in DOMAIN r : \/ i \in DOMAIN u /\ r[i] = u[i]
                             \/ i - Len(u) \in DOMAIN v /\ r[i] = v[i - Len(u)]
  BY ConcatFacts
<1>2. ASSUME NEW type PROVE Asks(r, type) <=> Asks(u, type) \/ Asks(v, type)
  BY <1>1, Zenon DEF Asks
<1>3. ASSUME NEW x PROVE Goes(r, x) <=> Goes(u, x) \/ Goes(v, x)
  BY <1>1, Zenon DEF Goes
<1> QED BY <1>2, <1>3

------------------------------------------------------------------------------
(* What the relay does to a connection leaves its browser linked. *)

\* The connection is not told anything: its peer may be sent more and the
\* document may grow by it; one who is no peer keeps whatever it had.
LEMMA LiveStays ==
  ASSUME NEW k, NEW s, NEW r, NEW D, NEW D2, Live(k, s, D),
         r.down = s.down,
         s.att.peer => /\ r.att.peer /\ D \subseteq D2
                       /\ \A x \in D2 : x \in D \/ x \in k.doc \/ Waits(r.att.queue, x)
                       /\ \A x \in D : Waits(s.att.queue, x) => Waits(r.att.queue, x)
                       /\ \A x \in k.doc : Goes(s.up, x) => Goes(r.up, x) \/ x \in D2,
         Asks(s.up, "authenticate") => Asks(r.up, "authenticate"),
         JoinOnItsWay(s) => JoinOnItsWay(r)
  PROVE  Live(k, r, D2)
<1>1. PeerInd(k, r)
  BY DEF Live, PeerInd
<1>2. CompleteInd(k, r, D2)
  <2>1. ASSUME NEW i \in DOMAIN s.down, s.down[i].type = "joined", ~EndsAfter(s.down, i), NEW x \in D2
        PROVE  Reaches(k.doc, r, x, i)
    <3>1. s.att.peer
      BY <2>1 DEF Live, PeerInd, Tells
    <3>2. x \in D => Reaches(k.doc, s, x, i)
      BY <2>1 DEF Live, CompleteInd
    <3> QED BY <2>1, <3>1, <3>2, Zenon DEF Reaches
  <2>2. ASSUME k.joined, ~EndsAfter(s.down, 0), NEW x \in D2
        PROVE  Reaches(k.doc, r, x, 1)
    <3>1. s.att.peer
      BY <2>2 DEF Live, PeerInd
    <3>2. x \in D => Reaches(k.doc, s, x, 1)
      BY <2>2 DEF Live, CompleteInd
    <3> QED BY <2>2, <3>1, <3>2, Zenon DEF Reaches
  <2> QED BY <2>1, <2>2 DEF CompleteInd
<1>3. GenuineInd(r, D2)
  <2>1. ASSUME NEW j \in DOMAIN s.down, ~EndsAfter(s.down, j) PROVE Claims(s.down[j]) \subseteq D2
    <3>1. CASE Tells(s.down[j])
      <4>1. s.att.peer
        BY <2>1, <3>1 DEF Live, PeerInd
      <4>2. Claims(s.down[j]) \subseteq D
        BY <2>1 DEF Live, GenuineInd
      <4> QED BY <4>1, <4>2
    <3>2. CASE ~Tells(s.down[j])
      BY <3>2 DEF Claims, Content, Tells
    <3> QED BY <3>1, <3>2
  <2> QED BY <2>1 DEF GenuineInd
<1>4. GivenInd(k, r, D2)
  <2>1. SUFFICES ASSUME k.joined, k.access = "write", k.reconciled, ~EndsAfter(s.down, 0), ~Denied(s.down),
                        NEW x \in k.doc
                 PROVE  x \in D2 \/ x \in k.pending \/ Goes(r.up, x)
    BY DEF GivenInd
  <2>2. s.att.peer
    BY <2>1 DEF Live, PeerInd
  <2>3. x \in D \/ x \in k.pending \/ Goes(s.up, x)
    BY <2>1 DEF Live, GivenInd
  <2> QED BY <2>1, <2>2, <2>3
<1>5. AnsweredInd(k, r)
  BY DEF Live, AnsweredInd
<1> QED BY <1>1, <1>2, <1>3, <1>4, <1>5 DEF Live

\* It is told that something ended.
LEMMA LiveOver ==
  ASSUME NEW k, NEW T, NEW d \in Seq(T), NEW f \in T, Ending(f), NEW r, r.down = Append(d, f), NEW D
  PROVE  Live(k, r, D)
<1>1. /\ DOMAIN r.down = 1 .. Len(d) + 1 /\ Len(d) \in Nat
      /\ r.down[Len(d) + 1] = f
      /\ \A n \in DOMAIN r.down : n \in 1 .. Len(d) \/ n = Len(d) + 1
  BY AppendFacts, SMT
<1>2. ~Tells(f) /\ Claims(f) = {} /\ f.type # "joined"
  BY DEF Ending, Tells, Claims, Content
<1>3. \A i \in Nat : i <= Len(d) => EndsAfter(r.down, i)
  BY EndsAppend
<1>4. \A i \in DOMAIN r.down : (i \in Nat /\ i <= Len(d)) \/ r.down[i] = f
  BY <1>1, SMT
<1>5. EndsAfter(r.down, 0)
  BY <1>1, <1>3, SMT
<1>6. \A i \in DOMAIN r.down : EndsAfter(r.down, i) \/ r.down[i] = f
  BY <1>3, <1>4
<1> QED BY <1>2, <1>5, <1>6 DEF Live, PeerInd, CompleteInd, GenuineInd, GivenInd, AnsweredInd

\* It is told something else.
LEMMA LiveMore ==
  ASSUME NEW k, NEW s, NEW r, NEW D, Live(k, s, D), NEW T, s.down \in Seq(T),
         NEW f \in T, r.down = Append(s.down, f), ~Ending(f),
         s.att.peer => r.att.peer, Tells(f) => r.att.peer,
         \A x \in D : Waits(s.att.queue, x) => Waits(r.att.queue, x) \/ x \in Content(f),
         Claims(f) \subseteq D,
         f.type = "joined" => \A x \in D : x \in k.doc \/ x \in Content(f),
         \A x \in k.doc : Goes(s.up, x) => Goes(r.up, x) \/ Denial(f),
         Asks(s.up, "authenticate") => Asks(r.up, "authenticate") \/ Answer(f),
         JoinOnItsWay(s) => JoinOnItsWay(r) \/ f.type = "joined"
  PROVE  Live(k, r, D)
<1> DEFINE d == s.down
           e == r.down
<1>1. /\ DOMAIN e = 1 .. Len(d) + 1 /\ DOMAIN d = 1 .. Len(d) /\ Len(d) \in Nat
      /\ e[Len(d) + 1] = f
      /\ \A i \in DOMAIN d : e[i] = d[i] /\ i \in Nat /\ i <= Len(d) /\ i <= Len(d) + 1
      /\ \A i \in DOMAIN e : i \in DOMAIN d \/ i = Len(d) + 1
  BY AppendFacts, SMT
<1>2. \A i \in Nat : i <= Len(d) => (EndsAfter(e, i) <=> EndsAfter(d, i))
  BY EndsAppend
<1>3. EndsAfter(e, 0) <=> EndsAfter(d, 0)
  BY <1>1, <1>2, SMT
<1>4. \A i \in DOMAIN d : EndsAfter(e, i) <=> EndsAfter(d, i)
  BY <1>1, <1>2
<1>5. \A x : \A i \in Nat : i <= Len(d) + 1 => (Comes(d, x, i) \/ x \in Content(f) => Comes(e, x, i))
  BY ComesAppend
<1>6. /\ Denied(e) <=> Denied(d) \/ Denial(f)
      /\ AnswerComes(e) <=> AnswerComes(d) \/ Answer(f)
      /\ JoinedComes(e) <=> JoinedComes(d) \/ f.type = "joined"
  <2> HIDE DEF d, e
  <2>1. d \in Seq(T) /\ e = Append(d, f)
    BY DEF d, e
  <2> QED BY <2>1, FoundAppend, Zenon
<1>7. PeerInd(k, r)
  BY <1>1, <1>3, <1>4 DEF Live, PeerInd
<1>8. CompleteInd(k, r, D)
  <2>1. ASSUME NEW x \in D, NEW i \in Nat, i <= Len(d) + 1, Reaches(k.doc, s, x, i)
        PROVE  Reaches(k.doc, r, x, i)
    BY <1>5, <2>1, Zenon DEF Reaches
  <2>2. ASSUME NEW i \in DOMAIN e, e[i].type = "joined", ~EndsAfter(e, i), NEW x \in D
        PROVE  Reaches(k.doc, r, x, i)
    <3>1. CASE i \in DOMAIN d
      <4>1. Reaches(k.doc, s, x, i)
        BY <1>1, <1>4, <2>2, <3>1 DEF Live, CompleteInd
      <4> QED BY <1>1, <2>1, <3>1, <4>1
    <3>2. CASE i = Len(d) + 1
      <4>1. x \in k.doc \/ x \in Content(f)
        BY <1>1, <2>2, <3>2
      <4>2. i \in Nat /\ i <= Len(d) + 1
        BY <1>1, <3>2, SMT
      <4> QED BY <1>5, <4>1, <4>2, Zenon DEF Reaches
    <3> QED BY <1>1, <3>1, <3>2
  <2>3. ASSUME k.joined, ~EndsAfter(e, 0), NEW x \in D
        PROVE  Reaches(k.doc, r, x, 1)
    <3>1. Reaches(k.doc, s, x, 1)
      BY <1>3, <2>3 DEF Live, CompleteInd
    <3>2. 1 \in Nat /\ 1 <= Len(d) + 1
      BY <1>1, SMT
    <3> QED BY <2>1, <3>1, <3>2
  <2> QED BY <2>2, <2>3 DEF CompleteInd
<1>9. GenuineInd(r, D)
  BY <1>1, <1>4 DEF Live, GenuineInd
<1>10. GivenInd(k, r, D)
  <2>1. SUFFICES ASSUME k.joined, k.access = "write", k.reconciled, ~EndsAfter(e, 0), ~Denied(e),
                        NEW x \in k.doc
                 PROVE  x \in D \/ x \in k.pending \/ Goes(r.up, x)
    BY DEF GivenInd
  <2>2. x \in D \/ x \in k.pending \/ Goes(s.up, x)
    BY <1>3, <1>6, <2>1 DEF Live, GivenInd
  <2> QED BY <1>6, <2>1, <2>2
<1>11. AnsweredInd(k, r)
  BY <1>3, <1>6 DEF Live, AnsweredInd
<1> QED BY <1>7, <1>8, <1>9, <1>10, <1>11 DEF Live

------------------------------------------------------------------------------
(* The parts the relay's answers are made of. *)

\* What a browser sends it holds, and nothing is read from a closed socket.
UpInd(s, doc) ==
  /\ ~s.open => s.up = <<>>
  /\ s.since \subseteq doc
  /\ \A n \in DOMAIN s.up : Upload(s.up[n]) \subseteq doc /\ Since(s.up[n]) \subseteq doc

UpKinds(s) == \A n \in DOMAIN s.up : s.up[n].type \in {"authenticate", "join", "update"}

\* What a link asks of a connection whatever it is told.
Wired(s) == UpKinds(s) /\ (s.open \/ Closing(s.down))

\* A link is wired.
LEMMA LinkIsWired ==
  ASSUME NEW k, NEW s, NEW D, Link(k, s, D)
  PROVE  Wired(s) /\ (s.open => Live(k, s, D))
  BY DEF Link, Wired, UpKinds

\* And is one if it is live as long as it is open.
LEMMA WiredIsLink ==
  ASSUME NEW k, NEW s, NEW D, Wired(s), s.open => Live(k, s, D)
  PROVE  Link(k, s, D)
  BY DEF Link, Wired, UpKinds

\* A new attachment is of its kind.
LEMMA NotAttachedKind ==
  ASSUME NEW E
  PROVE  /\ NotAttached \in Attachments(E)
         /\ NotAttached.access = "none" /\ ~NotAttached.peer /\ ~NotAttached.fresh
         /\ NotAttached.queue = <<>> /\ Len(NotAttached.queue) = 0 /\ DOMAIN NotAttached.queue = {}
  BY EmptySeq DEF NotAttached, Attachments, Access

\* What the row says of a viewer.
LEMMA ReadCircuitKind ==
  ASSUME NEW viewer
  PROVE  ReadCircuit(viewer) \in Access /\ ReadCircuit(viewer) # "unknown"
  BY DEF ReadCircuit, Access

\* A connection without the frame that is handled now.
FrameTaken(s, t) ==
  /\ t.up = Tail(s.up) /\ t.open = s.open /\ s.open /\ t.viewer = s.viewer /\ t.expired = s.expired
  /\ t.busy = s.busy /\ t.since = s.since /\ t.att = s.att /\ t.down = s.down

OnlyHeadIsTaken(s, t) ==
  /\ \A type : Asks(s.up, type) <=> Asks(t.up, type) \/ Head(s.up).type = type
  /\ \A x : Goes(s.up, x) <=> Goes(t.up, x) \/ x \in Upload(Head(s.up))

HeadIsHeld(f, doc) == Upload(f) \subseteq doc /\ Since(f) \subseteq doc

\* The frame a socket has sent is taken off the wire.
LEMMA TakenFacts ==
  ASSUME NEW E, NEW V, NEW s \in Connections(E, V), NEW doc, UpInd(s, doc), s.up # <<>>,
         NEW t, t = Taken(s)
  PROVE  /\ t \in Connections(E, V) /\ FrameTaken(s, t) /\ UpInd(t, doc) /\ OnlyHeadIsTaken(s, t)
         /\ UpKinds(s) => UpKinds(t)
         /\ Head(s.up) \in Ups(E, V) /\ HeadIsHeld(Head(s.up), doc)
<1>1. s.up \in Seq(Ups(E, V))
  BY DEF Connections
<1>2. /\ Tail(s.up) \in Seq(Ups(E, V)) /\ Head(s.up) = s.up[1] /\ Head(s.up) \in Ups(E, V)
      /\ 1 \in DOMAIN s.up
      /\ \A i \in DOMAIN Tail(s.up) : i + 1 \in DOMAIN s.up /\ Tail(s.up)[i] = s.up[i + 1]
  BY <1>1, TailFacts, SMT
<1>3. /\ t \in Connections(E, V) /\ t = [s EXCEPT !.up = Tail(s.up)] /\ t.up = Tail(s.up)
      /\ t.open = s.open /\ t.viewer = s.viewer /\ t.expired = s.expired
      /\ t.busy = s.busy /\ t.since = s.since /\ t.att = s.att /\ t.down = s.down
  BY <1>2 DEF Taken, Connections
<1>4. s.open
  BY DEF UpInd, Connections
<1>5. UpInd(t, doc)
  BY <1>2, <1>3, <1>4 DEF UpInd
<1>6. UpKinds(s) => UpKinds(t)
  BY <1>2, <1>3 DEF UpKinds
<1>7. Upload(Head(s.up)) \subseteq doc /\ Since(Head(s.up)) \subseteq doc
  BY <1>2 DEF UpInd
<1>8. \A type : Asks(s.up, type) <=> Asks(t.up, type) \/ Head(s.up).type = type
  BY <1>1, <1>3, FoundTail, Zenon
<1>9. \A x : Goes(s.up, x) <=> Goes(t.up, x) \/ x \in Upload(Head(s.up))
  BY <1>1, <1>3, FoundTail, Zenon
<1> QED BY <1>2, <1>3, <1>4, <1>5, <1>6, <1>7, <1>8, <1>9 DEF FrameTaken, OnlyHeadIsTaken, HeadIsHeld

\* What a connection is once it was told a frame, if it is open.
Told(s, f, r) ==
  /\ r.open = s.open /\ r.viewer = s.viewer /\ r.expired = s.expired
  /\ r.busy = s.busy /\ r.since = s.since /\ r.att = s.att /\ r.up = s.up
  /\ s.open => r.down = Append(s.down, f)
  /\ ~s.open => r.down = s.down

\* Say tells it.
LEMMA SayFacts ==
  ASSUME NEW E, NEW V, NEW s \in Connections(E, V), NEW f \in Downs(E, V)
  PROVE  Say(s, f) \in Connections(E, V) /\ Told(s, f, Say(s, f)) /\ s.down \in Seq(Downs(E, V))
<1>1. s.down \in Seq(Downs(E, V))
  BY DEF Connections
<1>2. Append(s.down, f) \in Seq(Downs(E, V))
  BY <1>1, AppendFacts
<1> QED BY <1>1, <1>2 DEF Say, Told, Connections

\* What is told to a socket that is not open changes nothing.
LEMMA LinkOver ==
  ASSUME NEW E, NEW V, NEW s \in Connections(E, V), NEW f \in Downs(E, V), Ending(f), NEW r, r = Say(s, f),
         NEW k, NEW D
  PROVE  Wired(s) => Link(k, r, D)
<1>1. SUFFICES ASSUME Wired(s) PROVE Link(k, r, D)
  OBVIOUS
<1>2. Told(s, f, r) /\ s.down \in Seq(Downs(E, V))
  BY SayFacts
<1>3. Wired(r)
  BY <1>1, <1>2 DEF Told, Wired, UpKinds
<1>4. r.open => Live(k, r, D)
  BY <1>2, LiveOver DEF Told
<1> QED BY <1>3, <1>4, WiredIsLink

\* An attachment ends, and whoever had it is told.
LEMMA EndKeeps ==
  ASSUME NEW E, NEW V, NEW s \in Connections(E, V), NEW k, NEW D, UpInd(s, k.doc), Attached(s),
         NEW reason \in Reasons, NEW r, r = EndAttachment(s, reason)
  PROVE  r \in Connections(E, V) /\ ConnectionInd(r, D, k.doc) /\ (Wired(s) => Link(k, r, D))
<1>1. PICK t : t = [s EXCEPT !.att = NotAttached]
  OBVIOUS
<1>2. PICK f : f = [type |-> "left", reason |-> reason]
  OBVIOUS
<1>3. r = Say(t, f)
  BY <1>1, <1>2 DEF EndAttachment
<1>4. f \in Downs(E, V) /\ Ending(f)
  BY <1>2 DEF Downs, Ending
<1>5. /\ t \in Connections(E, V) /\ t.open = s.open /\ t.up = s.up /\ t.down = s.down
      /\ t.since = s.since /\ t.att = NotAttached
  BY <1>1, NotAttachedKind DEF Connections
<1>6. r \in Connections(E, V) /\ Told(t, f, r)
  BY <1>3, <1>4, <1>5, SayFacts
<1>7. ConnectionInd(r, D, k.doc)
  BY <1>5, <1>6, NotAttachedKind, PendingAssumption DEF Told, ConnectionInd, UpInd, Attached
<1>8. ASSUME Wired(s) PROVE Link(k, r, D)
  <2>1. Wired(t)
    BY <1>5, <1>8 DEF Wired, UpKinds
  <2> QED BY <1>3, <1>4, <1>5, <2>1, LinkOver, Zenon
<1> QED BY <1>6, <1>7, <1>8

\* The relay closes a socket.
LEMMA ShutKeeps ==
  ASSUME NEW E, NEW V, NEW s \in Connections(E, V), NEW k, NEW D, UpInd(s, k.doc), NEW r, r = Shut(s)
  PROVE  r \in Connections(E, V) /\ ConnectionInd(r, D, k.doc) /\ (Wired(s) => Link(k, r, D))
<1>1. PICK f : f = [type |-> "close"]
  OBVIOUS
<1>2. PICK t : t = Say(s, f)
  OBVIOUS
<1>3. r = [t EXCEPT !.open = FALSE, !.att = NotAttached, !.up = <<>>]
  BY <1>1, <1>2 DEF Shut
<1>4. f \in Downs(E, V)
  BY <1>1 DEF Downs
<1>5. t \in Connections(E, V) /\ Told(s, f, t) /\ s.down \in Seq(Downs(E, V))
  BY <1>2, <1>4, SayFacts
<1>6. /\ r \in Connections(E, V) /\ r.open = FALSE /\ r.att = NotAttached /\ r.up = <<>>
      /\ r.down = t.down /\ r.since = s.since
  <2>1. NotAttached \in Attachments(E) /\ <<>> \in Seq(Ups(E, V))
    BY NotAttachedKind, EmptySeq, Zenon
  <2> QED BY <1>3, <1>5, <2>1 DEF Told, Connections
<1>7. ConnectionInd(r, D, k.doc)
  BY <1>6, NotAttachedKind, PendingAssumption DEF ConnectionInd, UpInd, Attached
<1>8. ASSUME Wired(s) PROVE Link(k, r, D)
  <2>1. CASE s.open
    BY <1>1, <1>4, <1>5, <1>6, <2>1, AppendFacts DEF Told, Link, Closing
  <2>2. CASE ~s.open
    BY <1>5, <1>6, <1>8, <2>2 DEF Told, Link, Wired
  <2> QED BY <2>1, <2>2
<1> QED BY <1>6, <1>7, <1>8

\* A socket that is gone has nothing left on it.
LEMMA CloseKeeps ==
  ASSUME NEW E, NEW V, NEW s \in Connections(E, V), NEW D, NEW doc, s.since \subseteq doc, NEW r, r = Close(s)
  PROVE  r \in Connections(E, V) /\ ConnectionInd(r, D, doc)
<1>1. /\ r \in Connections(E, V) /\ r.open = FALSE /\ r.att = NotAttached /\ r.up = <<>> /\ r.since = s.since
  BY NotAttachedKind, EmptySeq DEF Close, Connections
<1> QED BY <1>1, NotAttachedKind, PendingAssumption DEF ConnectionInd, Attached

------------------------------------------------------------------------------
(* Each step of the relay on one connection. *)

\* The connection s of the session k becomes r, and is as sound as it was.
Keeps(k, s, r, D, E, V) ==
  /\ r \in Connections(E, V) /\ ConnectionInd(r, D, k.doc)
  /\ Link(k, s, D) => Link(k, r, D)

\* A sound connection holds nothing its browser does not.
LEMMA ConnectionUps ==
  ASSUME NEW s, NEW D, NEW doc, ConnectionInd(s, D, doc)
  PROVE  UpInd(s, doc)
  BY DEF ConnectionInd, UpInd

\* What a step that tells nothing has to keep.
Untold(s, t) ==
  /\ t.open = s.open /\ t.down = s.down
  /\ UpKinds(s) => UpKinds(t)
  /\ s.att.peer => t.att.peer

\* Nothing is told.
LEMMA StayKeeps ==
  ASSUME NEW E, NEW V, NEW D, NEW k, NEW s \in Connections(E, V), NEW t \in Connections(E, V),
         ConnectionInd(t, D, k.doc), Untold(s, t),
         s.att.peer => /\ \A x \in D : Waits(s.att.queue, x) => Waits(t.att.queue, x)
                       /\ \A x \in k.doc : Goes(s.up, x) => Goes(t.up, x),
         Asks(s.up, "authenticate") => Asks(t.up, "authenticate"),
         JoinOnItsWay(s) => JoinOnItsWay(t)
  PROVE  Keeps(k, s, t, D, E, V)
<1>1. SUFFICES ASSUME Link(k, s, D) PROVE Link(k, t, D)
  BY DEF Keeps
<1>2. Wired(s) /\ (s.open => Live(k, s, D))
  BY <1>1, LinkIsWired
<1>3. Wired(t)
  BY <1>2 DEF Untold, Wired
<1>4. t.open => Live(k, t, D)
  BY <1>2, LiveStays DEF Untold
<1> QED BY <1>3, <1>4, WiredIsLink

\* A frame is told that ends nothing.
LEMMA SayKeeps ==
  ASSUME NEW E, NEW V, NEW D, NEW k, NEW s \in Connections(E, V), NEW t \in Connections(E, V),
         ConnectionInd(t, D, k.doc), Untold(s, t),
         NEW f \in Downs(E, V), ~Ending(f), NEW r, r = Say(t, f),
         Tells(f) => t.att.peer,
         \A x \in D : Waits(s.att.queue, x) => Waits(t.att.queue, x) \/ x \in Content(f),
         Claims(f) \subseteq D,
         f.type = "joined" => \A x \in D : x \in k.doc \/ x \in Content(f),
         \A x \in k.doc : Goes(s.up, x) => Goes(t.up, x) \/ Denial(f),
         Asks(s.up, "authenticate") => Asks(t.up, "authenticate") \/ Answer(f),
         JoinOnItsWay(s) => JoinOnItsWay(t) \/ f.type = "joined"
  PROVE  Keeps(k, s, r, D, E, V)
<1>1. r \in Connections(E, V) /\ Told(t, f, r) /\ t.down \in Seq(Downs(E, V))
  BY SayFacts
<1>2. ConnectionInd(r, D, k.doc)
  BY <1>1 DEF Told, ConnectionInd, Attached
<1>3. ASSUME Link(k, s, D) PROVE Link(k, r, D)
  <2>1. Wired(s) /\ (s.open => Live(k, s, D))
    BY <1>3, LinkIsWired
  <2>2. Wired(r)
    BY <1>1, <2>1 DEF Untold, Told, Wired, UpKinds
  <2>3. ASSUME r.open PROVE Live(k, r, D)
    <3>1. /\ Live(k, s, D) /\ s.down \in Seq(Downs(E, V)) /\ r.down = Append(s.down, f)
          /\ r.att = t.att /\ r.up = t.up /\ (JoinOnItsWay(t) => JoinOnItsWay(r))
      BY <1>1, <2>1, <2>3 DEF Untold, Told, JoinOnItsWay, Attached
    <3>2. s.att.peer => r.att.peer
      BY <3>1 DEF Untold
    <3> QED BY <3>1, <3>2, LiveMore
  <2> QED BY <2>2, <2>3, WiredIsLink
<1> QED BY <1>1, <1>2, <1>3 DEF Keeps

\* An attachment ends.
LEMMA EndIsKept ==
  ASSUME NEW E, NEW V, NEW D, NEW k, NEW s \in Connections(E, V), NEW t \in Connections(E, V),
         UpInd(t, k.doc), Attached(t), Wired(s) => Wired(t),
         NEW reason \in Reasons, NEW r, r = EndAttachment(t, reason)
  PROVE  Keeps(k, s, r, D, E, V)
  BY EndKeeps, LinkIsWired DEF Keeps

\* A socket is closed by the relay.
LEMMA ShutIsKept ==
  ASSUME NEW E, NEW V, NEW D, NEW k, NEW s \in Connections(E, V), NEW t \in Connections(E, V),
         UpInd(t, k.doc), Wired(s) => Wired(t), NEW r, r = Shut(t)
  PROVE  Keeps(k, s, r, D, E, V)
  BY ShutKeeps, LinkIsWired DEF Keeps

\* Whatever is asked for, is done or the socket is closed.
LEMMA AliveKeeps ==
  ASSUME NEW E, NEW V, NEW D, NEW k, NEW s \in Connections(E, V), NEW t \in Connections(E, V),
         UpInd(t, k.doc), Wired(s) => Wired(t), NEW then, Keeps(k, s, then, D, E, V)
  PROVE  Keeps(k, s, Alive(t, then), D, E, V)
  BY ShutIsKept DEF Alive

\* What is taken from a connection is taken from nothing else.
LEMMA TakenKeeps ==
  ASSUME NEW E, NEW V, NEW D, NEW k, NEW s \in Connections(E, V), ConnectionInd(s, D, k.doc), s.up # <<>>,
         NEW t, t = Taken(s)
  PROVE  /\ t \in Connections(E, V) /\ ConnectionInd(t, D, k.doc) /\ UpInd(t, k.doc)
         /\ FrameTaken(s, t) /\ OnlyHeadIsTaken(s, t) /\ Untold(s, t) /\ (Wired(s) => Wired(t))
         /\ Head(s.up) \in Ups(E, V) /\ HeadIsHeld(Head(s.up), k.doc)
<1>1. UpInd(s, k.doc)
  BY ConnectionUps
<1>2. /\ t \in Connections(E, V) /\ FrameTaken(s, t) /\ UpInd(t, k.doc) /\ OnlyHeadIsTaken(s, t)
      /\ UpKinds(s) => UpKinds(t)
      /\ Head(s.up) \in Ups(E, V) /\ HeadIsHeld(Head(s.up), k.doc)
  BY <1>1, TakenFacts
<1>3. ConnectionInd(t, D, k.doc)
  BY <1>2 DEF FrameTaken, ConnectionInd, UpInd, Attached
<1>4. Untold(s, t) /\ (Wired(s) => Wired(t))
  BY <1>2 DEF FrameTaken, Untold, Wired
<1> QED BY <1>2, <1>3, <1>4

\* What a frame from a browser says, by its kind.
LEMMA UpFields ==
  ASSUME NEW E, NEW V, NEW f \in Ups(E, V)
  PROVE  /\ f.type = "authenticate" => f.viewer \in V /\ f.viewer # Anonymous
         /\ f.type = "join" => f.since \subseteq E /\ Since(f) = f.since
         /\ f.type = "update" => f.edits \subseteq E /\ Upload(f) = f.edits
         /\ f.type # "update" => Upload(f) = {}
  BY DEF Ups, Since, Upload

\* Authenticate and its failure.
LEMMA AuthenticateKeeps ==
  ASSUME NEW E, NEW V, NEW D, NEW k, NEW s \in Connections(E, V), ConnectionInd(s, D, k.doc),
         s.up # <<>>, Head(s.up).type = "authenticate", NEW t, t = Taken(s),
         NEW viewer, viewer = Head(s.up).viewer
  PROVE  /\ Keeps(k, s, Alive(t, Say([t EXCEPT !.viewer = viewer], [type |-> "ready", viewer |-> viewer])), D, E, V)
         /\ Keeps(k, s, Alive(t, Say(t, [type |-> "error"])), D, E, V)
<1>1. /\ t \in Connections(E, V) /\ ConnectionInd(t, D, k.doc) /\ UpInd(t, k.doc)
      /\ FrameTaken(s, t) /\ OnlyHeadIsTaken(s, t) /\ Untold(s, t) /\ (Wired(s) => Wired(t))
      /\ Head(s.up) \in Ups(E, V)
  BY TakenKeeps
<1>2. viewer \in V /\ viewer # Anonymous /\ Upload(Head(s.up)) = {}
  BY <1>1, UpFields
<1>3. PICK u : u = [t EXCEPT !.viewer = viewer]
  OBVIOUS
<1>4. /\ u \in Connections(E, V) /\ u.att = t.att /\ u.up = t.up /\ u.busy = t.busy
      /\ u.down = t.down /\ u.open = t.open /\ u.since = t.since
  BY <1>1, <1>2, <1>3 DEF Connections
<1>5. ConnectionInd(u, D, k.doc) /\ Untold(s, u)
  BY <1>1, <1>4 DEF ConnectionInd, Attached, Untold, UpKinds
<1>6. ASSUME NEW v, v \in Connections(E, V), ConnectionInd(v, D, k.doc), Untold(s, v),
             v.att = t.att, v.up = t.up, v.busy = t.busy,
             NEW f, f \in Downs(E, V), f.type \in {"ready", "error"}, Answer(f)
      PROVE  Keeps(k, s, Say(v, f), D, E, V)
  <2>1. /\ ~Ending(f) /\ ~Tells(f) /\ Claims(f) = {} /\ f.type # "joined"
    BY <1>6 DEF Ending, Tells, Claims, Content
  <2>2. \A x : Goes(s.up, x) => Goes(v.up, x)
    BY <1>1, <1>2, <1>6 DEF OnlyHeadIsTaken
  <2>3. JoinOnItsWay(s) => JoinOnItsWay(v)
    BY <1>1, <1>6 DEF OnlyHeadIsTaken, FrameTaken, JoinOnItsWay, Attached
  <2>4. v.att = s.att
    BY <1>1, <1>6 DEF FrameTaken
  <2> QED BY <1>6, <2>1, <2>2, <2>3, <2>4, SayKeeps
<1>7. Keeps(k, s, Say(u, [type |-> "ready", viewer |-> viewer]), D, E, V)
  <2>1. PICK f : f = [type |-> "ready", viewer |-> viewer]
    OBVIOUS
  <2>2. f \in Downs(E, V) /\ f.type \in {"ready", "error"} /\ Answer(f)
    BY <1>2, <2>1 DEF Downs, Answer
  <2>3. Keeps(k, s, Say(u, f), D, E, V)
    BY <1>4, <1>5, <1>6, <2>2
  <2> QED BY <2>1, <2>3
<1>8. Keeps(k, s, Say(t, [type |-> "error"]), D, E, V)
  <2>1. PICK f : f = [type |-> "error"]
    OBVIOUS
  <2>2. f \in Downs(E, V) /\ f.type \in {"ready", "error"} /\ Answer(f)
    BY <2>1 DEF Downs, Answer
  <2>3. Keeps(k, s, Say(t, f), D, E, V)
    BY <1>1, <1>6, <2>2
  <2> QED BY <2>1, <2>3
<1> QED BY <1>1, <1>3, <1>7, <1>8, AliveKeeps

\* A join is read.
LEMMA JoinFrameKeeps ==
  ASSUME NEW E, NEW V, NEW D, NEW k, NEW s \in Connections(E, V), ConnectionInd(s, D, k.doc),
         s.up # <<>>, Head(s.up).type = "join", s.busy = "idle", NEW t, t = Taken(s)
  PROVE  Keeps(k, s, Alive(t, [t EXCEPT !.busy = "reading", !.since = Head(s.up).since,
                                        !.found = ReadCircuit(t.viewer)]), D, E, V)
<1>1. /\ t \in Connections(E, V) /\ ConnectionInd(t, D, k.doc) /\ UpInd(t, k.doc)
      /\ FrameTaken(s, t) /\ OnlyHeadIsTaken(s, t) /\ Untold(s, t) /\ (Wired(s) => Wired(t))
      /\ Head(s.up) \in Ups(E, V) /\ HeadIsHeld(Head(s.up), k.doc)
  BY TakenKeeps
<1>2. Head(s.up).since \subseteq E /\ Head(s.up).since \subseteq k.doc /\ Upload(Head(s.up)) = {}
  BY <1>1, UpFields DEF HeadIsHeld
<1>3. PICK u : u = [t EXCEPT !.busy = "reading", !.since = Head(s.up).since, !.found = ReadCircuit(t.viewer)]
  OBVIOUS
<1>4. /\ u \in Connections(E, V) /\ u.att = t.att /\ u.up = t.up /\ u.busy = "reading"
      /\ u.down = t.down /\ u.open = t.open /\ u.since = Head(s.up).since
  BY <1>1, <1>2, <1>3, ReadCircuitKind DEF Connections
<1>5. ConnectionInd(u, D, k.doc) /\ Untold(s, u)
  BY <1>1, <1>2, <1>4 DEF ConnectionInd, FrameTaken, Attached, Untold, UpKinds
<1>6. JoinOnItsWay(u) /\ u.att = s.att
  BY <1>1, <1>4 DEF JoinOnItsWay, FrameTaken
<1>7. /\ \A x : Goes(s.up, x) => Goes(u.up, x)
      /\ Asks(s.up, "authenticate") => Asks(u.up, "authenticate")
  BY <1>1, <1>2, <1>4 DEF OnlyHeadIsTaken
<1>8. Keeps(k, s, u, D, E, V)
  BY <1>4, <1>5, <1>6, <1>7, StayKeeps
<1> QED BY <1>1, <1>3, <1>8, AliveKeeps

\* A frame that refuses, and ends nothing.
LEMMA DenialFacts ==
  ASSUME NEW E, NEW V, NEW code \in {"FORBIDDEN", "PAYLOAD_TOO_LARGE"}, NEW f, f = [type |-> "refused", code |-> code]
  PROVE  /\ f \in Downs(E, V) /\ ~Ending(f) /\ ~Tells(f) /\ Claims(f) = {} /\ f.type # "joined" /\ Denial(f)
  BY DEF Downs, Codes, Ending, Tells, Claims, Content, Denial

\* A frame that refuses and ends.
LEMMA RefusalFacts ==
  ASSUME NEW E, NEW V, NEW code \in {"NOT_FOUND", "DATABASE_UNAVAILABLE", "CIRCUIT_TOO_LARGE"},
         NEW f, f = [type |-> "refused", code |-> code]
  PROVE  f \in Downs(E, V) /\ Ending(f)
  BY DEF Downs, Codes, Ending

\* A refusal that ends, told to whoever is as sound but for it.
LEMMA RefusalKeeps ==
  ASSUME NEW E, NEW V, NEW D, NEW k, NEW s \in Connections(E, V), NEW t \in Connections(E, V),
         ConnectionInd(t, D, k.doc), Wired(s) => Wired(t),
         NEW code \in {"NOT_FOUND", "DATABASE_UNAVAILABLE", "CIRCUIT_TOO_LARGE"}
  PROVE  Keeps(k, s, FailCircuit(t, code), D, E, V) /\ FailCircuit(t, code) \in Connections(E, V)
         /\ UpInd(FailCircuit(t, code), k.doc) /\ (Wired(s) => Wired(FailCircuit(t, code)))
         /\ FailCircuit(t, code).att = t.att
         /\ \A D2 : Wired(t) => Link(k, FailCircuit(t, code), D2)
<1>1. PICK f : f = [type |-> "refused", code |-> code]
  OBVIOUS
<1>2. f \in Downs(E, V) /\ Ending(f)
  BY <1>1, RefusalFacts
<1>3. PICK r : r = Say(t, f)
  OBVIOUS
<1>4. r = FailCircuit(t, code)
  BY <1>1, <1>3 DEF FailCircuit
<1>5. r \in Connections(E, V) /\ Told(t, f, r)
  BY <1>2, <1>3, SayFacts
<1>6. ConnectionInd(r, D, k.doc) /\ UpInd(r, k.doc) /\ r.att = t.att
  BY <1>5 DEF Told, ConnectionInd, UpInd, Attached
<1>7. Wired(t) => Link(k, r, D)
  BY <1>2, <1>3, LinkOver
<1>8. Keeps(k, s, r, D, E, V)
  BY <1>5, <1>6, <1>7, LinkIsWired DEF Keeps
<1>9. Wired(s) => Wired(r)
  BY <1>7, LinkIsWired
<1>10. \A D2 : Wired(t) => Link(k, r, D2)
  BY <1>2, <1>3, LinkOver
<1> QED BY <1>4, <1>5, <1>6, <1>8, <1>9, <1>10

\* The answer to a join: the document, less what the browser has.
LEMMA JoinedKeeps ==
  ASSUME NEW E, NEW V, document \subseteq E, NEW k, NEW s \in Connections(E, V), NEW t \in Connections(E, V),
         ConnectionInd(t, document, k.doc), Untold(s, t), t.att.peer,
         \A x \in document : Waits(s.att.queue, x) => Waits(t.att.queue, x),
         t.up = s.up
  PROVE  Keeps(k, s, Joined(t), document, E, V)
<1>1. PICK f : f = [type |-> "joined", access |-> t.att.access,
                    update |-> document \ t.since, vector |-> document]
  OBVIOUS
<1>2. t.att.access \in {"read", "write"}
  <2>1. Attached(t)
    BY NotAttachedKind DEF Attached
  <2> QED BY <2>1 DEF ConnectionInd, Connections, Attachments, Access
<1>3. f \in Downs(E, V)
  BY <1>1, <1>2 DEF Downs
<1>4. /\ ~Ending(f) /\ Claims(f) \subseteq document /\ f.type = "joined"
      /\ Content(f) = document \ t.since
  BY <1>1 DEF Ending, Claims, Content
<1>5. \A x \in document : x \in k.doc \/ x \in Content(f)
  BY <1>4 DEF ConnectionInd
<1>6. Keeps(k, s, Say(t, f), document, E, V)
  BY <1>3, <1>4, <1>5, SayKeeps
<1> QED BY <1>1, <1>6 DEF Joined

\* The decision about a join.
LEMMA JoinDecidedKeeps ==
  ASSUME NEW E, NEW V, document \subseteq E, NEW k, NEW s \in Connections(E, V), ConnectionInd(s, document, k.doc),
         s.busy = "reading", NEW t, t = Done(s), NEW access \in Access
  PROVE  Keeps(k, s, IF access = "none"
                     THEN EndAttachment(FailCircuit(t, "NOT_FOUND"), "unauthorised")
                     ELSE IF Attached(t)
                     THEN Joined([t EXCEPT !.att.access = access, !.att.fresh = TRUE])
                     ELSE [t EXCEPT !.busy = "building",
                                    !.att = [NotAttached EXCEPT !.access = access, !.fresh = TRUE]],
               document, E, V)
<1>1. /\ t \in Connections(E, V) /\ t.att = s.att /\ t.up = s.up /\ t.busy = "idle"
      /\ t.down = s.down /\ t.open = s.open /\ t.since = s.since
  BY DEF Done, Connections, Access
<1>2. ConnectionInd(t, document, k.doc) /\ Untold(s, t) /\ (Wired(s) => Wired(t))
  BY <1>1 DEF ConnectionInd, Attached, Untold, UpKinds, Wired
<1>3. CASE access = "none"
  <2>1. PICK u : u = FailCircuit(t, "NOT_FOUND")
    OBVIOUS
  <2>2. /\ Keeps(k, s, u, document, E, V) /\ u \in Connections(E, V) /\ UpInd(u, k.doc)
        /\ Wired(s) => Wired(u)
    BY <1>1, <1>2, <2>1, RefusalKeeps
  <2>3. CASE Attached(u)
    BY <1>3, <2>1, <2>2, <2>3, EndIsKept DEF Reasons
  <2>4. CASE ~Attached(u)
    BY <1>3, <2>1, <2>2, <2>4 DEF EndAttachment
  <2> QED BY <2>3, <2>4
<1>4. CASE access # "none" /\ Attached(t)
  <2>1. PICK u : u = [t EXCEPT !.att.access = access, !.att.fresh = TRUE]
    OBVIOUS
  <2>2. /\ u \in Connections(E, V) /\ u.up = t.up /\ u.busy = "idle" /\ u.down = t.down /\ u.open = t.open
        /\ u.since = t.since /\ u.att.peer = t.att.peer /\ u.att.queue = t.att.queue /\ u.att.access = access
    BY <1>1, <2>1 DEF Connections, Attachments
  <2>3. u.att.peer
    BY <1>1, <1>2, <1>4, <2>2 DEF ConnectionInd
  <2>4. ConnectionInd(u, document, k.doc) /\ Untold(s, u)
    BY <1>1, <1>2, <1>4, <2>2, <2>3 DEF ConnectionInd, Untold, UpKinds
  <2>5. Keeps(k, s, Joined(u), document, E, V)
    BY <1>1, <2>2, <2>3, <2>4, JoinedKeeps
  <2> QED BY <1>4, <2>1, <2>5
<1>5. CASE access # "none" /\ ~Attached(t)
  <2>1. PICK a : a = [NotAttached EXCEPT !.access = access, !.fresh = TRUE]
    OBVIOUS
  <2>2. /\ a \in Attachments(E) /\ a.access = access /\ a.fresh /\ ~a.peer /\ a.queue = <<>>
        /\ Len(a.queue) = 0 /\ DOMAIN a.queue = {}
    BY <2>1, NotAttachedKind DEF Attachments
  <2>3. PICK u : u = [t EXCEPT !.busy = "building", !.att = a]
    OBVIOUS
  <2>4. /\ u \in Connections(E, V) /\ u.up = t.up /\ u.busy = "building" /\ u.down = t.down /\ u.open = t.open
        /\ u.since = t.since /\ u.att = a
    BY <1>1, <2>2, <2>3 DEF Connections
  <2>5. Attached(u) /\ ~s.att.peer
    BY <1>1, <1>5, <2>2, <2>4, NotAttachedKind DEF Attached
  <2>6. ConnectionInd(u, document, k.doc) /\ Untold(s, u)
    BY <1>1, <1>2, <1>5, <2>2, <2>4, <2>5, PendingAssumption DEF ConnectionInd, Untold, UpKinds
  <2>7. JoinOnItsWay(u)
    BY <2>4, <2>5 DEF JoinOnItsWay
  <2>8. Keeps(k, s, u, document, E, V)
    BY <1>1, <2>4, <2>5, <2>6, <2>7, StayKeeps
  <2> QED BY <1>5, <2>1, <2>3, <2>8
<1> QED BY <1>3, <1>4, <1>5

\* The row that cannot be read.
LEMMA JoinUnreadableKeeps ==
  ASSUME NEW E, NEW V, NEW D, NEW k, NEW s \in Connections(E, V), ConnectionInd(s, D, k.doc),
         s.busy = "reading", NEW t, t = Done(s)
  PROVE  Keeps(k, s, FailCircuit(t, "DATABASE_UNAVAILABLE"), D, E, V)
<1>1. /\ t \in Connections(E, V) /\ t.att = s.att /\ t.up = s.up /\ t.busy = "idle"
      /\ t.down = s.down /\ t.open = s.open /\ t.since = s.since
  BY DEF Done, Connections, Access
<1>2. ConnectionInd(t, D, k.doc) /\ (Wired(s) => Wired(t))
  BY <1>1 DEF ConnectionInd, Attached, UpKinds, Wired
<1> QED BY <1>1, <1>2, RefusalKeeps

\* The document answers, or is refused.
LEMMA JoinAttachesKeeps ==
  ASSUME NEW E, NEW V, document \subseteq E, NEW k, NEW s \in Connections(E, V), ConnectionInd(s, document, k.doc),
         s.busy = "building", NEW t, t = [s EXCEPT !.busy = "idle"]
  PROVE  /\ Attached(t) /\ t.open => Keeps(k, s, Joined([t EXCEPT !.att.peer = TRUE]), document, E, V)
         /\ ~(Attached(t) /\ t.open) => Keeps(k, s, [t EXCEPT !.att = NotAttached], document, E, V)
<1>1. /\ t \in Connections(E, V) /\ t.att = s.att /\ t.up = s.up /\ t.busy = "idle"
      /\ t.down = s.down /\ t.open = s.open /\ t.since = s.since
  BY DEF Connections
<1>2. ASSUME Attached(t) /\ t.open PROVE Keeps(k, s, Joined([t EXCEPT !.att.peer = TRUE]), document, E, V)
  <2>1. PICK u : u = [t EXCEPT !.att.peer = TRUE]
    OBVIOUS
  <2>2. /\ u \in Connections(E, V) /\ u.up = t.up /\ u.busy = "idle" /\ u.down = t.down /\ u.open = t.open
        /\ u.since = t.since /\ u.att.peer /\ u.att.queue = t.att.queue /\ u.att.access = t.att.access
    BY <1>1, <2>1 DEF Connections, Attachments
  <2>3. ConnectionInd(u, document, k.doc) /\ Untold(s, u)
    BY <1>1, <1>2, <2>2 DEF ConnectionInd, Attached, Untold, UpKinds
  <2> QED BY <1>1, <2>1, <2>2, <2>3, JoinedKeeps
<1>3. ASSUME ~(Attached(t) /\ t.open) PROVE Keeps(k, s, [t EXCEPT !.att = NotAttached], document, E, V)
  <2>1. PICK u : u = [t EXCEPT !.att = NotAttached]
    OBVIOUS
  <2>2. /\ u \in Connections(E, V) /\ u.up = t.up /\ u.busy = "idle" /\ u.down = t.down /\ u.open = t.open
        /\ u.since = t.since /\ u.att = NotAttached
    BY <1>1, <2>1, NotAttachedKind DEF Connections
  <2>3. ~s.att.peer
    BY DEF ConnectionInd
  <2>4. ConnectionInd(u, document, k.doc)
    BY <1>1, <2>2, NotAttachedKind, PendingAssumption DEF ConnectionInd, Attached
  <2>5. ASSUME Link(k, s, document) PROVE Link(k, u, document)
    <3>1. Wired(s) /\ (s.open => Live(k, s, document))
      BY <2>5, LinkIsWired
    <3>2. Wired(u)
      BY <1>1, <2>2, <3>1 DEF Wired, UpKinds
    <3>3. ASSUME u.open PROVE Live(k, u, document)
      <4>1. ~Attached(s) /\ Live(k, s, document)
        BY <1>1, <1>3, <2>2, <3>1, <3>3 DEF Attached
      <4>2. JoinOnItsWay(s) => JoinOnItsWay(u)
        BY <1>1, <2>2, <4>1 DEF JoinOnItsWay
      <4> QED BY <1>1, <2>2, <2>3, <4>1, <4>2, LiveStays
    <3> QED BY <3>2, <3>3, WiredIsLink
  <2> QED BY <2>1, <2>2, <2>4, <2>5 DEF Keeps
<1> QED BY <1>2, <1>3

\* The document cannot be had.
LEMMA JoinRefusedKeeps ==
  ASSUME NEW E, NEW V, NEW D, NEW k, NEW s \in Connections(E, V), ConnectionInd(s, D, k.doc),
         NEW t, t = [s EXCEPT !.busy = "idle", !.att = NotAttached],
         NEW code \in {"DATABASE_UNAVAILABLE", "CIRCUIT_TOO_LARGE"}
  PROVE  Keeps(k, s, FailCircuit(t, code), D, E, V)
<1>1. /\ t \in Connections(E, V) /\ t.att = NotAttached /\ t.up = s.up /\ t.busy = "idle"
      /\ t.down = s.down /\ t.open = s.open /\ t.since = s.since
  BY NotAttachedKind DEF Connections
<1>2. ConnectionInd(t, D, k.doc) /\ (Wired(s) => Wired(t))
  BY <1>1, NotAttachedKind, PendingAssumption DEF ConnectionInd, Attached, UpKinds, Wired
<1> QED BY <1>1, <1>2, RefusalKeeps

------------------------------------------------------------------------------
(* The updates of a browser, and what becomes of them on the others. *)

\* The decision is asked for again when it is due.
LEMMA RecheckedFacts ==
  ASSUME NEW E, NEW V, NEW s \in Connections(E, V), NEW r, r = Rechecked(s)
  PROVE  /\ r \in Connections(E, V) /\ r.up = s.up /\ r.busy = s.busy /\ r.down = s.down
         /\ r.open = s.open /\ r.since = s.since /\ r.viewer = s.viewer /\ r.expired = s.expired
         /\ r.att.peer = s.att.peer /\ r.att.queue = s.att.queue
         /\ StillAttached(s) => r.att.access # "none"
<1>1. ReadCircuit(s.viewer) \in Access
  BY DEF ReadCircuit, Access
<1>2. CASE s.att.fresh
  BY <1>2 DEF Rechecked, StillAttached
<1>3. CASE ~s.att.fresh
  BY <1>1, <1>3 DEF Rechecked, StillAttached, Connections, Attachments
<1> QED BY <1>2, <1>3

\* A connection whose decision was asked for again.
Reread(t, r) ==
  /\ r.up = t.up /\ r.busy = t.busy /\ r.down = t.down /\ r.open = t.open
  /\ r.att.peer = t.att.peer /\ r.att.queue = t.att.queue

\* Who is still attached is as sound afterwards.
LEMMA RecheckedKeeps ==
  ASSUME NEW E, NEW V, NEW D, NEW doc, NEW t \in Connections(E, V),
         ConnectionInd(t, D, doc), Attached(t), StillAttached(t)
  PROVE  /\ Rechecked(t) \in Connections(E, V) /\ ConnectionInd(Rechecked(t), D, doc)
         /\ Attached(Rechecked(t)) /\ Reread(t, Rechecked(t))
<1>1. PICK r : r = Rechecked(t)
  OBVIOUS
<1>2. /\ r \in Connections(E, V) /\ r.up = t.up /\ r.busy = t.busy /\ r.down = t.down
      /\ r.open = t.open /\ r.since = t.since
      /\ r.att.peer = t.att.peer /\ r.att.queue = t.att.queue /\ r.att.access # "none"
  BY <1>1, RecheckedFacts
<1>3. Attached(r)
  BY <1>2, NotAttachedKind DEF Attached
<1> QED BY <1>1, <1>2, <1>3 DEF ConnectionInd, Reread

\* And its browser was told nothing.
LEMMA RereadUntold ==
  ASSUME NEW s, NEW t, NEW r, Untold(s, t), Reread(t, r)
  PROVE  Untold(s, r)
  BY DEF Untold, Reread, UpKinds

\* A socket asks about its attachment, and is answered too late or not at all.
LEMMA ChecksKeep ==
  ASSUME NEW E, NEW V, NEW D, NEW k, NEW s \in Connections(E, V), ConnectionInd(s, D, k.doc)
  PROVE  /\ s.busy = "idle" =>
              Keeps(k, s, [s EXCEPT !.busy = "checking", !.found = ReadCircuit(s.viewer)], D, E, V)
         /\ s.busy = "checking" => Keeps(k, s, [s EXCEPT !.found = "unknown"], D, E, V)
         /\ s.busy = "checking" => Keeps(k, s, Done(s), D, E, V)
<1>1. ASSUME NEW r \in Connections(E, V), r.att = s.att, r.up = s.up, r.down = s.down, r.open = s.open,
             r.since = s.since, s.busy \in {"idle", "checking"}, r.busy \in {"idle", "checking"}
      PROVE  Keeps(k, s, r, D, E, V)
  <2>1. ConnectionInd(r, D, k.doc) /\ Untold(s, r)
    BY <1>1 DEF ConnectionInd, Attached, Untold, UpKinds
  <2>2. JoinOnItsWay(s) => JoinOnItsWay(r)
    BY <1>1 DEF JoinOnItsWay
  <2> QED BY <1>1, <2>1, <2>2, StayKeeps
<1>2. ASSUME s.busy = "idle"
      PROVE  Keeps(k, s, [s EXCEPT !.busy = "checking", !.found = ReadCircuit(s.viewer)], D, E, V)
  <2>1. PICK r : r = [s EXCEPT !.busy = "checking", !.found = ReadCircuit(s.viewer)]
    OBVIOUS
  <2>2. /\ r \in Connections(E, V) /\ r.att = s.att /\ r.up = s.up /\ r.down = s.down /\ r.open = s.open
        /\ r.since = s.since /\ r.busy = "checking"
    BY <2>1, ReadCircuitKind DEF Connections
  <2> QED BY <1>1, <1>2, <2>1, <2>2
<1>3. ASSUME s.busy = "checking" PROVE Keeps(k, s, [s EXCEPT !.found = "unknown"], D, E, V)
  <2>1. PICK r : r = [s EXCEPT !.found = "unknown"]
    OBVIOUS
  <2>2. /\ r \in Connections(E, V) /\ r.att = s.att /\ r.up = s.up /\ r.down = s.down /\ r.open = s.open
        /\ r.since = s.since /\ r.busy = "checking"
    BY <1>3, <2>1 DEF Connections
  <2> QED BY <1>1, <1>3, <2>1, <2>2
<1>4. ASSUME s.busy = "checking" PROVE Keeps(k, s, Done(s), D, E, V)
  <2>1. PICK r : r = Done(s)
    OBVIOUS
  <2>2. /\ r \in Connections(E, V) /\ r.att = s.att /\ r.up = s.up /\ r.down = s.down /\ r.open = s.open
        /\ r.since = s.since /\ r.busy = "idle"
    BY <2>1 DEF Done, Connections, Access
  <2> QED BY <1>1, <1>4, <2>1, <2>2
<1> QED BY <1>2, <1>3, <1>4

\* Two steps make one.
LEMMA KeepsOn ==
  ASSUME NEW E, NEW V, NEW D, NEW k, NEW s, NEW t, NEW r, Keeps(k, s, t, D, E, V), Keeps(k, t, r, D, E, V)
  PROVE  Keeps(k, s, r, D, E, V)
  BY DEF Keeps

\* A connection whose question was answered.
Asked(s, a) ==
  /\ a.up = s.up /\ a.busy = s.busy /\ a.open = s.open
  /\ ~s.open => a.down = s.down

\* The answer ends the attachment, or is what it holds from now on.
LEMMA AnsweredKeeps ==
  ASSUME NEW E, NEW V, NEW D, NEW k, NEW s \in Connections(E, V), ConnectionInd(s, D, k.doc),
         NEW a, a = Answered(s)
  PROVE  /\ a \in Connections(E, V) /\ ConnectionInd(a, D, k.doc) /\ Asked(s, a)
         /\ Keeps(k, s, a, D, E, V)
<1>1. CASE s.busy # "checking" \/ s.found = "unknown" \/ ~Attached(s)
  BY <1>1 DEF Answered, Asked, Keeps
<1>2. CASE ~(s.busy # "checking" \/ s.found = "unknown" \/ ~Attached(s)) /\ s.found = "none"
  <2>1. UpInd(s, k.doc)
    BY ConnectionUps
  <2>2. a = EndAttachment(s, "unauthorised")
    BY <1>2 DEF Answered
  <2>3. a \in Connections(E, V) /\ ConnectionInd(a, D, k.doc) /\ (Wired(s) => Link(k, a, D))
    BY <1>2, <2>1, <2>2, EndKeeps DEF Reasons
  <2>4. PICK t : t = [s EXCEPT !.att = NotAttached]
    OBVIOUS
  <2>5. t \in Connections(E, V) /\ t.up = s.up /\ t.busy = s.busy /\ t.open = s.open /\ t.down = s.down
    BY <2>4, NotAttachedKind DEF Connections
  <2>6. PICK f : f = [type |-> "left", reason |-> "unauthorised"]
    OBVIOUS
  <2>7. a = Say(t, f) /\ f \in Downs(E, V)
    BY <1>2, <2>2, <2>4, <2>6 DEF EndAttachment, Downs, Reasons
  <2>8. Told(t, f, a)
    BY <2>5, <2>7, SayFacts
  <2> QED BY <2>3, <2>5, <2>8, LinkIsWired DEF Keeps, Told, Asked
<1>3. CASE ~(s.busy # "checking" \/ s.found = "unknown" \/ ~Attached(s)) /\ s.found # "none"
  <2>1. a = [s EXCEPT !.att.access = s.found, !.att.fresh = TRUE]
    BY <1>3 DEF Answered
  <2>2. /\ a \in Connections(E, V) /\ a.up = s.up /\ a.busy = s.busy /\ a.down = s.down /\ a.open = s.open
        /\ a.since = s.since /\ a.att.peer = s.att.peer /\ a.att.queue = s.att.queue /\ a.att.access = s.found
    <3>1. s.found \in Access
      BY <1>3 DEF Connections
    <3>2. PICK b : b = [s.att EXCEPT !.access = s.found, !.fresh = TRUE]
      OBVIOUS
    <3>3. b \in Attachments(E) /\ b.peer = s.att.peer /\ b.queue = s.att.queue /\ b.access = s.found
      BY <3>1, <3>2 DEF Connections, Attachments
    <3>4. a = [s EXCEPT !.att = b]
      BY <2>1, <3>2 DEF Connections, Attachments
    <3> QED BY <3>3, <3>4 DEF Connections
  <2>3. Attached(a)
    BY <1>3, <2>2, NotAttachedKind DEF Attached
  <2>4. ConnectionInd(a, D, k.doc) /\ Untold(s, a) /\ Asked(s, a)
    BY <1>3, <2>2, <2>3 DEF ConnectionInd, Untold, UpKinds, Asked
  <2>5. JoinOnItsWay(s) => JoinOnItsWay(a)
    BY <2>2, <2>3 DEF JoinOnItsWay
  <2> QED BY <2>2, <2>4, <2>5, StayKeeps
<1> QED BY <1>1, <1>2, <1>3

\* A connection after its update was read.
UpdateRead(s, r) ==
  /\ r.down = s.down /\ r.open = s.open /\ r.att = s.att
  /\ OnlyHeadIsTaken(s, r) /\ (JoinOnItsWay(s) => JoinOnItsWay(r))

EditsAreHeld(f, E, doc) == f.edits \subseteq E /\ f.edits \subseteq doc /\ Upload(f) = f.edits

\* An update that was waited for, or had nothing to wait for: it is answered,
\* taken, and waited for no more.
LEMMA HandledFacts ==
  ASSUME NEW E, NEW V, NEW D, NEW k, NEW s \in Connections(E, V), ConnectionInd(s, D, k.doc),
         s.up # <<>>, Head(s.up).type = "update", s.busy \in {"idle", "checking"},
         NEW a, a = Answered(s), NEW r, r = Handled(s)
  PROVE  /\ a \in Connections(E, V) /\ ConnectionInd(a, D, k.doc)
         /\ Keeps(k, s, a, D, E, V) /\ Asked(s, a)
         /\ r \in Connections(E, V) /\ ConnectionInd(r, D, k.doc) /\ Untold(a, r) /\ UpdateRead(a, r)
         /\ EditsAreHeld(Head(s.up), E, k.doc) /\ (Wired(s) => Wired(r))
<1>1. /\ a \in Connections(E, V) /\ ConnectionInd(a, D, k.doc) /\ Asked(s, a)
      /\ Keeps(k, s, a, D, E, V)
  BY AnsweredKeeps
<1>2. PICK t : t = Taken(a)
  OBVIOUS
<1>3. /\ t \in Connections(E, V) /\ ConnectionInd(t, D, k.doc)
      /\ FrameTaken(a, t) /\ OnlyHeadIsTaken(a, t) /\ Untold(a, t) /\ (Wired(a) => Wired(t))
      /\ Head(a.up) \in Ups(E, V) /\ HeadIsHeld(Head(a.up), k.doc)
  <2>1. a.up # <<>>
    BY <1>1 DEF Asked
  <2> QED BY <1>1, <1>2, <2>1, TakenKeeps
<1>4. r = Done(t)
  BY <1>2 DEF Handled
<1>5. /\ r \in Connections(E, V) /\ r.up = t.up /\ r.busy = "idle" /\ r.down = t.down /\ r.open = t.open
      /\ r.since = t.since /\ r.att = t.att
  BY <1>3, <1>4 DEF Done, Connections, Access
<1>6. ConnectionInd(r, D, k.doc) /\ Untold(a, r)
  BY <1>1, <1>3, <1>5 DEF ConnectionInd, Attached, Untold, UpKinds, Asked, FrameTaken
<1>7. UpdateRead(a, r)
  BY <1>1, <1>3, <1>5 DEF UpdateRead, OnlyHeadIsTaken, FrameTaken, JoinOnItsWay, Asked
<1>8. EditsAreHeld(Head(s.up), E, k.doc)
  BY <1>1, <1>3, UpFields DEF HeadIsHeld, EditsAreHeld, Asked
<1>9. Wired(s) => Wired(r)
  BY <1>1, <1>3, <1>5 DEF Asked, Wired, UpKinds
<1> QED BY <1>1, <1>5, <1>6, <1>7, <1>8, <1>9

\* An update that is refused.
LEMMA UpdateRefusedKeeps ==
  ASSUME NEW E, NEW V, NEW D, NEW k, NEW s \in Connections(E, V), ConnectionInd(s, D, k.doc),
         s.up # <<>>, Head(s.up).type = "update", s.busy \in {"idle", "checking"}, NEW r, r = Handled(s)
  PROVE  Keeps(k, s, IF s.busy = "idle" /\ s.expired THEN Shut(Taken(s))
                     ELSE IF Attached(r) THEN FailCircuit(r, "FORBIDDEN") ELSE r, D, E, V)
<1>1. PICK a : a = Answered(s)
  OBVIOUS
<1>2. /\ a \in Connections(E, V) /\ ConnectionInd(a, D, k.doc) /\ Keeps(k, s, a, D, E, V)
      /\ r \in Connections(E, V) /\ ConnectionInd(r, D, k.doc) /\ Untold(a, r) /\ UpdateRead(a, r)
  BY <1>1, HandledFacts
<1>3. /\ Asks(a.up, "authenticate") => Asks(r.up, "authenticate")
      /\ Head(a.up).type = "update"
  <2>1. a.up = s.up
    BY <1>1, AnsweredKeeps DEF Asked
  <2> QED BY <1>2, <2>1 DEF UpdateRead, OnlyHeadIsTaken
<1>4. CASE s.busy = "idle" /\ s.expired
  <2>1. Taken(s) \in Connections(E, V) /\ UpInd(Taken(s), k.doc) /\ (Wired(s) => Wired(Taken(s)))
    BY TakenKeeps
  <2> QED BY <1>4, <2>1, ShutIsKept
<1>5. CASE ~(s.busy = "idle" /\ s.expired) /\ ~Attached(r)
  <2>1. ~a.att.peer
    BY <1>2, <1>5, NotAttachedKind DEF UpdateRead, Attached
  <2>2. Keeps(k, a, r, D, E, V)
    BY <1>2, <1>3, <2>1, StayKeeps DEF UpdateRead
  <2> QED BY <1>2, <1>5, <2>2, KeepsOn
<1>6. CASE ~(s.busy = "idle" /\ s.expired) /\ Attached(r)
  <2>1. PICK f : f = [type |-> "refused", code |-> "FORBIDDEN"]
    OBVIOUS
  <2>2. /\ f \in Downs(E, V) /\ ~Ending(f) /\ ~Tells(f) /\ Claims(f) = {} /\ f.type # "joined" /\ Denial(f)
    BY <2>1, DenialFacts
  <2>3. Keeps(k, a, Say(r, f), D, E, V)
    BY <1>2, <1>3, <2>2, SayKeeps DEF UpdateRead
  <2>4. Keeps(k, a, FailCircuit(r, "FORBIDDEN"), D, E, V)
    BY <2>1, <2>3 DEF FailCircuit
  <2> QED BY <1>2, <1>6, <2>4, KeepsOn
<1> QED BY <1>4, <1>5, <1>6

\* The connection s becomes r while the document D becomes D2.
Moves2(k, s, r, D, D2, E, V) ==
  /\ r \in Connections(E, V) /\ ConnectionInd(r, D2, k.doc)
  /\ Link(k, s, D) => Link(k, r, D2)

\* An update that is accepted enters the document.
LEMMA UpdateAppliedKeeps ==
  ASSUME NEW E, NEW V, NEW D, NEW k, NEW s \in Connections(E, V), ConnectionInd(s, D, k.doc),
         s.up # <<>>, Head(s.up).type = "update", s.busy \in {"idle", "checking"}
  PROVE  /\ Moves2(k, s, Handled(s), D, D \cup Head(s.up).edits, E, V)
         /\ Head(s.up).edits \in SUBSET E
<1> PICK a : a = Answered(s)
  OBVIOUS
<1> PICK r : r = Handled(s)
  OBVIOUS
<1> PICK D2 : D2 = D \cup Head(s.up).edits
  OBVIOUS
<1>1. /\ a \in Connections(E, V) /\ ConnectionInd(a, D, k.doc) /\ Keeps(k, s, a, D, E, V) /\ Asked(s, a)
      /\ r \in Connections(E, V) /\ ConnectionInd(r, D, k.doc) /\ Untold(a, r) /\ UpdateRead(a, r)
      /\ EditsAreHeld(Head(s.up), E, k.doc)
  BY HandledFacts
<1>2. ConnectionInd(r, D2, k.doc)
  BY <1>1 DEF ConnectionInd
<1>3. ASSUME Link(k, s, D) PROVE Link(k, r, D2)
  <2>1. Link(k, a, D)
    BY <1>1, <1>3 DEF Keeps
  <2>2. Wired(a) /\ (a.open => Live(k, a, D))
    BY <2>1, LinkIsWired
  <2>3. Wired(r)
    BY <1>1, <2>2 DEF Wired, Untold, UpdateRead
  <2>4. ASSUME r.open PROVE Live(k, r, D2)
    <3>1. Live(k, a, D) /\ D \subseteq D2 /\ \A x \in D2 : x \in D \/ x \in k.doc
      BY <1>1, <2>2, <2>4 DEF UpdateRead, EditsAreHeld
    <3>2. /\ \A x \in k.doc : Goes(a.up, x) => Goes(r.up, x) \/ x \in D2
          /\ Asks(a.up, "authenticate") => Asks(r.up, "authenticate")
      BY <1>1 DEF UpdateRead, EditsAreHeld, OnlyHeadIsTaken, Asked
    <3> QED BY <1>1, <3>1, <3>2, LiveStays DEF UpdateRead
  <2> QED BY <2>3, <2>4, WiredIsLink
<1> QED BY <1>1, <1>2, <1>3 DEF EditsAreHeld, Moves2

\* Or is larger than a frame may be.
LEMMA UpdateTooLargeKeeps ==
  ASSUME NEW E, NEW V, NEW D, NEW k, NEW s \in Connections(E, V), ConnectionInd(s, D, k.doc),
         s.up # <<>>, Head(s.up).type = "update", s.busy \in {"idle", "checking"}
  PROVE  Keeps(k, s, FailCircuit(Handled(s), "PAYLOAD_TOO_LARGE"), D, E, V)
<1>1. PICK a : a = Answered(s)
  OBVIOUS
<1>2. PICK r : r = Handled(s)
  OBVIOUS
<1>3. /\ a \in Connections(E, V) /\ Keeps(k, s, a, D, E, V) /\ Asked(s, a)
      /\ r \in Connections(E, V) /\ ConnectionInd(r, D, k.doc) /\ Untold(a, r) /\ UpdateRead(a, r)
  BY <1>1, <1>2, HandledFacts
<1>4. PICK f : f = [type |-> "refused", code |-> "PAYLOAD_TOO_LARGE"]
  OBVIOUS
<1>5. /\ f \in Downs(E, V) /\ ~Ending(f) /\ ~Tells(f) /\ Claims(f) = {} /\ f.type # "joined" /\ Denial(f)
  BY <1>4, DenialFacts
<1>6. Asks(a.up, "authenticate") => Asks(r.up, "authenticate")
  BY <1>3 DEF UpdateRead, OnlyHeadIsTaken, Asked
<1>7. Keeps(k, a, Say(r, f), D, E, V)
  BY <1>3, <1>5, <1>6, SayKeeps DEF UpdateRead
<1> QED BY <1>2, <1>3, <1>4, <1>7, KeepsOn DEF FailCircuit

\* The document is let go: whoever is a peer is told, and whoever is not had
\* nothing of it.
LEMMA GoneKeeps ==
  ASSUME NEW E, NEW V, NEW D, NEW k, NEW s \in Connections(E, V), ConnectionInd(s, D, k.doc), NEW D2
  PROVE  Moves2(k, s, Gone(s), D, D2, E, V)
<1>1. CASE s.att.peer
  <2>1. Attached(s) /\ UpInd(s, k.doc)
    BY <1>1, NotAttachedKind, ConnectionUps DEF Attached
  <2>2. PICK r : r = EndAttachment(s, "gone")
    OBVIOUS
  <2>3. r \in Connections(E, V) /\ ConnectionInd(r, D2, k.doc) /\ (Wired(s) => Link(k, r, D2))
    BY <2>1, <2>2, EndKeeps DEF Reasons
  <2> QED BY <1>1, <2>2, <2>3, LinkIsWired DEF Gone, Moves2
<1>2. CASE ~s.att.peer
  <2>1. ConnectionInd(s, D2, k.doc)
    <3>1. s.att.queue = <<>> /\ s.att.queue \in Seq(SUBSET E)
      BY <1>2 DEF ConnectionInd, Connections, Attachments
    <3>2. DOMAIN s.att.queue = {}
      BY <3>1, EmptySeq
    <3> QED BY <3>2 DEF ConnectionInd
  <2>2. ASSUME Link(k, s, D) PROVE Link(k, s, D2)
    <3>1. Wired(s) /\ (s.open => Live(k, s, D))
      BY <2>2, LinkIsWired
    <3>2. s.open => Live(k, s, D2)
      BY <1>2, <3>1, LiveStays
    <3> QED BY <3>1, <3>2, WiredIsLink
  <2> QED BY <1>2, <2>1, <2>2 DEF Gone, Moves2
<1> QED BY <1>1, <1>2

\* The update of another.
LEMMA DeliverKeeps ==
  ASSUME NEW E, NEW V, NEW D, NEW k, NEW s \in Connections(E, V), ConnectionInd(s, D, k.doc),
         NEW edits \in SUBSET E, NEW D2, D2 = D \cup edits
  PROVE  Moves2(k, s, Deliver(s, edits), D, D2, E, V)
<1>1. CASE ~s.att.peer
  <2>1. Deliver(s, edits) = s /\ Gone(s) = s
    BY <1>1 DEF Deliver, Gone
  <2> QED BY <2>1, GoneKeeps
<1>2. CASE s.att.peer /\ Len(s.att.queue) >= MaxPending
  <2>1. Attached(s) /\ UpInd(s, k.doc)
    BY <1>2, NotAttachedKind, ConnectionUps DEF Attached
  <2>2. PICK r : r = EndAttachment(s, "overloaded")
    OBVIOUS
  <2>3. r \in Connections(E, V) /\ ConnectionInd(r, D2, k.doc) /\ (Wired(s) => Link(k, r, D2))
    BY <2>1, <2>2, EndKeeps DEF Reasons
  <2> QED BY <1>2, <2>2, <2>3, LinkIsWired DEF Deliver, Moves2
<1>3. CASE s.att.peer /\ ~(Len(s.att.queue) >= MaxPending)
  <2>1. s.att.queue \in Seq(SUBSET E)
    BY DEF Connections, Attachments
  <2>2. PICK q : q = Append(s.att.queue, edits)
    OBVIOUS
  <2>3. /\ q \in Seq(SUBSET E) /\ Len(q) = Len(s.att.queue) + 1 /\ Len(s.att.queue) \in Nat
        /\ \A i \in DOMAIN s.att.queue : q[i] = s.att.queue[i]
        /\ q[Len(s.att.queue) + 1] = edits
        /\ \A i \in DOMAIN q : i \in DOMAIN s.att.queue \/ i = Len(s.att.queue) + 1
    BY <2>1, <2>2, AppendFacts
  <2>4. \A x : Waits(q, x) <=> Waits(s.att.queue, x) \/ x \in edits
    <3>1. /\ \A i \in DOMAIN s.att.queue : i \in DOMAIN q
          /\ Len(s.att.queue) + 1 \in DOMAIN q
      BY <2>1, <2>2, AppendFacts, SMT
    <3> QED BY <2>3, <3>1, Zenon DEF Waits
  <2>5. PICK r : r = [s EXCEPT !.att.queue = q]
    OBVIOUS
  <2>6. /\ r \in Connections(E, V) /\ r.up = s.up /\ r.busy = s.busy /\ r.down = s.down /\ r.open = s.open
        /\ r.since = s.since /\ r.att.peer = s.att.peer /\ r.att.queue = q /\ r.att.access = s.att.access
    BY <2>3, <2>5 DEF Connections, Attachments
  <2>7. Attached(s) /\ Attached(r)
    BY <1>3, <2>6, NotAttachedKind DEF Attached
  <2>8. Len(q) <= MaxPending
    BY <1>3, <2>3, PendingAssumption, SMT
  <2>9. ConnectionInd(r, D2, k.doc)
    <3>1. \A m \in DOMAIN q : q[m] \subseteq D2
      BY <2>3 DEF ConnectionInd
    <3> QED BY <1>3, <2>6, <2>7, <2>8, <3>1 DEF ConnectionInd
  <2>10. ASSUME Link(k, s, D) PROVE Link(k, r, D2)
    <3>1. Wired(s) /\ (s.open => Live(k, s, D))
      BY <2>10, LinkIsWired
    <3>2. Wired(r)
      BY <2>6, <3>1 DEF Wired, UpKinds
    <3>3. ASSUME r.open PROVE Live(k, r, D2)
      <4>1. JoinOnItsWay(s) => JoinOnItsWay(r)
        BY <2>6, <2>7 DEF JoinOnItsWay
      <4>2. \A x \in D2 : x \in D \/ Waits(r.att.queue, x)
        BY <2>4, <2>6
      <4>3. \A x \in D : Waits(s.att.queue, x) => Waits(r.att.queue, x)
        BY <2>4, <2>6
      <4>4. Live(k, s, D) /\ r.down = s.down /\ r.up = s.up /\ r.att.peer /\ D \subseteq D2
        BY <1>3, <2>6, <3>1, <3>3
      <4> QED BY <4>1, <4>2, <4>3, <4>4, LiveStays
    <3> QED BY <3>2, <3>3, WiredIsLink
  <2>11. Deliver(s, edits) = r
    BY <1>3, <2>2, <2>5 DEF Deliver
  <2> QED BY <2>6, <2>9, <2>10, <2>11 DEF Moves2
<1> QED BY <1>1, <1>2, <1>3

\* The update that takes the document past its ceiling.
LEMMA OvergrowsKeeps ==
  ASSUME NEW E, NEW V, NEW D, NEW k, NEW s \in Connections(E, V), ConnectionInd(s, D, k.doc),
         s.up # <<>>, Head(s.up).type = "update", s.busy \in {"idle", "checking"}, NEW D2
  PROVE  Moves2(k, s, FailCircuit(Gone(Handled(s)), "CIRCUIT_TOO_LARGE"), D, D2, E, V)
<1>1. PICK t : t = Handled(s)
  OBVIOUS
<1>2. t \in Connections(E, V) /\ ConnectionInd(t, D, k.doc) /\ (Wired(s) => Wired(t)) /\ UpInd(t, k.doc)
  BY <1>1, HandledFacts, ConnectionUps
<1>3. PICK u : u = Gone(t)
  OBVIOUS
<1>4. u \in Connections(E, V) /\ ConnectionInd(u, D2, k.doc)
  BY <1>2, <1>3, GoneKeeps DEF Moves2
<1>5. Wired(s) => Wired(u)
  <2>1. CASE t.att.peer
    <3>1. Attached(t)
      BY <2>1, NotAttachedKind DEF Attached
    <3>2. PICK r : r = EndAttachment(t, "gone")
      OBVIOUS
    <3>3. Wired(t) => Link(k, r, D2)
      BY <1>2, <3>1, <3>2, EndKeeps DEF Reasons
    <3> QED BY <1>2, <1>3, <2>1, <3>2, <3>3, LinkIsWired DEF Gone
  <2>2. CASE ~t.att.peer
    BY <1>2, <1>3, <2>2 DEF Gone
  <2> QED BY <2>1, <2>2
<1>6. PICK r : r = FailCircuit(u, "CIRCUIT_TOO_LARGE")
  OBVIOUS
<1>7. Keeps(k, u, r, D2, E, V) /\ \A D3 : Wired(u) => Link(k, r, D3)
  BY <1>4, <1>6, RefusalKeeps
<1> QED BY <1>1, <1>3, <1>5, <1>6, <1>7, LinkIsWired DEF Moves2, Keeps

------------------------------------------------------------------------------
(* What the relay does by itself. *)

\* The first of what waits is taken off the queue.
Dequeued(s) == [s EXCEPT !.att.queue = Tail(@)]
Dequeues(s, t) ==
  /\ t.att.access = s.att.access /\ t.att.fresh = s.att.fresh /\ t.viewer = s.viewer /\ t.expired = s.expired
  /\ t.up = s.up /\ t.busy = s.busy /\ t.att.peer /\ s.att.peer
  /\ Head(s.att.queue) = s.att.queue[1] /\ 1 \in DOMAIN s.att.queue
  /\ \A x : Waits(s.att.queue, x) => Waits(t.att.queue, x) \/ x \in Head(s.att.queue)

LEMMA DequeuedKeeps ==
  ASSUME NEW E, NEW V, NEW D, NEW doc, NEW s \in Connections(E, V), ConnectionInd(s, D, doc),
         s.att.queue # <<>>, NEW t, t = Dequeued(s)
  PROVE  /\ t \in Connections(E, V) /\ ConnectionInd(t, D, doc) /\ Attached(t) /\ Untold(s, t)
         /\ Dequeues(s, t) /\ Head(s.att.queue) \in SUBSET E
<1>1. Attached(s) /\ s.att.peer
  BY NotAttachedKind DEF ConnectionInd, Attached
<1>2. s.att.queue \in Seq(SUBSET E)
  BY DEF Connections, Attachments
<1>3. PICK q : q = Tail(s.att.queue)
  OBVIOUS
<1>4. /\ q \in Seq(SUBSET E) /\ Len(q) = Len(s.att.queue) - 1 /\ Len(s.att.queue) \in Nat
      /\ Head(s.att.queue) = s.att.queue[1] /\ Head(s.att.queue) \in SUBSET E
      /\ \A i \in DOMAIN q : i + 1 \in DOMAIN s.att.queue /\ q[i] = s.att.queue[i + 1]
      /\ \A i \in DOMAIN s.att.queue : i = 1 \/ (i - 1 \in DOMAIN q /\ s.att.queue[i] = q[i - 1])
      /\ 1 \in DOMAIN s.att.queue
  <2>1. /\ q \in Seq(SUBSET E) /\ Len(s.att.queue) \in Nat \ {0} /\ Len(q) = Len(s.att.queue) - 1
        /\ DOMAIN s.att.queue = 1 .. Len(s.att.queue)
        /\ Head(s.att.queue) = s.att.queue[1] /\ Head(s.att.queue) \in SUBSET E
        /\ \A i \in DOMAIN q : i + 1 \in DOMAIN s.att.queue /\ q[i] = s.att.queue[i + 1]
        /\ \A i \in DOMAIN s.att.queue : i = 1 \/ (i - 1 \in DOMAIN q /\ s.att.queue[i] = q[i - 1])
    BY <1>2, <1>3, TailFacts, SMT
  <2>2. 1 \in DOMAIN s.att.queue
    BY <2>1, SMT
  <2> QED BY <2>1, <2>2
<1>5. \A x : Waits(s.att.queue, x) => Waits(q, x) \/ x \in Head(s.att.queue)
  BY <1>4, Zenon DEF Waits
<1>6. /\ t \in Connections(E, V) /\ t.up = s.up /\ t.busy = s.busy /\ t.down = s.down /\ t.open = s.open
      /\ t.since = s.since /\ t.att.peer = s.att.peer /\ t.att.queue = q /\ t.att.access = s.att.access
      /\ t.att.fresh = s.att.fresh /\ t.viewer = s.viewer /\ t.expired = s.expired
  BY <1>3, <1>4 DEF Connections, Attachments, Dequeued
<1>7. Attached(t)
  BY <1>1, <1>6, NotAttachedKind DEF Attached
<1>8. Len(q) <= MaxPending
  BY <1>4, PendingAssumption, SMT DEF ConnectionInd
<1>9. \A m \in DOMAIN q : q[m] \subseteq D
  BY <1>4 DEF ConnectionInd
<1>10. ConnectionInd(t, D, doc) /\ Untold(s, t)
  BY <1>1, <1>6, <1>7, <1>8, <1>9 DEF ConnectionInd, Untold, UpKinds
<1>11. Dequeues(s, t)
  BY <1>1, <1>4, <1>5, <1>6 DEF Dequeues
<1> QED BY <1>4, <1>6, <1>7, <1>10, <1>11

\* And told.
LEMMA ToldKeeps ==
  ASSUME NEW E, NEW V, NEW D, NEW k, NEW s \in Connections(E, V), ConnectionInd(s, D, k.doc),
         s.att.queue # <<>>, NEW t, t = Dequeued(s),
         NEW u \in Connections(E, V), ConnectionInd(u, D, k.doc), Untold(s, u), Reread(t, u)
  PROVE  Keeps(k, s, Say(u, [type |-> "update", edits |-> Head(s.att.queue)]), D, E, V)
<1>1. Dequeues(s, t) /\ Head(s.att.queue) \in SUBSET E
  BY DequeuedKeeps
<1>2. PICK f : f = [type |-> "update", edits |-> Head(s.att.queue)]
  OBVIOUS
<1>3. f \in Downs(E, V) /\ ~Ending(f) /\ f.type = "update" /\ Content(f) = Head(s.att.queue) /\ Claims(f) = Head(s.att.queue)
  BY <1>1, <1>2 DEF Downs, Ending, Content, Claims
<1>4. Claims(f) \subseteq D
  BY <1>1, <1>3 DEF Dequeues, ConnectionInd
<1>5. /\ u.att.peer /\ u.up = s.up /\ (JoinOnItsWay(s) => JoinOnItsWay(u))
      /\ \A x \in D : Waits(s.att.queue, x) => Waits(u.att.queue, x) \/ x \in Content(f)
  BY <1>1, <1>3 DEF Dequeues, Reread, JoinOnItsWay, ConnectionInd
<1>6. Keeps(k, s, Say(u, f), D, E, V)
  BY <1>3, <1>4, <1>5, SayKeeps
<1> QED BY <1>2, <1>6

\* A delivery, behind the check of who may still hear it.
LEMMA DeliverUpdateKeeps ==
  ASSUME NEW E, NEW V, NEW D, NEW k, NEW s \in Connections(E, V), ConnectionInd(s, D, k.doc),
         s.att.queue # <<>>, NEW t, t = Dequeued(s)
  PROVE  Keeps(k, s, IF s.expired THEN Shut(s)
                     ELSE IF ~StillAttached(s) THEN EndAttachment(s, "unauthorised")
                     ELSE Say(Rechecked(t), [type |-> "update", edits |-> Head(s.att.queue)]), D, E, V)
<1>1. UpInd(s, k.doc) /\ Attached(s) /\ s.att.peer
  BY ConnectionUps, NotAttachedKind DEF ConnectionInd, Attached
<1>2. PICK said : said = [type |-> "update", edits |-> Head(s.att.queue)]
  OBVIOUS
<1>3. /\ t \in Connections(E, V) /\ ConnectionInd(t, D, k.doc) /\ Attached(t) /\ Untold(s, t)
      /\ t.att.access = s.att.access /\ t.att.fresh = s.att.fresh /\ t.viewer = s.viewer /\ t.expired = s.expired
  <2>1. t \in Connections(E, V) /\ ConnectionInd(t, D, k.doc) /\ Attached(t) /\ Untold(s, t) /\ Dequeues(s, t)
    BY DequeuedKeeps
  <2> QED BY <2>1 DEF Dequeues
<1>4. CASE s.expired
  BY <1>1, <1>4, ShutIsKept
<1>5. CASE ~s.expired /\ ~StillAttached(s)
  BY <1>1, <1>5, EndIsKept DEF Reasons
<1>6. CASE ~s.expired /\ StillAttached(s)
  <2>1. PICK u : u = Rechecked(t)
    OBVIOUS
  <2>2. StillAttached(t)
    <3>1. (Rechecked(t)).att.access = (Rechecked(s)).att.access
      BY <1>3 DEF Rechecked, Connections, Attachments
    <3> QED BY <1>3, <1>6, <3>1 DEF StillAttached
  <2>3. u \in Connections(E, V) /\ ConnectionInd(u, D, k.doc) /\ Reread(t, u)
    BY <1>3, <2>1, <2>2, RecheckedKeeps
  <2>4. Untold(s, u)
    BY <1>3, <2>3, RereadUntold
  <2>5. Keeps(k, s, Say(u, said), D, E, V)
    BY <1>2, <2>3, <2>4, ToldKeeps
  <2> QED BY <1>2, <1>6, <2>1, <2>5
<1> QED BY <1>4, <1>5, <1>6

\* And without, if the database does not answer.
LEMMA DeliverUncheckedKeeps ==
  ASSUME NEW E, NEW V, NEW D, NEW k, NEW s \in Connections(E, V), ConnectionInd(s, D, k.doc),
         s.att.queue # <<>>, NEW t, t = Dequeued(s)
  PROVE  Keeps(k, s, Say(t, [type |-> "update", edits |-> Head(s.att.queue)]), D, E, V)
<1>1. t \in Connections(E, V) /\ ConnectionInd(t, D, k.doc) /\ Untold(s, t)
  BY DequeuedKeeps
<1>2. Reread(t, t)
  BY DEF Reread
<1> QED BY <1>1, <1>2, ToldKeeps

\* The sweep.
LEMMA SweepKeeps ==
  ASSUME NEW E, NEW V, NEW D, NEW k, NEW s \in Connections(E, V), ConnectionInd(s, D, k.doc),
         s.expired \/ Attached(s)
  PROVE  Keeps(k, s, IF s.expired THEN Shut(s)
                     ELSE IF StillAttached(s) THEN Rechecked(s)
                     ELSE EndAttachment(s, "unauthorised"), D, E, V)
<1>1. UpInd(s, k.doc) /\ Untold(s, s)
  BY ConnectionUps DEF Untold
<1>2. CASE s.expired
  BY <1>1, <1>2, ShutIsKept
<1>3. CASE ~s.expired /\ ~StillAttached(s)
  BY <1>1, <1>3, EndIsKept DEF Reasons
<1>4. CASE ~s.expired /\ StillAttached(s)
  <2>1. PICK r : r = Rechecked(s)
    OBVIOUS
  <2>2. /\ r \in Connections(E, V) /\ ConnectionInd(r, D, k.doc) /\ Untold(s, r) /\ Attached(r)
        /\ Reread(s, r)
    <3>1. Attached(s) /\ StillAttached(s)
      BY <1>4
    <3> QED BY <1>1, <2>1, <3>1, RecheckedKeeps, RereadUntold
  <2>3. r.up = s.up /\ r.att.queue = s.att.queue /\ (JoinOnItsWay(s) => JoinOnItsWay(r))
    BY <2>2 DEF Reread, JoinOnItsWay
  <2>4. Keeps(k, s, r, D, E, V)
    BY <2>2, <2>3, StayKeeps
  <2> QED BY <1>4, <2>1, <2>4
<1> QED BY <1>2, <1>3, <1>4

\* A decision ages, or is kept for want of a better one.
LEMMA FreshnessKeeps ==
  ASSUME NEW E, NEW V, NEW D, NEW k, NEW s \in Connections(E, V), ConnectionInd(s, D, k.doc),
         Attached(s), NEW fresh \in BOOLEAN
  PROVE  Keeps(k, s, [s EXCEPT !.att.fresh = fresh], D, E, V)
<1>1. PICK r : r = [s EXCEPT !.att.fresh = fresh]
  OBVIOUS
<1>2. /\ r \in Connections(E, V) /\ r.up = s.up /\ r.busy = s.busy /\ r.down = s.down /\ r.open = s.open
      /\ r.since = s.since /\ r.att.peer = s.att.peer /\ r.att.queue = s.att.queue /\ r.att.access = s.att.access
  BY <1>1 DEF Connections, Attachments
<1>3. Attached(r) /\ r.att.access # "none"
  BY <1>2, NotAttachedKind DEF Attached, ConnectionInd
<1>4. ConnectionInd(r, D, k.doc) /\ Untold(s, r) /\ (JoinOnItsWay(s) => JoinOnItsWay(r))
  BY <1>2, <1>3 DEF ConnectionInd, Untold, UpKinds, JoinOnItsWay
<1>5. Keeps(k, s, r, D, E, V)
  BY <1>2, <1>4, StayKeeps
<1> QED BY <1>1, <1>5

\* A credential expires.
LEMMA ExpiresKeeps ==
  ASSUME NEW E, NEW V, NEW D, NEW k, NEW s \in Connections(E, V), ConnectionInd(s, D, k.doc)
  PROVE  Keeps(k, s, [s EXCEPT !.expired = TRUE], D, E, V)
<1>1. PICK r : r = [s EXCEPT !.expired = TRUE]
  OBVIOUS
<1>2. /\ r \in Connections(E, V) /\ r.up = s.up /\ r.busy = s.busy /\ r.down = s.down /\ r.open = s.open
      /\ r.since = s.since /\ r.att = s.att
  BY <1>1 DEF Connections
<1>3. ConnectionInd(r, D, k.doc) /\ Untold(s, r) /\ (JoinOnItsWay(s) => JoinOnItsWay(r))
  BY <1>2 DEF ConnectionInd, Untold, UpKinds, JoinOnItsWay, Attached
<1>4. Keeps(k, s, r, D, E, V)
  BY <1>2, <1>3, StayKeeps
<1> QED BY <1>1, <1>4

\* A browser that left is linked to nothing; its frames are read all the same.
LEMMA PartingKeeps ==
  ASSUME NEW E, NEW V, NEW D, NEW k, NEW s \in Connections(E, V), ConnectionInd(s, D, k.doc), s.up # <<>>
  PROVE  /\ Head(s.up).type = "leave" =>
              Keeps(k, s, Alive(Taken(s), [Taken(s) EXCEPT !.att = NotAttached]), D, E, V)
         /\ s.up[Len(s.up)].type = "bye" => Keeps(k, s, Close(s), D, E, V)
<1>1. s.up \in Seq(Ups(E, V)) /\ 1 \in DOMAIN s.up /\ Head(s.up) = s.up[1] /\ Len(s.up) \in DOMAIN s.up
  <2>1. s.up \in Seq(Ups(E, V))
    BY DEF Connections
  <2> QED BY <2>1, TailFacts, SMT
<1>2. ASSUME NEW n \in DOMAIN s.up, s.up[n].type \in {"leave", "bye"} PROVE ~Link(k, s, D)
  BY <1>2 DEF Link
<1>3. ASSUME Head(s.up).type = "leave"
      PROVE  Keeps(k, s, Alive(Taken(s), [Taken(s) EXCEPT !.att = NotAttached]), D, E, V)
  <2>1. PICK t : t = Taken(s)
    OBVIOUS
  <2>2. t \in Connections(E, V) /\ ConnectionInd(t, D, k.doc) /\ UpInd(t, k.doc) /\ (Wired(s) => Wired(t))
    BY <2>1, TakenKeeps
  <2>3. PICK r : r = [t EXCEPT !.att = NotAttached]
    OBVIOUS
  <2>4. /\ r \in Connections(E, V) /\ r.att = NotAttached /\ r.up = t.up /\ r.since = t.since /\ r.open = t.open
    BY <2>2, <2>3, NotAttachedKind DEF Connections
  <2>5. ConnectionInd(r, D, k.doc)
    BY <2>2, <2>4, NotAttachedKind, PendingAssumption DEF ConnectionInd, Attached
  <2>6. ~Link(k, s, D)
    BY <1>1, <1>2, <1>3
  <2>7. Keeps(k, s, r, D, E, V)
    BY <2>4, <2>5, <2>6 DEF Keeps
  <2> QED BY <2>1, <2>2, <2>3, <2>7, AliveKeeps
<1>4. ASSUME s.up[Len(s.up)].type = "bye" PROVE Keeps(k, s, Close(s), D, E, V)
  <2>1. ~Link(k, s, D)
    BY <1>1, <1>2, <1>4
  <2>2. Close(s) \in Connections(E, V) /\ ConnectionInd(Close(s), D, k.doc)
    <3>1. s.since \subseteq k.doc
      BY DEF ConnectionInd
    <3> QED BY <3>1, CloseKeeps
  <2> QED BY <2>1, <2>2 DEF Keeps
<1> QED BY <1>3, <1>4

------------------------------------------------------------------------------
(* What each step of the relay lets in. *)

\* A step that asks the row, if it asks anybody, and answers to the same viewer.
Tame(s, r) ==
  /\ r.viewer = s.viewer
  /\ r.att.access = "write" => s.att.access = "write" \/ s.found = "write" \/ ReadCircuit(s.viewer) = "write"
  /\ r.att.access = "write" /\ r.att.fresh =>
        (s.att.access = "write" /\ s.att.fresh) \/ s.found = "write" \/ ReadCircuit(s.viewer) = "write"
  /\ r.found = "write" => s.found = "write" \/ ReadCircuit(s.viewer) = "write"
  /\ r.found = "unknown" => s.found = "unknown" /\ r.busy = "checking"
  /\ r.open /\ r.busy = "checking" =>
        s.open /\ s.busy = "checking" /\ (s.up # <<>> => r.up # <<>> /\ Head(r.up) = Head(s.up))

\* Nobody is let in whom the row does not.
Owned(B) == ReadCircuit(Anonymous) # "write" /\ \A w \in B : ReadCircuit(w[1]) # "write"

\* It guards what was guarded.
LEMMA TameGuards ==
  ASSUME NEW B, Owned(B), NEW s, NEW r, Tame(s, r), Guarded(s, B)
  PROVE  Guarded(r, B)
<1>1. r.open /\ r.busy = "checking" => r.up # <<>> /\ Head(r.up).type = "update"
  BY DEF Tame, Guarded
<1>2. r.found = "unknown" => r.busy = "checking"
  BY DEF Tame
<1>3. r.viewer = Anonymous => r.att.access # "write" /\ r.found # "write"
  BY DEF Tame, Guarded, Owned
<1>4. \A w \in B : r.viewer = w[1] => ~(r.att.fresh /\ r.att.access = "write") /\ r.found # "write"
  BY DEF Tame, Guarded, Owned
<1>5. \A w \in B : r.open /\ r.busy = "checking" /\ r.found = "unknown" => w[2] \notin Upload(Head(r.up))
  BY DEF Tame, Guarded
<1> QED BY <1>1, <1>2, <1>3, <1>4, <1>5 DEF Guarded

\* With less to keep out, what was guarded is.
LEMMA FewerGuard ==
  ASSUME NEW B, NEW C, C \subseteq B, NEW s, Guarded(s, B)
  PROVE  Guarded(s, C)
  BY DEF Guarded

\* A connection that differs in what is told, and in how it ends.
LEMMA TameParts ==
  ASSUME NEW E, NEW V, NEW s \in Connections(E, V), s.found = "unknown" => s.busy = "checking"
  PROVE  /\ \A f : Tame(s, Say(s, f))
         /\ Tame(s, Shut(s)) /\ Tame(s, Close(s)) /\ Tame(s, Done(s)) /\ Tame(s, Dequeued(s))
         /\ Tame(s, [s EXCEPT !.att = NotAttached])
         /\ \A reason : Tame(s, EndAttachment(s, reason))
         /\ Tame(s, Gone(s))
         /\ Tame(s, [s EXCEPT !.att.fresh = FALSE]) /\ Tame(s, [s EXCEPT !.expired = TRUE])
         /\ s.busy # "checking" => Tame(s, Taken(s))
         /\ Tame(s, Done(Taken(s)))
         /\ Tame(s, Rechecked(s))
<1>1. \A f : Tame(s, Say(s, f))
  BY DEF Say, Tame, Connections, Attachments
<1>2. Tame(s, Shut(s))
  BY NotAttachedKind DEF Shut, Say, Tame, Connections, Attachments
<1>3. Tame(s, Close(s))
  BY NotAttachedKind DEF Close, Tame, Connections, Attachments
<1>4. Tame(s, Done(s))
  BY DEF Done, Tame, Connections, Attachments
<1>5. Tame(s, Dequeued(s))
  BY DEF Dequeued, Tame, Connections, Attachments
<1>6. Tame(s, [s EXCEPT !.att = NotAttached])
  BY NotAttachedKind DEF Tame, Connections, Attachments
<1>7. ASSUME NEW reason PROVE Tame(s, EndAttachment(s, reason))
  BY NotAttachedKind DEF EndAttachment, Say, Tame, Connections, Attachments
<1>8. Tame(s, s)
  BY DEF Tame, Connections
<1>9. Tame(s, Gone(s))
  BY <1>7, <1>8 DEF Gone
<1>10. Tame(s, [s EXCEPT !.att.fresh = FALSE])
  BY DEF Tame, Connections, Attachments
<1>11. Tame(s, [s EXCEPT !.expired = TRUE])
  BY DEF Tame, Connections, Attachments
<1>12. s.busy # "checking" => Tame(s, Taken(s))
  BY DEF Taken, Tame, Connections, Attachments
<1>13. Tame(s, Done(Taken(s)))
  BY DEF Done, Taken, Tame, Connections, Attachments
<1>14. Tame(s, Rechecked(s))
  BY <1>8 DEF Rechecked, Tame, Connections, Attachments
<1> QED BY <1>1, <1>2, <1>3, <1>4, <1>5, <1>6, <1>7, <1>9, <1>10, <1>11, <1>12, <1>13, <1>14

\* So each of them lets nobody in.
LEMMA PartsGuard ==
  ASSUME NEW E, NEW V, NEW s \in Connections(E, V), NEW B, Owned(B), Guarded(s, B)
  PROVE  /\ \A f : Guarded(Say(s, f), B)
         /\ \A code : Guarded(FailCircuit(s, code), B)
         /\ Guarded(Shut(s), B) /\ Guarded(Close(s), B) /\ Guarded(Done(s), B) /\ Guarded(Dequeued(s), B)
         /\ Guarded([s EXCEPT !.att = NotAttached], B)
         /\ \A reason : Guarded(EndAttachment(s, reason), B)
         /\ Guarded(Gone(s), B)
         /\ Guarded([s EXCEPT !.att.fresh = FALSE], B) /\ Guarded([s EXCEPT !.expired = TRUE], B)
         /\ s.busy # "checking" => Guarded(Taken(s), B)
         /\ Guarded(Done(Taken(s)), B)
         /\ Guarded(Rechecked(s), B)
<1>1. s.found = "unknown" => s.busy = "checking"
  BY DEF Guarded
<1>2. \A f : Guarded(Say(s, f), B)
  BY <1>1, TameParts, TameGuards
<1>3. \A code : Guarded(FailCircuit(s, code), B)
  BY <1>2 DEF FailCircuit
<1>4. /\ Guarded(Shut(s), B) /\ Guarded(Close(s), B) /\ Guarded(Done(s), B) /\ Guarded(Dequeued(s), B)
      /\ Guarded([s EXCEPT !.att = NotAttached], B)
  BY <1>1, TameParts, TameGuards
<1>5. \A reason : Guarded(EndAttachment(s, reason), B)
  BY <1>1, TameParts, TameGuards
<1>6. /\ Guarded(Gone(s), B)
      /\ Guarded([s EXCEPT !.att.fresh = FALSE], B) /\ Guarded([s EXCEPT !.expired = TRUE], B)
      /\ s.busy # "checking" => Guarded(Taken(s), B)
  BY <1>1, TameParts, TameGuards
<1>7. Guarded(Done(Taken(s)), B) /\ Guarded(Rechecked(s), B)
  BY <1>1, TameParts, TameGuards
<1> QED BY <1>2, <1>3, <1>4, <1>5, <1>6, <1>7

\* A frame that is read while the socket waits for nothing.
LEMMA ReadsGuard ==
  ASSUME NEW E, NEW V, NEW D, NEW doc, NEW s \in Connections(E, V), ConnectionInd(s, D, doc),
         s.up # <<>>, s.busy = "idle", NEW B, Owned(B), Guarded(s, B), NEW t, t = Taken(s)
  PROVE  /\ t \in Connections(E, V) /\ Guarded(t, B)
         /\ \A r : Guarded(r, B) => Guarded(Alive(t, r), B)
<1>1. t \in Connections(E, V)
  BY TakenFacts, ConnectionUps
<1>2. Guarded(t, B)
  BY PartsGuard
<1>3. Guarded(Shut(t), B)
  BY <1>1, <1>2, PartsGuard
<1> QED BY <1>1, <1>2, <1>3 DEF Alive

\* The greeting of a token: from then on the socket answers to its user.
LEMMA AuthenticateGuards ==
  ASSUME NEW E, NEW p, NEW D, NEW doc, NEW s \in Connections(E, {Anonymous, p}), ConnectionInd(s, D, doc),
         s.up # <<>>, s.busy = "idle", NEW B, Owned(B), Guarded(s, B), NEW t, t = Taken(s),
         Head(s.up).type = "authenticate", NEW viewer, viewer = Head(s.up).viewer
  PROVE  /\ Guarded(Alive(t, Say([t EXCEPT !.viewer = viewer], [type |-> "ready", viewer |-> viewer])), B)
         /\ Guarded(Alive(t, Say(t, [type |-> "error"])), B)
<1> PICK V : V = {Anonymous, p}
  OBVIOUS
<1>1. t \in Connections(E, V) /\ Guarded(t, B) /\ \A r : Guarded(r, B) => Guarded(Alive(t, r), B)
  BY ReadsGuard
<1>2. viewer \in V /\ viewer # Anonymous /\ t.busy = "idle" /\ t.viewer = s.viewer
  <2>1. Head(s.up) \in Ups(E, V)
    BY TakenFacts, ConnectionUps
  <2> QED BY <2>1, UpFields, TakenFacts, ConnectionUps DEF FrameTaken
<1>3. PICK u : u = [t EXCEPT !.viewer = viewer]
  OBVIOUS
<1>4. /\ u \in Connections(E, V) /\ u.viewer = viewer /\ u.busy = "idle" /\ u.att = t.att /\ u.found = t.found
      /\ u.open = t.open
  BY <1>1, <1>2, <1>3 DEF Connections
<1>5. Guarded(u, B)
  <2>1. CASE t.viewer = viewer
    BY <1>1, <1>2, <1>4, <2>1 DEF Guarded
  <2>2. CASE t.viewer = Anonymous
    BY <1>1, <1>2, <1>4, <2>2 DEF Guarded
  <2>3. t.viewer \in V
    BY <1>1 DEF Connections
  <2> QED BY <1>2, <2>1, <2>2, <2>3
<1>6. Guarded(Say(u, [type |-> "ready", viewer |-> viewer]), B)
  BY <1>4, <1>5, PartsGuard
<1>7. Guarded(Say(t, [type |-> "error"]), B)
  BY <1>1, PartsGuard
<1> QED BY <1>1, <1>3, <1>6, <1>7

\* A join asks the row.
LEMMA JoinFrameGuards ==
  ASSUME NEW E, NEW V, NEW D, NEW doc, NEW s \in Connections(E, V), ConnectionInd(s, D, doc),
         s.up # <<>>, s.busy = "idle", NEW B, Owned(B), Guarded(s, B), NEW t, t = Taken(s), NEW since
  PROVE  Guarded(Alive(t, [t EXCEPT !.busy = "reading", !.since = since, !.found = ReadCircuit(t.viewer)]), B)
<1>1. t \in Connections(E, V) /\ Guarded(t, B) /\ \A r : Guarded(r, B) => Guarded(Alive(t, r), B)
  BY ReadsGuard
<1>2. PICK u : u = [t EXCEPT !.busy = "reading", !.since = since, !.found = ReadCircuit(t.viewer)]
  OBVIOUS
<1>3. Tame(t, u)
  BY <1>1, <1>2, ReadCircuitKind DEF Tame, Connections
<1>4. Guarded(u, B)
  BY <1>1, <1>3, TameGuards
<1> QED BY <1>1, <1>2, <1>4

\* And holds what it answers.
LEMMA JoinDecidedGuards ==
  ASSUME NEW E, NEW V, NEW s \in Connections(E, V), s.busy = "reading",
         NEW B, Owned(B), Guarded(s, B), NEW t, t = Done(s), NEW access \in Access, access = s.found
  PROVE  Guarded(IF access = "none"
                 THEN EndAttachment(FailCircuit(t, "NOT_FOUND"), "unauthorised")
                 ELSE IF Attached(t)
                 THEN Joined([t EXCEPT !.att.access = access, !.att.fresh = TRUE])
                 ELSE [t EXCEPT !.busy = "building",
                                !.att = [NotAttached EXCEPT !.access = access, !.fresh = TRUE]], B)
<1>1. t \in Connections(E, V) /\ t.busy = "idle" /\ t.found = "none" /\ t.att = s.att /\ t.viewer = s.viewer
  BY DEF Done, Connections, Access
<1>2. Guarded(t, B)
  BY PartsGuard
<1>3. PICK a : a = FailCircuit(t, "NOT_FOUND")
  OBVIOUS
<1>4. Guarded(EndAttachment(a, "unauthorised"), B)
  <2>1. a \in Connections(E, V)
    <3>1. [type |-> "refused", code |-> "NOT_FOUND"] \in Downs(E, V)
      BY DEF Downs, Codes
    <3> QED BY <1>1, <1>3, <3>1, SayFacts DEF FailCircuit
  <2>2. Guarded(a, B)
    BY <1>1, <1>2, <1>3, PartsGuard
  <2> QED BY <2>1, <2>2, PartsGuard
<1>5. PICK u : u = [t EXCEPT !.att.access = access, !.att.fresh = TRUE]
  OBVIOUS
<1>6. Guarded(Joined(u), B)
  <2>1. /\ u \in Connections(E, V) /\ u.busy = "idle" /\ u.found = "none" /\ u.viewer = s.viewer
        /\ u.att.access = s.found
    BY <1>1, <1>5 DEF Connections, Attachments
  <2>2. Tame(s, u)
    BY <2>1 DEF Tame
  <2>3. Guarded(u, B)
    BY <2>2, TameGuards
  <2> QED BY <2>1, <2>3, PartsGuard DEF Joined
<1>7. PICK v : v = [t EXCEPT !.busy = "building", !.att = [NotAttached EXCEPT !.access = access, !.fresh = TRUE]]
  OBVIOUS
<1>8. Guarded(v, B)
  <2>1. v.busy = "building" /\ v.found = "none" /\ v.viewer = s.viewer /\ v.att.access = s.found
    BY <1>1, <1>7, NotAttachedKind DEF Connections, Attachments
  <2>2. Tame(s, v)
    BY <2>1 DEF Tame
  <2> QED BY <2>2, TameGuards
<1> QED BY <1>3, <1>4, <1>5, <1>6, <1>7, <1>8

\* The document answers, or does not.
LEMMA JoinAttachesGuards ==
  ASSUME NEW E, NEW V, NEW s \in Connections(E, V), s.busy = "building", NEW B, Owned(B), Guarded(s, B)
  PROVE  /\ LET t == [s EXCEPT !.busy = "idle"]
            IN  /\ Guarded(Joined([t EXCEPT !.att.peer = TRUE]), B)
                /\ Guarded([t EXCEPT !.att = NotAttached], B)
         /\ \A code : Guarded(FailCircuit([s EXCEPT !.busy = "idle", !.att = NotAttached], code), B)
<1>1. s.found # "unknown"
  BY DEF Guarded
<1>2. PICK t : t = [s EXCEPT !.busy = "idle"]
  OBVIOUS
<1>3. t \in Connections(E, V) /\ t.busy = "idle" /\ t.found = s.found /\ t.att = s.att /\ t.viewer = s.viewer
  BY <1>2 DEF Connections
<1>4. Guarded(t, B)
  <2>1. Tame(s, t)
    BY <1>1, <1>3 DEF Tame
  <2> QED BY <2>1, TameGuards
<1>5. Guarded([t EXCEPT !.att = NotAttached], B)
  BY <1>3, <1>4, PartsGuard
<1>6. PICK u : u = [t EXCEPT !.att.peer = TRUE]
  OBVIOUS
<1>7. u \in Connections(E, V) /\ Guarded(u, B)
  <2>1. /\ u \in Connections(E, V) /\ u.viewer = t.viewer /\ u.att.access = t.att.access /\ u.att.fresh = t.att.fresh
        /\ u.found = t.found /\ u.busy = "idle"
    BY <1>3, <1>6 DEF Connections, Attachments
  <2>2. Tame(t, u)
    BY <1>1, <1>3, <2>1 DEF Tame
  <2> QED BY <1>4, <2>1, <2>2, TameGuards
<1>8. Guarded(Joined(u), B)
  BY <1>7, PartsGuard DEF Joined
<1>9. PICK v : v = [s EXCEPT !.busy = "idle", !.att = NotAttached]
  OBVIOUS
<1>10. v \in Connections(E, V) /\ Guarded(v, B)
  <2>1. v \in Connections(E, V) /\ v = [t EXCEPT !.att = NotAttached]
    BY <1>2, <1>9, NotAttachedKind DEF Connections
  <2> QED BY <1>5, <2>1
<1>11. \A code : Guarded(FailCircuit(v, code), B)
  BY <1>10, PartsGuard
<1> QED BY <1>2, <1>5, <1>6, <1>8, <1>9, <1>11

\* An update asks again, and the question is answered or not.
LEMMA ChecksGuard ==
  ASSUME NEW E, NEW V, NEW s \in Connections(E, V), NEW B, Owned(B), Guarded(s, B)
  PROVE  /\ s.busy = "idle" /\ s.up # <<>> /\ Head(s.up).type = "update" =>
              Guarded([s EXCEPT !.busy = "checking", !.found = ReadCircuit(s.viewer)], B)
         /\ s.busy = "checking" =>
              \A C : C \subseteq B /\ (\A w \in C : s.open => w[2] \notin Head(s.up).edits)
                       => Guarded([s EXCEPT !.found = "unknown"], C)
<1>1. ASSUME s.busy = "idle", s.up # <<>>, Head(s.up).type = "update"
      PROVE  Guarded([s EXCEPT !.busy = "checking", !.found = ReadCircuit(s.viewer)], B)
  <2>1. PICK r : r = [s EXCEPT !.busy = "checking", !.found = ReadCircuit(s.viewer)]
    OBVIOUS
  <2>2. /\ r.busy = "checking" /\ r.found = ReadCircuit(s.viewer) /\ r.found # "unknown" /\ r.viewer = s.viewer
        /\ r.att = s.att /\ r.up = s.up /\ r.open = s.open
    BY <2>1, ReadCircuitKind DEF Connections
  <2>3. r.viewer = Anonymous => r.att.access # "write" /\ r.found # "write"
    BY <2>2 DEF Guarded, Owned
  <2>4. \A w \in B : r.viewer = w[1] => ~(r.att.fresh /\ r.att.access = "write") /\ r.found # "write"
    BY <2>2 DEF Guarded, Owned
  <2>5. Guarded(r, B)
    BY <1>1, <2>2, <2>3, <2>4 DEF Guarded
  <2> QED BY <2>1, <2>5
<1>2. ASSUME s.busy = "checking", NEW C, C \subseteq B, \A w \in C : s.open => w[2] \notin Head(s.up).edits
      PROVE  Guarded([s EXCEPT !.found = "unknown"], C)
  <2>1. PICK r : r = [s EXCEPT !.found = "unknown"]
    OBVIOUS
  <2>2. /\ r.busy = "checking" /\ r.found = "unknown" /\ r.viewer = s.viewer
        /\ r.att = s.att /\ r.up = s.up /\ r.open = s.open
    BY <1>2, <2>1 DEF Connections
  <2>3. r.open => Upload(Head(r.up)) = Head(s.up).edits /\ r.up # <<>> /\ Head(r.up).type = "update"
    BY <1>2, <2>2 DEF Guarded, Upload
  <2>4. Guarded(r, C)
    BY <1>2, <2>2, <2>3 DEF Guarded
  <2> QED BY <2>1, <2>4
<1> QED BY <1>1, <1>2

\* The answer is taken as it comes.
LEMMA AnsweredGuards ==
  ASSUME NEW E, NEW V, NEW s \in Connections(E, V), NEW B, Owned(B), Guarded(s, B)
  PROVE  Guarded(Answered(s), B)
<1>1. CASE s.busy # "checking" \/ s.found = "unknown" \/ ~Attached(s)
  BY <1>1 DEF Answered
<1>2. CASE ~(s.busy # "checking" \/ s.found = "unknown" \/ ~Attached(s)) /\ s.found = "none"
  BY <1>2, PartsGuard DEF Answered
<1>3. CASE ~(s.busy # "checking" \/ s.found = "unknown" \/ ~Attached(s)) /\ s.found # "none"
  <2>1. PICK a : a = [s EXCEPT !.att.access = s.found, !.att.fresh = TRUE]
    OBVIOUS
  <2>2. /\ a.viewer = s.viewer /\ a.busy = s.busy /\ a.found = s.found /\ a.up = s.up /\ a.open = s.open
        /\ a.att.access = s.found
    BY <2>1 DEF Connections, Attachments
  <2>3. Tame(s, a)
    BY <1>3, <2>2 DEF Tame
  <2> QED BY <1>3, <2>1, <2>3, TameGuards DEF Answered
<1> QED BY <1>1, <1>2, <1>3

\* Whatever becomes of an update.
LEMMA UpdatesGuard ==
  ASSUME NEW E, NEW V, NEW D, NEW k, NEW s \in Connections(E, V), ConnectionInd(s, D, k.doc),
         s.up # <<>>, Head(s.up).type = "update", s.busy \in {"idle", "checking"},
         NEW B, Owned(B), Guarded(s, B), NEW r, r = Handled(s)
  PROVE  /\ Guarded(r, B)
         /\ \A code : Guarded(FailCircuit(r, code), B) /\ Guarded(FailCircuit(Gone(r), code), B)
         /\ Guarded(IF s.busy = "idle" /\ s.expired THEN Shut(Taken(s))
                    ELSE IF Attached(r) THEN FailCircuit(r, "FORBIDDEN") ELSE r, B)
<1>1. PICK a : a = Answered(s)
  OBVIOUS
<1>2. a \in Connections(E, V) /\ Guarded(a, B)
  BY <1>1, HandledFacts, AnsweredGuards
<1>3. r \in Connections(E, V) /\ Guarded(r, B)
  BY <1>1, <1>2, HandledFacts, PartsGuard DEF Handled
<1>4. \A code : Guarded(FailCircuit(r, code), B)
  BY <1>3, PartsGuard
<1>5. PICK g : g = Gone(r)
  OBVIOUS
<1>6. g \in Connections(E, V) /\ Guarded(g, B)
  <2>1. ConnectionInd(r, D, k.doc)
    BY HandledFacts
  <2> QED BY <1>3, <1>5, <2>1, GoneKeeps, PartsGuard DEF Moves2
<1>7. \A code : Guarded(FailCircuit(g, code), B)
  BY <1>6, PartsGuard
<1>8. s.busy = "idle" => Guarded(Shut(Taken(s)), B)
  <2>1. Taken(s) \in Connections(E, V)
    BY TakenFacts, ConnectionUps
  <2> QED BY <2>1, PartsGuard
<1> QED BY <1>3, <1>4, <1>5, <1>7, <1>8

\* Who has lost the circuit does not write: the decision is asked for before
\* the update is let in, or was not theirs.
LEMMA WritersAreAllowed ==
  ASSUME NEW E, NEW p, NEW s \in Connections(E, {Anonymous, p}), NEW B, Guarded(s, B),
         \/ s.busy = "idle" /\ (s.expired \/ ~Attached(s) \/ s.att.fresh)
         \/ s.busy = "checking" /\ s.open,
         s.up # <<>>, Head(s.up).type = "update", Writes(s), NEW w \in B, w[1] = p
  PROVE  w[2] \notin Head(s.up).edits
<1>1. Attached(Answered(s)) /\ Answered(s).att.access = "write" /\ (s.busy = "checking" \/ ~s.expired)
  BY DEF Writes
<1>2. s.viewer = Anonymous \/ s.viewer = w[1]
  BY DEF Connections
<1>3. CASE s.busy = "idle"
  <2>1. Answered(s) = s
    BY <1>3 DEF Answered
  <2>2. s.att.fresh /\ s.att.access = "write"
    BY <1>1, <1>3, <2>1
  <2> QED BY <1>2, <2>2 DEF Guarded
<1>4. CASE s.busy = "checking" /\ s.open /\ s.found = "unknown"
  BY <1>4 DEF Guarded, Upload
<1>5. CASE s.busy = "checking" /\ s.found # "unknown" /\ ~Attached(s)
  <2>1. Answered(s) = s
    BY <1>5 DEF Answered
  <2> QED BY <1>1, <1>5, <2>1
<1>6. CASE s.busy = "checking" /\ s.found # "unknown" /\ Attached(s) /\ s.found = "none"
  <2>1. Answered(s) = EndAttachment(s, "unauthorised")
    BY <1>6 DEF Answered
  <2>2. (EndAttachment(s, "unauthorised")).att = NotAttached
    BY <1>6 DEF EndAttachment, Say, Connections
  <2> QED BY <1>1, <2>1, <2>2, NotAttachedKind
<1>7. CASE s.busy = "checking" /\ s.found # "unknown" /\ Attached(s) /\ s.found # "none"
  <2>1. Answered(s) = [s EXCEPT !.att.access = s.found, !.att.fresh = TRUE]
    BY <1>7 DEF Answered
  <2>2. Answered(s).att.access = s.found
    BY <2>1 DEF Connections, Attachments
  <2> QED BY <1>1, <1>2, <2>2 DEF Guarded
<1> QED BY <1>3, <1>4, <1>5, <1>6, <1>7

\* What the relay does by itself.
LEMMA DeliversGuard ==
  ASSUME NEW E, NEW V, NEW D, NEW doc, NEW s \in Connections(E, V), ConnectionInd(s, D, doc),
         NEW B, Owned(B), Guarded(s, B)
  PROVE  /\ s.att.queue # <<>> => LET t == Dequeued(s)
                                      f == [type |-> "update", edits |-> Head(s.att.queue)]
                                  IN  Guarded(Say(Rechecked(t), f), B) /\ Guarded(Say(t, f), B)
         /\ \A edits : Guarded(Deliver(s, edits), B)
<1>1. ASSUME s.att.queue # <<>>
      PROVE  LET t == Dequeued(s)
                 f == [type |-> "update", edits |-> Head(s.att.queue)]
             IN  Guarded(Say(Rechecked(t), f), B) /\ Guarded(Say(t, f), B)
  <2>1. PICK t : t = Dequeued(s)
    OBVIOUS
  <2>2. t \in Connections(E, V) /\ Guarded(t, B)
    BY <1>1, <2>1, DequeuedKeeps, PartsGuard
  <2>3. PICK u : u = Rechecked(t)
    OBVIOUS
  <2>4. u \in Connections(E, V)
    BY <2>2, <2>3, ReadCircuitKind DEF Rechecked, Connections, Attachments
  <2>5. Guarded(u, B)
    BY <2>2, <2>3, PartsGuard
  <2>6. \A f : Guarded(Say(u, f), B) /\ Guarded(Say(t, f), B)
    BY <2>2, <2>4, <2>5, PartsGuard
  <2> QED BY <2>1, <2>3, <2>6
<1>2. ASSUME NEW edits PROVE Guarded(Deliver(s, edits), B)
  <2>1. PICK r : r = [s EXCEPT !.att.queue = Append(@, edits)]
    OBVIOUS
  <2>2. /\ r.viewer = s.viewer /\ r.att.access = s.att.access /\ r.att.fresh = s.att.fresh /\ r.found = s.found
        /\ r.busy = s.busy /\ r.up = s.up /\ r.open = s.open
    BY <2>1 DEF Connections, Attachments
  <2>3. Guarded(r, B)
    BY <2>2 DEF Guarded
  <2>4. Guarded(EndAttachment(s, "overloaded"), B)
    BY PartsGuard
  <2> QED BY <2>1, <2>3, <2>4 DEF Deliver
<1> QED BY <1>1, <1>2

------------------------------------------------------------------------------
(* What a browser does with its session. *)

\* The frames it sends it holds.
OutInd(r) == \A n \in DOMAIN r.out : Upload(r.out[n]) \subseteq r.doc /\ Since(r.out[n]) \subseteq r.doc

\* A step of a session, before its frames are on the wire.
Acts(k, r, E, V) ==
  r \in Sessions(E, V) /\ SessionInd(r) /\ k.doc \subseteq r.doc /\ OutInd(r)

\* Sends at most one frame, of a kind a session that goes on sends.
SendsOne(r, E, V) ==
  \/ r.out = <<>>
  \/ \E f \in Ups(E, V) : r.out = <<f>> /\ f.type \in {"authenticate", "join", "update"}

\* A sequence of one frame.
LEMMA OneFrame ==
  ASSUME NEW E, NEW V, NEW f \in Ups(E, V), NEW o, o = Append(<<>>, f)
  PROVE  /\ o = <<f>> /\ o \in Seq(Ups(E, V)) /\ DOMAIN o = {1} /\ o[1] = f
<1>1. <<>> \in Seq(Ups(E, V)) /\ Len(<<>>) = 0
  BY EmptySeq
<1> QED BY <1>1, SMT

\* A frame is sent once there is a socket to send it on.
LEMMA SendFacts ==
  ASSUME NEW E, NEW V, NEW k \in Sessions(E, V), k.out = <<>>, NEW f \in Ups(E, V),
         f.type \in {"authenticate", "join", "update"},
         Upload(f) \subseteq k.doc, Since(f) \subseteq k.doc, SessionInd(k)
  PROVE  /\ Acts(k, Send(k, f), E, V) /\ SendsOne(Send(k, f), E, V)
         /\ ~k.ready => Send(k, f) = k
         /\ k.ready => Send(k, f) = [k EXCEPT !.out = <<f>>] /\ (Send(k, f)).out = <<f>>
<1>1. PICK o : o = Append(<<>>, f)
  OBVIOUS
<1>2. /\ o = <<f>> /\ o \in Seq(Ups(E, V)) /\ DOMAIN o = {1} /\ o[1] = f
  BY <1>1, OneFrame
<1>3. CASE k.ready
  <2>1. PICK r : r = [k EXCEPT !.out = o]
    OBVIOUS
  <2>2. r = Send(k, f)
    BY <1>1, <1>3, <2>1 DEF Send, Sessions
  <2>3. r \in Sessions(E, V) /\ r.out = o /\ r.doc = k.doc
    BY <1>2, <2>1 DEF Sessions
  <2>4. SessionInd(r)
    BY <2>1 DEF SessionInd, Sessions
  <2>5. OutInd(r)
    BY <1>2, <2>3 DEF OutInd
  <2> QED BY <1>2, <1>3, <2>1, <2>2, <2>3, <2>4, <2>5 DEF Acts, SendsOne
<1>4. CASE ~k.ready
  <2>1. Send(k, f) = k
    BY <1>4 DEF Send
  <2>2. OutInd(k)
    BY DEF OutInd
  <2> QED BY <1>4, <2>1, <2>2 DEF Acts, SendsOne
<1> QED BY <1>3, <1>4

\* A frame more is among what is sent.
LEMMA OutAppend ==
  ASSUME NEW E, NEW V, NEW k \in Sessions(E, V), OutInd(k), NEW f \in Ups(E, V),
         Upload(f) \subseteq k.doc, Since(f) \subseteq k.doc, NEW r, r = [k EXCEPT !.out = Append(@, f)]
  PROVE  r \in Sessions(E, V) /\ OutInd(r)
<1>1. PICK o : o = Append(k.out, f)
  OBVIOUS
<1>2. k.out \in Seq(Ups(E, V))
  BY DEF Sessions
<1>3. /\ o \in Seq(Ups(E, V))
      /\ \A i \in DOMAIN k.out : o[i] = k.out[i]
      /\ o[Len(k.out) + 1] = f
      /\ \A i \in DOMAIN o : i \in DOMAIN k.out \/ i = Len(k.out) + 1
  BY <1>1, <1>2, AppendFacts
<1>4. r \in Sessions(E, V) /\ r.out = o /\ r.doc = k.doc
  BY <1>1, <1>3 DEF Sessions
<1> QED BY <1>3, <1>4 DEF OutInd

\* What accumulated, as one frame.
LEMMA UpdateFrameKind ==
  ASSUME NEW E, NEW V, NEW edits \in SUBSET E, NEW f, f = [type |-> "update", edits |-> edits]
  PROVE  f \in Ups(E, V) /\ f.type = "update" /\ Upload(f) = edits /\ Since(f) = {}
  BY DEF Ups, Upload, Since

\* What changes nothing of where a session is, but that a join may be asked for.
Onward(k, r) ==
  /\ r.status = k.status /\ r.joined = k.joined /\ r.access = k.access /\ r.reconciled = k.reconciled
  /\ r.rejoin = k.rejoin /\ r.asking = k.asking /\ r.awaiting = k.awaiting /\ r.socket = k.socket

Steady(k, r) == Onward(k, r) /\ r.joinRequested = k.joinRequested

\* Everything a writer holds it held already, keeps for later or sends.
NothingLost(k, r) ==
  r.joined /\ r.access = "write" =>
     \A x \in r.doc : (x \in k.doc /\ x \notin k.pending) \/ x \in r.pending \/ Goes(r.out, x)

\* What accumulated leaves, or is left.
LEMMA FlushFacts ==
  ASSUME NEW E, NEW V, NEW k \in Sessions(E, V), k.out = <<>>, SessionInd(k)
  PROVE  /\ Acts(k, Flush(k), E, V) /\ SendsOne(Flush(k), E, V)
         /\ Steady(k, Flush(k)) /\ NothingLost(k, Flush(k))
         /\ (Flush(k)).doc = k.doc
<1>1. PICK e : e = [k EXCEPT !.flush = FALSE, !.pending = {}]
  OBVIOUS
<1>2. /\ e \in Sessions(E, V) /\ e.out = <<>> /\ e.doc = k.doc /\ Steady(k, e) /\ e.ready = k.ready /\ e.pending = {}
      /\ e.finished = k.finished /\ e.bridged = k.bridged /\ e.retry = k.retry /\ ~e.flush
  BY <1>1 DEF Sessions, Steady, Onward
<1>3. SessionInd(e)
  BY <1>2 DEF SessionInd, Steady, Onward
<1>4. CASE k.pending # {} /\ k.joined /\ k.access = "write"
  <2>1. PICK f : f = [type |-> "update", edits |-> k.pending]
    OBVIOUS
  <2>2. k.pending \in SUBSET E
    BY DEF Sessions
  <2>3. f \in Ups(E, V) /\ f.type = "update" /\ Upload(f) = k.pending /\ Since(f) = {}
    BY <2>1, <2>2, UpdateFrameKind
  <2>4. Upload(f) \subseteq e.doc /\ Since(f) \subseteq e.doc
    BY <1>2, <2>3 DEF SessionInd
  <2>5. PICK r : r = Send(e, f)
    OBVIOUS
  <2>6. /\ Acts(e, r, E, V) /\ SendsOne(r, E, V)
        /\ e.ready => r = [e EXCEPT !.out = <<f>>] /\ r.out = <<f>>
    BY <1>2, <1>3, <2>3, <2>4, <2>5, SendFacts
  <2>7. e.ready
    BY <1>2, <1>4 DEF SessionInd, Sessions
  <2>8. r.out = <<f>> /\ Steady(k, r) /\ r.doc = k.doc
    BY <1>2, <2>6, <2>7 DEF Onward, Steady, Sessions
  <2>9. \A x \in k.pending : Goes(r.out, x)
    BY <2>3, <2>8 DEF Goes
  <2>10. r = Flush(k)
    BY <1>1, <1>4, <2>1, <2>5 DEF Flush, SendUpdate
  <2>11. Acts(k, r, E, V)
    BY <1>2, <2>6 DEF Acts
  <2> QED BY <2>6, <2>8, <2>9, <2>10, <2>11 DEF NothingLost
<1>5. CASE ~(k.pending # {} /\ k.joined /\ k.access = "write")
  <2>1. Flush(k) = e
    BY <1>1, <1>5 DEF Flush
  <2>2. OutInd(e)
    BY <1>2 DEF OutInd
  <2> QED BY <1>2, <1>3, <1>5, <2>1, <2>2 DEF Acts, SendsOne, NothingLost, Steady, Onward
<1> QED BY <1>4, <1>5

\* An edit of the reader.
LEMMA LocalUpdateFacts ==
  ASSUME NEW E, NEW V, NEW k \in Sessions(E, V), k.out = <<>>, SessionInd(k), NEW edit \in E,
         NEW r \in OnLocalUpdate(k, edit)
  PROVE  /\ Acts(k, r, E, V) /\ SendsOne(r, E, V) /\ Steady(k, r) /\ NothingLost(k, r)
<1>1. PICK m : m = [k EXCEPT !.doc = @ \cup {edit}]
  OBVIOUS
<1>2. /\ m \in Sessions(E, V) /\ m.out = <<>> /\ m.doc = k.doc \cup {edit} /\ Steady(k, m) /\ m.ready = k.ready
      /\ m.pending = k.pending /\ m.finished = k.finished /\ m.bridged = k.bridged /\ m.retry = k.retry /\ m.flush = k.flush
  BY <1>1 DEF Sessions, Steady, Onward
<1>3. CASE k.finished \/ ~k.joined \/ k.access # "write"
  <2>1. r = m
    BY <1>1, <1>3 DEF OnLocalUpdate
  <2>2. SessionInd(m)
    BY <1>2 DEF SessionInd, Steady, Onward
  <2>3. ~(k.joined /\ k.access = "write")
    BY <1>3 DEF SessionInd
  <2>4. OutInd(m)
    BY <1>2 DEF OutInd
  <2> QED BY <1>2, <2>1, <2>2, <2>3, <2>4 DEF Acts, SendsOne, NothingLost, Steady, Onward
<1>4. CASE ~(k.finished \/ ~k.joined \/ k.access # "write")
  <2>1. PICK q : q = [m EXCEPT !.pending = @ \cup {edit}]
    OBVIOUS
  <2>2. /\ q \in Sessions(E, V) /\ q.out = <<>> /\ q.doc = k.doc \cup {edit} /\ Steady(k, q) /\ q.ready = k.ready
        /\ q.pending = k.pending \cup {edit} /\ q.finished = k.finished /\ q.bridged = k.bridged
        /\ q.retry = k.retry /\ q.flush = k.flush
    BY <1>2, <2>1 DEF Sessions, Steady, Onward
  <2>3. SessionInd(q)
    BY <2>2 DEF SessionInd, Steady, Onward
  <2>4. CASE r = Flush(q)
    <3>1. /\ Acts(q, r, E, V) /\ SendsOne(r, E, V) /\ Steady(q, r) /\ NothingLost(q, r) /\ r.doc = q.doc
      BY <2>2, <2>3, <2>4, FlushFacts
    <3>2. Acts(k, r, E, V) /\ Steady(k, r)
      BY <2>2, <3>1 DEF Acts, Steady, Onward
    <3>3. NothingLost(k, r)
      BY <2>2, <3>1 DEF NothingLost
    <3> QED BY <3>1, <3>2, <3>3
  <2>5. CASE r = [q EXCEPT !.flush = TRUE]
    <3>1. /\ r \in Sessions(E, V) /\ r.out = <<>> /\ r.doc = q.doc /\ Steady(q, r) /\ r.ready = q.ready
          /\ r.pending = q.pending /\ r.finished = q.finished /\ r.bridged = q.bridged /\ r.retry = q.retry /\ r.flush
      BY <2>2, <2>5 DEF Sessions, Steady, Onward
    <3>2. SessionInd(r)
      BY <1>4, <2>2, <2>3, <3>1 DEF SessionInd, Steady, Onward
    <3>3. OutInd(r)
      BY <3>1 DEF OutInd
    <3>4. Acts(k, r, E, V) /\ Steady(k, r)
      BY <2>2, <3>1, <3>2, <3>3 DEF Acts, Steady, Onward
    <3> QED BY <2>2, <3>1, <3>4 DEF NothingLost, SendsOne
  <2>6. r = Flush(q) \/ r = [q EXCEPT !.flush = TRUE]
    BY <1>1, <1>4, <2>1 DEF OnLocalUpdate
  <2> QED BY <2>4, <2>5, <2>6
<1> QED BY <1>3, <1>4

\* A join is asked for, unless there is nothing to ask or somebody did.
LEMMA JoinFacts ==
  ASSUME NEW E, NEW V, NEW k \in Sessions(E, V), k.out = <<>>, SessionInd(k)
  PROVE  /\ Acts(k, Join(k), E, V) /\ SendsOne(Join(k), E, V) /\ (Join(k)).doc = k.doc
         /\ Onward(k, Join(k))
         /\ (Join(k)).pending = k.pending
         /\ (Join(k)).joinRequested => k.joinRequested \/ Asks((Join(k)).out, "join")
         /\ k.socket = "open" /\ ~k.joined => (Join(k)).joinRequested
<1>1. CASE k.finished \/ ~k.ready \/ k.joined \/ k.joinRequested
  <2>1. Join(k) = k
    BY <1>1 DEF Join
  <2>2. OutInd(k)
    BY DEF OutInd
  <2>3. Onward(k, k)
    BY DEF Onward
  <2>4. k.socket = "open" /\ ~k.joined => k.joinRequested
    BY <1>1 DEF SessionInd
  <2> QED BY <2>1, <2>2, <2>3, <2>4 DEF Acts, SendsOne
<1>2. CASE ~(k.finished \/ ~k.ready \/ k.joined \/ k.joinRequested)
  <2>1. PICK j : j = [k EXCEPT !.joinRequested = TRUE]
    OBVIOUS
  <2>2. /\ j \in Sessions(E, V) /\ j.out = <<>> /\ j.doc = k.doc /\ j.ready /\ j.pending = k.pending
        /\ j.joinRequested
    BY <1>2, <2>1 DEF Sessions
  <2>3. SessionInd(j)
    BY <1>2, <2>1 DEF SessionInd, Sessions
  <2>4. PICK f : f = [type |-> "join", since |-> IF k.bridged THEN k.doc ELSE {}]
    OBVIOUS
  <2>5. f \in Ups(E, V) /\ f.type = "join" /\ Upload(f) = {} /\ Since(f) \subseteq j.doc
    BY <2>2, <2>4 DEF Ups, Upload, Since, Sessions
  <2>6. PICK r : r = Send(j, f)
    OBVIOUS
  <2>7. /\ Acts(j, r, E, V) /\ SendsOne(r, E, V) /\ r = [j EXCEPT !.out = <<f>>] /\ r.out = <<f>>
    BY <2>2, <2>3, <2>5, <2>6, SendFacts
  <2>8. r = Join(k)
    BY <1>2, <2>1, <2>4, <2>6 DEF Join
  <2>9. Asks(r.out, "join")
    BY <2>5, <2>7 DEF Asks
  <2>10. r.doc = j.doc /\ r.pending = j.pending /\ r.joinRequested
    BY <2>2, <2>7 DEF Sessions
  <2>11. Onward(k, r)
    BY <2>1, <2>7 DEF Onward, Sessions
  <2> QED BY <2>2, <2>7, <2>8, <2>9, <2>10, <2>11 DEF Acts
<1> QED BY <1>1, <1>2

\* Whatever is sent, only what is sent changes.
LEMMA SendHolds ==
  ASSUME NEW E, NEW V, NEW k \in Sessions(E, V), OutInd(k), NEW f \in Ups(E, V),
         Upload(f) \subseteq k.doc, Since(f) \subseteq k.doc
  PROVE  /\ Send(k, f) \in Sessions(E, V) /\ OutInd(Send(k, f)) /\ (Send(k, f)).doc = k.doc
         /\ (Send(k, f)).finished = k.finished /\ (Send(k, f)).socket = k.socket
         /\ (Send(k, f)).joined = k.joined /\ (Send(k, f)).pending = k.pending
<1>1. PICK r : r = [k EXCEPT !.out = Append(@, f)]
  OBVIOUS
<1>2. r \in Sessions(E, V) /\ OutInd(r)
  BY <1>1, OutAppend
<1>3. r.doc = k.doc /\ r.finished = k.finished /\ r.socket = k.socket /\ r.joined = k.joined /\ r.pending = k.pending
  BY <1>1 DEF Sessions
<1> QED BY <1>1, <1>2, <1>3 DEF Send

\* What a session is when it is torn down.
TornDown(k, r) ==
  /\ r.doc = k.doc /\ r.finished /\ r.socket = "none" /\ ~r.ready /\ ~r.asking /\ ~r.retry /\ ~r.rejoin
  /\ ~r.joined /\ r.pending = {} /\ ~r.flush

\* A teardown sends what accumulated, leaves and closes.
LEMMA TeardownFacts ==
  ASSUME NEW E, NEW V, NEW k \in Sessions(E, V), k.out = <<>>, k.pending \subseteq k.doc
  PROVE  Teardown(k) \in Sessions(E, V) /\ OutInd(Teardown(k)) /\ TornDown(k, Teardown(k))
<1>1. PICK a : a = [k EXCEPT !.finished = TRUE]
  OBVIOUS
<1>2. /\ a \in Sessions(E, V) /\ a.out = <<>> /\ a.doc = k.doc /\ a.pending = k.pending /\ a.finished
  BY <1>1 DEF Sessions
<1>3. PICK e : e = [a EXCEPT !.flush = FALSE, !.pending = {}]
  OBVIOUS
<1>4. e \in Sessions(E, V) /\ e.out = <<>> /\ e.doc = k.doc /\ e.finished /\ OutInd(e)
  <2>1. e \in Sessions(E, V) /\ e.out = <<>> /\ e.doc = k.doc /\ e.finished
    BY <1>2, <1>3 DEF Sessions
  <2> QED BY <2>1 DEF OutInd
<1>5. PICK b : b = Flush(a)
  OBVIOUS
<1>6. b \in Sessions(E, V) /\ OutInd(b) /\ b.doc = k.doc /\ b.finished
  <2>1. CASE a.pending # {} /\ a.joined /\ a.access = "write"
    <3>1. PICK f : f = [type |-> "update", edits |-> a.pending]
      OBVIOUS
    <3>2. a.pending \in SUBSET E /\ a.pending \subseteq e.doc
      BY <1>2, <1>4 DEF Sessions
    <3>3. f \in Ups(E, V) /\ Upload(f) = a.pending /\ Since(f) = {}
      BY <3>1, <3>2, UpdateFrameKind
    <3>4. Upload(f) \subseteq e.doc /\ Since(f) \subseteq e.doc
      BY <3>2, <3>3
    <3>5. b = Send(e, f)
      BY <1>3, <1>5, <2>1, <3>1 DEF Flush, SendUpdate
    <3> QED BY <1>4, <3>3, <3>4, <3>5, SendHolds
  <2>2. CASE ~(a.pending # {} /\ a.joined /\ a.access = "write")
    BY <1>3, <1>4, <1>5, <2>2 DEF Flush
  <2> QED BY <2>1, <2>2
<1>7. PICK m : m = IF b.joined THEN Send(b, [type |-> "leave"]) ELSE b
  OBVIOUS
<1>8. m \in Sessions(E, V) /\ OutInd(m) /\ m.doc = k.doc /\ m.finished
  <2>1. PICK f : f = [type |-> "leave"]
    OBVIOUS
  <2>2. f \in Ups(E, V) /\ Upload(f) = {} /\ Since(f) = {}
    BY <2>1 DEF Ups, Upload, Since
  <2>3. Upload(f) \subseteq b.doc /\ Since(f) \subseteq b.doc
    BY <2>2
  <2>4. LET n == Send(b, f) IN n \in Sessions(E, V) /\ OutInd(n) /\ n.doc = k.doc /\ n.finished
    BY <1>6, <2>2, <2>3, SendHolds
  <2> QED BY <1>6, <1>7, <2>1, <2>4
<1>9. PICK l : l = [m EXCEPT !.joined = FALSE]
  OBVIOUS
<1>10. l \in Sessions(E, V) /\ l.doc = k.doc /\ l.finished /\ ~l.joined /\ l.out = m.out
  BY <1>8, <1>9 DEF Sessions
<1>11. PICK c : c = [l EXCEPT !.socket = "none", !.ready = FALSE, !.asking = FALSE,
                             !.retry = FALSE, !.rejoin = FALSE]
  OBVIOUS
<1>12. /\ c \in Sessions(E, V) /\ c.doc = k.doc /\ c.finished /\ ~c.joined /\ c.out = m.out
       /\ c.socket = "none" /\ ~c.ready /\ ~c.asking /\ ~c.retry /\ ~c.rejoin
  BY <1>10, <1>11 DEF Sessions
<1>13. OutInd(c)
  BY <1>8, <1>12 DEF OutInd
<1>14. PICK d : d = IF l.socket # "open" THEN c ELSE [c EXCEPT !.out = Append(@, [type |-> "bye"])]
  OBVIOUS
<1>15. /\ d \in Sessions(E, V) /\ OutInd(d) /\ d.doc = k.doc /\ d.finished /\ ~d.joined
       /\ d.socket = "none" /\ ~d.ready /\ ~d.asking /\ ~d.retry /\ ~d.rejoin
  <2>1. PICK f : f = [type |-> "bye"]
    OBVIOUS
  <2>2. f \in Ups(E, V) /\ Upload(f) = {} /\ Since(f) = {}
    BY <2>1 DEF Ups, Upload, Since
  <2>3. Upload(f) \subseteq c.doc /\ Since(f) \subseteq c.doc
    BY <2>2
  <2>4. PICK n : n = [c EXCEPT !.out = Append(@, f)]
    OBVIOUS
  <2>5. n \in Sessions(E, V) /\ OutInd(n)
    BY <1>12, <1>13, <2>2, <2>3, <2>4, OutAppend
  <2>6. /\ n.doc = k.doc /\ n.finished /\ ~n.joined
        /\ n.socket = "none" /\ ~n.ready /\ ~n.asking /\ ~n.retry /\ ~n.rejoin
    BY <1>12, <2>4 DEF Sessions
  <2> QED BY <1>12, <1>13, <1>14, <2>1, <2>4, <2>5, <2>6
<1>16. d = CloseSocket(LeaveChannel(Flush(a)))
  BY <1>5, <1>7, <1>9, <1>11, <1>14 DEF CloseSocket, LeaveChannel
<1>17. PICK r : r = [d EXCEPT !.pending = {}, !.flush = FALSE, !.access = "none"]
  OBVIOUS
<1>18. /\ r \in Sessions(E, V) /\ r.doc = d.doc /\ r.out = d.out /\ TornDown(k, r)
  BY <1>15, <1>17 DEF Sessions, Access, TornDown
<1>19. OutInd(r)
  BY <1>15, <1>18 DEF OutInd
<1>20. r = Teardown(k)
  BY <1>1, <1>16, <1>17 DEF Teardown
<1> QED BY <1>18, <1>19, <1>20

\* An end, and a stop.
LEMMA EndFacts ==
  ASSUME NEW E, NEW V, NEW k \in Sessions(E, V), k.out = <<>>, k.pending \subseteq k.doc, ~k.finished,
         NEW reason \in Reasons \cup {"unavailable"}
  PROVE  /\ Acts(k, End(k, reason), E, V) /\ (End(k, reason)).socket = "none"
         /\ Acts(k, Stop(k), E, V) /\ (Stop(k)).socket = "none"
<1>1. PICK d : d = Teardown(k)
  OBVIOUS
<1>2. d \in Sessions(E, V) /\ OutInd(d) /\ TornDown(k, d)
  BY <1>1, TeardownFacts
<1>3. PICK r : r = [d EXCEPT !.status = "ended", !.ended = reason]
  OBVIOUS
<1>4. r \in Sessions(E, V) /\ TornDown(k, r) /\ r.out = d.out /\ r.doc = d.doc /\ r.status = "ended"
  BY <1>2, <1>3 DEF Sessions, TornDown
<1>5. SessionInd(r) /\ OutInd(r) /\ r.socket = "none"
  BY <1>2, <1>4 DEF SessionInd, TornDown, OutInd
<1>6. PICK q : q = [d EXCEPT !.status = "off"]
  OBVIOUS
<1>7. q \in Sessions(E, V) /\ TornDown(k, q) /\ q.out = d.out /\ q.doc = d.doc /\ q.status = "off"
  BY <1>2, <1>6 DEF Sessions, TornDown
<1>8. SessionInd(q) /\ OutInd(q) /\ q.socket = "none"
  BY <1>2, <1>7 DEF SessionInd, TornDown, OutInd
<1>9. r = End(k, reason) /\ q = Stop(k)
  BY <1>1, <1>3, <1>6 DEF End, Stop
<1> QED BY <1>2, <1>4, <1>5, <1>7, <1>8, <1>9 DEF Acts, TornDown

\* A session that was dropped asks again, or gives up.
LEMMA RejoinFacts ==
  ASSUME NEW E, NEW V, NEW k \in Sessions(E, V), k.out = <<>>, k.pending \subseteq k.doc, ~k.finished,
         k.socket = "open", k.ready, ~k.joined, ~k.retry, k.status \notin {"ended", "off"},
         NEW reason \in Reasons \cup {"unavailable"}
  PROVE  /\ Acts(k, Rejoin(k, reason), E, V)
         /\ (Rejoin(k, reason)).socket = "open" =>
               /\ (Rejoin(k, reason)).out = <<>> /\ (Rejoin(k, reason)).rejoin /\ ~(Rejoin(k, reason)).joined
<1>1. CASE k.rejoin
  <2>1. Rejoin(k, reason) = k
    BY <1>1 DEF Rejoin
  <2>2. SessionInd(k) /\ OutInd(k)
    BY DEF SessionInd, OutInd
  <2> QED BY <1>1, <2>1, <2>2 DEF Acts
<1>2. CASE ~k.rejoin /\ k.rejoins >= MaxRejoins
  BY <1>2, EndFacts DEF Rejoin
<1>3. CASE ~k.rejoin /\ ~(k.rejoins >= MaxRejoins)
  <2>1. PICK r : r = [k EXCEPT !.rejoins = @ + 1, !.rejoin = TRUE, !.status = Coming(k)]
    OBVIOUS
  <2>2. Coming(k) \in {"connecting", "reconnecting"}
    BY DEF Coming
  <2>3. k.rejoins + 1 \in 0 .. MaxRejoins
    BY <1>3, RejoinsAssumption, SMT DEF Sessions
  <2>4. /\ r \in Sessions(E, V) /\ r.out = <<>> /\ r.doc = k.doc /\ r.pending = k.pending /\ r.rejoin
        /\ r.status = Coming(k) /\ ~r.finished /\ r.socket = "open" /\ r.ready /\ ~r.joined /\ ~r.retry
    BY <2>1, <2>2, <2>3 DEF Sessions
  <2>5. SessionInd(r) /\ OutInd(r)
    BY <2>2, <2>4 DEF SessionInd, OutInd
  <2>6. r = Rejoin(k, reason)
    BY <1>3, <2>1 DEF Rejoin
  <2> QED BY <2>4, <2>5, <2>6 DEF Acts
<1> QED BY <1>1, <1>2, <1>3

\* What a session that is linked hears in a frame.
Heard(k, f, r) ==
  /\ r.joined => Content(f) \subseteq r.doc /\ (f.type = "joined" \/ (k.joined /\ ~Ending(f)))
  /\ r.joined /\ r.access = "write" /\ r.reconciled =>
       IF f.type = "joined" THEN \A x \in r.doc : x \in Claims(f) \/ Goes(r.out, x)
       ELSE /\ k.access = "write" /\ k.reconciled /\ ~Denial(f)
            /\ r.doc \subseteq k.doc \cup Content(f) /\ r.pending = k.pending
  /\ r.status \in {"connecting", "reconnecting"} /\ ~r.rejoin =>
       /\ f.type # "joined" /\ ~Ending(f) /\ k.status = r.status /\ ~k.rejoin
       /\ r.joinRequested => k.joinRequested \/ Asks(r.out, "join")
       /\ \/ r.joinRequested
          \/ /\ ~Answer(f) /\ r.asking = k.asking /\ r.awaiting = k.awaiting
             /\ r.joinRequested = k.joinRequested

\* The step of a session that takes the frame f.
Takes(k, f, r, E, V) ==
  /\ Acts(k, r, E, V)
  /\ r.socket # "open" => r.socket = "none"
  /\ r.socket = "open" => SendsOne(r, E, V) /\ Heard(k, f, r)

\* What dropped a session is heard as that.
LEMMA DroppedFacts ==
  ASSUME NEW E, NEW V, NEW k \in Sessions(E, V), k.out = <<>>, SessionInd(k), k.socket = "open",
         NEW m \in Sessions(E, V), m.out = <<>>, m.doc = k.doc, m.pending \subseteq m.doc, ~m.joined,
         m.finished = k.finished, m.socket = k.socket, m.ready = k.ready, m.retry = k.retry,
         m.status = k.status, NEW f, NEW reason \in Reasons \cup {"unavailable"}
  PROVE  Takes(k, f, Rejoin(m, reason), E, V) /\ Takes(k, f, End(m, reason), E, V)
<1>1. /\ ~m.finished /\ m.socket = "open" /\ m.ready /\ ~m.retry /\ m.status \notin {"ended", "off"}
  BY DEF SessionInd, Sessions
<1>2. PICK r : r = Rejoin(m, reason)
  OBVIOUS
<1>3. /\ Acts(m, r, E, V)
      /\ r.socket = "open" => r.out = <<>> /\ r.rejoin /\ ~r.joined
  BY <1>1, <1>2, RejoinFacts
<1>4. Acts(k, r, E, V) /\ (r.socket # "open" => r.socket = "none")
  <2>1. Acts(k, r, E, V) /\ SessionInd(r) /\ r \in Sessions(E, V)
    BY <1>3 DEF Acts
  <2>2. CASE m.rejoin
    BY <1>1, <1>2, <2>1, <2>2 DEF Rejoin
  <2>3. CASE ~m.rejoin /\ m.rejoins >= MaxRejoins
    <3>1. r = End(m, reason)
      BY <1>1, <1>2, <2>3 DEF Rejoin
    <3> QED BY <1>1, <2>1, <3>1, EndFacts
  <2>4. CASE ~m.rejoin /\ ~(m.rejoins >= MaxRejoins)
    <3>1. r = [m EXCEPT !.rejoins = @ + 1, !.rejoin = TRUE, !.status = Coming(m)]
      BY <1>1, <1>2, <2>4 DEF Rejoin
    <3>2. r.socket = "open"
      BY <1>1, <3>1 DEF Sessions
    <3> QED BY <2>1, <3>2
  <2> QED BY <2>1, <2>2, <2>3, <2>4
<1>5. Takes(k, f, r, E, V)
  BY <1>3, <1>4 DEF Takes, SendsOne, Heard
<1>6. PICK q : q = End(m, reason)
  OBVIOUS
<1>7. Acts(m, q, E, V) /\ q.socket = "none"
  BY <1>1, <1>6, EndFacts
<1>8. Takes(k, f, q, E, V)
  BY <1>7 DEF Takes, Acts
<1> QED BY <1>2, <1>5, <1>6, <1>8

\* The attachment is gone.
LEMMA LeftFacts ==
  ASSUME NEW E, NEW V, NEW k \in Sessions(E, V), k.out = <<>>, SessionInd(k), k.socket = "open",
         NEW f, NEW reason \in Reasons
  PROVE  Takes(k, f, LeftBy(k, reason), E, V)
<1>1. PICK m : m = [k EXCEPT !.joined = FALSE, !.joinRequested = FALSE, !.pending = {}, !.flush = FALSE]
  OBVIOUS
<1>2. /\ m \in Sessions(E, V) /\ m.out = <<>> /\ m.doc = k.doc /\ m.pending = {} /\ ~m.joined
      /\ m.finished = k.finished /\ m.socket = k.socket /\ m.ready = k.ready /\ m.retry = k.retry
      /\ m.status = k.status
  BY <1>1 DEF Sessions
<1>3. m.pending \subseteq m.doc
  BY <1>2
<1>4. reason \in Reasons \cup {"unavailable"}
  OBVIOUS
<1>5. Takes(k, f, Rejoin(m, reason), E, V) /\ Takes(k, f, End(m, reason), E, V)
  BY <1>2, <1>3, <1>4, DroppedFacts
<1> QED BY <1>1, <1>5 DEF LeftBy

\* The relay refuses something.
LEMMA RefusedFacts ==
  ASSUME NEW E, NEW V, NEW k \in Sessions(E, V), k.out = <<>>, SessionInd(k), k.socket = "open",
         NEW f, f.type = "refused", f.code \in Codes
  PROVE  Takes(k, f, Refused(k, f.code), E, V)
<1>1. CASE f.code = "FORBIDDEN"
  <2>1. PICK r : r = [k EXCEPT !.access = "read", !.pending = {}, !.flush = FALSE]
    OBVIOUS
  <2>2. /\ r \in Sessions(E, V) /\ r.out = <<>> /\ r.doc = k.doc /\ r.pending = {} /\ r.access = "read" /\ ~r.flush
        /\ r.joined = k.joined /\ r.finished = k.finished /\ r.socket = k.socket /\ r.ready = k.ready
        /\ r.retry = k.retry /\ r.rejoin = k.rejoin /\ r.asking = k.asking /\ r.awaiting = k.awaiting
        /\ r.joinRequested = k.joinRequested /\ r.bridged = k.bridged /\ r.status = k.status
    BY <2>1 DEF Sessions, Access
  <2>3. SessionInd(r) /\ OutInd(r)
    BY <2>2 DEF SessionInd, OutInd
  <2>4. ~Ending(f) /\ ~Answer(f) /\ Content(f) = {} /\ f.type # "joined"
    BY <1>1 DEF Ending, Answer, Content
  <2>5. Heard(k, f, r)
    BY <2>2, <2>4 DEF Heard
  <2>6. r = Refused(k, f.code)
    BY <1>1, <2>1 DEF Refused
  <2> QED BY <2>2, <2>3, <2>5, <2>6 DEF Takes, Acts, SendsOne
<1>2. CASE f.code = "PAYLOAD_TOO_LARGE"
  <2>1. PICK r : r = [k EXCEPT !.reconciled = FALSE]
    OBVIOUS
  <2>2. /\ r \in Sessions(E, V) /\ r.out = <<>> /\ r.doc = k.doc /\ r.pending = k.pending /\ ~r.reconciled
        /\ r.joined = k.joined /\ r.finished = k.finished /\ r.socket = k.socket /\ r.ready = k.ready
        /\ r.retry = k.retry /\ r.rejoin = k.rejoin /\ r.asking = k.asking /\ r.awaiting = k.awaiting
        /\ r.joinRequested = k.joinRequested /\ r.bridged = k.bridged /\ r.status = k.status /\ r.flush = k.flush
    BY <2>1 DEF Sessions
  <2>3. SessionInd(r) /\ OutInd(r)
    BY <2>2 DEF SessionInd, OutInd
  <2>4. ~Ending(f) /\ ~Answer(f) /\ Content(f) = {} /\ f.type # "joined"
    BY <1>2 DEF Ending, Answer, Content
  <2>5. Heard(k, f, r)
    BY <2>2, <2>4 DEF Heard
  <2>6. r = Refused(k, f.code)
    BY <1>2, <2>1 DEF Refused
  <2> QED BY <2>2, <2>3, <2>5, <2>6 DEF Takes, Acts, SendsOne
<1>3. CASE f.code = "DATABASE_UNAVAILABLE"
  <2>1. PICK m : m = [k EXCEPT !.joined = FALSE, !.joinRequested = FALSE]
    OBVIOUS
  <2>2. /\ m \in Sessions(E, V) /\ m.out = <<>> /\ m.doc = k.doc /\ m.pending = k.pending /\ ~m.joined
        /\ m.finished = k.finished /\ m.socket = k.socket /\ m.ready = k.ready /\ m.retry = k.retry
        /\ m.status = k.status
    BY <2>1 DEF Sessions
  <2>3. m.pending \subseteq m.doc
    BY <2>2 DEF SessionInd
  <2>4. "unavailable" \in Reasons \cup {"unavailable"}
    OBVIOUS
  <2>5. Takes(k, f, Rejoin(m, "unavailable"), E, V)
    BY <2>2, <2>3, <2>4, DroppedFacts
  <2> QED BY <1>3, <2>1, <2>5 DEF Refused
<1>4. CASE f.code \in {"NOT_FOUND", "CIRCUIT_TOO_LARGE"}
  <2>1. ~k.finished /\ k.pending \subseteq k.doc /\ "unavailable" \in Reasons \cup {"unavailable"}
    BY DEF SessionInd
  <2>2. Acts(k, End(k, "unavailable"), E, V) /\ (End(k, "unavailable")).socket = "none"
    BY <2>1, EndFacts
  <2>3. Refused(k, f.code) = End(k, "unavailable")
    BY <1>4 DEF Refused
  <2> QED BY <2>2, <2>3 DEF Takes
<1> QED BY <1>1, <1>2, <1>3, <1>4 DEF Codes

\* A join that is asked for is heard of.
LEMMA AskedFacts ==
  ASSUME NEW E, NEW V, NEW k \in Sessions(E, V), k.out = <<>>, SessionInd(k), k.socket = "open",
         NEW f, f.type \in {"ready", "error"}
  PROVE  Takes(k, f, Join([k EXCEPT !.awaiting = FALSE]), E, V)
<1>1. PICK m : m = [k EXCEPT !.awaiting = FALSE]
  OBVIOUS
<1>2. /\ m \in Sessions(E, V) /\ m.out = <<>> /\ m.doc = k.doc /\ m.pending = k.pending /\ m.reconciled = k.reconciled
      /\ m.joined = k.joined /\ m.finished = k.finished /\ m.socket = k.socket /\ m.ready = k.ready
      /\ m.retry = k.retry /\ m.rejoin = k.rejoin /\ m.asking = k.asking /\ m.access = k.access
      /\ m.joinRequested = k.joinRequested /\ m.bridged = k.bridged /\ m.status = k.status /\ m.flush = k.flush
  BY <1>1 DEF Sessions
<1>3. SessionInd(m)
  BY <1>2 DEF SessionInd
<1>4. PICK r : r = Join(m)
  OBVIOUS
<1>5. /\ Acts(m, r, E, V) /\ SendsOne(r, E, V) /\ r.doc = m.doc /\ Onward(m, r) /\ r.pending = m.pending
      /\ r.joinRequested => m.joinRequested \/ Asks(r.out, "join")
      /\ m.socket = "open" /\ ~m.joined => r.joinRequested
  BY <1>2, <1>3, <1>4, JoinFacts
<1>6. /\ ~Ending(f) /\ Content(f) = {} /\ f.type # "joined" /\ ~Denial(f)
  BY DEF Ending, Content, Denial
<1>7. /\ r.joined = k.joined /\ r.access = k.access /\ r.reconciled = k.reconciled /\ r.status = k.status
      /\ r.rejoin = k.rejoin /\ r.socket = k.socket
  BY <1>2, <1>5 DEF Onward
<1>8. r.status \in {"connecting", "reconnecting"} => ~k.joined
  BY <1>7 DEF SessionInd
<1>9. Heard(k, f, r)
  BY <1>2, <1>5, <1>6, <1>7, <1>8 DEF Heard
<1>10. Acts(k, r, E, V)
  BY <1>2, <1>5 DEF Acts
<1> QED BY <1>1, <1>4, <1>5, <1>7, <1>9, <1>10 DEF Takes

\* A frame that says who the viewer is.
LEMMA ReadyFacts ==
  ASSUME NEW E, NEW V, NEW k \in Sessions(E, V), k.out = <<>>, SessionInd(k), k.socket = "open",
         NEW f, f.type = "ready"
  PROVE  Takes(k, f, Ready(k, f.viewer), E, V)
<1>1. CASE k.awaiting /\ f.viewer = Anonymous
  <2>1. Ready(k, f.viewer) = k
    BY <1>1 DEF Ready
  <2>2. OutInd(k)
    BY DEF OutInd
  <2>3. ~Ending(f) /\ Content(f) = {} /\ f.type # "joined" /\ ~Denial(f) /\ ~Answer(f)
    BY <1>1 DEF Ending, Content, Denial, Answer
  <2>4. Heard(k, f, k)
    BY <2>3 DEF Heard
  <2> QED BY <2>1, <2>2, <2>4 DEF Takes, Acts, SendsOne
<1>2. CASE ~(k.awaiting /\ f.viewer = Anonymous)
  BY <1>2, AskedFacts DEF Ready
<1> QED BY <1>1, <1>2

\* An edit of somebody else.
LEMMA ToldFacts ==
  ASSUME NEW E, NEW V, NEW k \in Sessions(E, V), k.out = <<>>, SessionInd(k), k.socket = "open",
         NEW f, f.type = "update", f.edits \in SUBSET E,
         NEW r, r = IF k.bridged THEN [k EXCEPT !.doc = @ \cup f.edits] ELSE k
  PROVE  Takes(k, f, r, E, V)
<1>1. /\ r \in Sessions(E, V) /\ r.out = <<>> /\ r.pending = k.pending /\ r.reconciled = k.reconciled
      /\ r.joined = k.joined /\ r.finished = k.finished /\ r.socket = k.socket /\ r.ready = k.ready
      /\ r.retry = k.retry /\ r.rejoin = k.rejoin /\ r.asking = k.asking /\ r.access = k.access
      /\ r.joinRequested = k.joinRequested /\ r.bridged = k.bridged /\ r.status = k.status /\ r.flush = k.flush
      /\ r.awaiting = k.awaiting
      /\ k.doc \subseteq r.doc /\ r.doc \subseteq k.doc \cup f.edits /\ (k.bridged => f.edits \subseteq r.doc)
  <2>1. CASE k.bridged
    <3>1. r = [k EXCEPT !.doc = @ \cup f.edits]
      BY <2>1
    <3>2. k.doc \cup f.edits \in SUBSET E
      BY DEF Sessions
    <3> QED BY <3>1, <3>2 DEF Sessions
  <2>2. CASE ~k.bridged
    BY <2>2
  <2> QED BY <2>1, <2>2
<1>2. SessionInd(r) /\ OutInd(r)
  BY <1>1 DEF SessionInd, OutInd
<1>3. /\ ~Ending(f) /\ Content(f) = f.edits /\ f.type # "joined" /\ ~Denial(f) /\ ~Answer(f)
  BY DEF Ending, Content, Denial, Answer
<1>4. k.joined => k.bridged
  BY DEF SessionInd
<1>5. Heard(k, f, r)
  BY <1>1, <1>3, <1>4 DEF Heard
<1> QED BY <1>1, <1>2, <1>5 DEF Takes, Acts, SendsOne

\* What a session becomes before it sends anything, when it is joined by f.
Opened(k, f, o) ==
  /\ o.doc = k.doc \cup f.update /\ o.bridged /\ o.joined /\ o.access = f.access /\ ~o.rejoin
  /\ o.status = "open" /\ o.reconciled /\ o.pending = k.pending /\ o.finished = k.finished
  /\ o.socket = k.socket /\ o.ready = k.ready /\ o.retry = k.retry /\ o.asking = k.asking /\ o.flush = k.flush

\* It was joined, and holds what the document held; what it does not say that
\* it could not bring, it sends.
Brought(k, f, r) ==
  /\ r.status = "open" /\ r.socket = "open" /\ f.update \subseteq r.doc
  /\ r.access = "write" /\ r.reconciled => \A x \in r.doc : x \in f.vector \/ Goes(r.out, x)

\* The session is joined.
LEMMA JoinedWithFacts ==
  ASSUME NEW E, NEW V, NEW k \in Sessions(E, V), k.out = <<>>, SessionInd(k), k.socket = "open",
         NEW f, f.type = "joined", f.access \in {"read", "write"},
         f.update \in SUBSET E, f.vector \in SUBSET E, NEW fits \in BOOLEAN
  PROVE  Takes(k, f, JoinedWith(k, f, fits), E, V)
<1>1. PICK carried : carried = IF k.bridged THEN k.carried ELSE k.doc \ f.update # {}
  OBVIOUS
<1>2. carried \in BOOLEAN
  BY <1>1 DEF Sessions
<1>3. PICK o : o = [k EXCEPT !.doc = @ \cup f.update, !.bridged = TRUE, !.carried = carried,
                             !.joined = TRUE, !.joinRequested = FALSE, !.everJoined = TRUE,
                             !.access = f.access, !.rejoin = FALSE,
                             !.status = "open", !.ended = "none", !.reconciled = TRUE]
  OBVIOUS
<1>4. k.doc \cup f.update \in SUBSET E
  BY DEF Sessions
<1>5. o \in Sessions(E, V) /\ o.out = <<>> /\ Opened(k, f, o)
  <2>1. PICK p : p = [k EXCEPT !.doc = k.doc \cup f.update, !.bridged = TRUE, !.carried = carried,
                               !.joined = TRUE, !.joinRequested = FALSE, !.everJoined = TRUE]
    OBVIOUS
  <2>2. /\ p \in Sessions(E, V) /\ p.out = <<>> /\ p.doc = k.doc \cup f.update /\ p.bridged /\ p.joined
        /\ p.pending = k.pending /\ p.finished = k.finished /\ p.socket = k.socket /\ p.ready = k.ready
        /\ p.retry = k.retry /\ p.asking = k.asking /\ p.flush = k.flush
    BY <1>2, <1>4, <2>1 DEF Sessions
  <2>3. o = [p EXCEPT !.access = f.access, !.rejoin = FALSE, !.status = "open", !.ended = "none",
                      !.reconciled = TRUE]
    BY <1>3, <2>1, Zenon
  <2>4. /\ o \in Sessions(E, V) /\ o.out = p.out /\ o.doc = p.doc /\ o.bridged = p.bridged /\ o.joined = p.joined
        /\ o.access = f.access /\ ~o.rejoin /\ o.status = "open" /\ o.reconciled
        /\ o.pending = p.pending /\ o.finished = p.finished /\ o.socket = p.socket /\ o.ready = p.ready
        /\ o.retry = p.retry /\ o.asking = p.asking /\ o.flush = p.flush
    <3>1. PICK q : q = [p EXCEPT !.access = f.access, !.rejoin = FALSE]
      OBVIOUS
    <3>2. f.access \in Access
      BY DEF Access
    <3>3. /\ q \in Sessions(E, V) /\ q.out = p.out /\ q.doc = p.doc /\ q.bridged = p.bridged /\ q.joined = p.joined
          /\ q.access = f.access /\ ~q.rejoin /\ q.pending = p.pending /\ q.finished = p.finished
          /\ q.socket = p.socket /\ q.ready = p.ready /\ q.retry = p.retry /\ q.asking = p.asking /\ q.flush = p.flush
      BY <2>2, <3>1, <3>2 DEF Sessions
    <3>4. o = [q EXCEPT !.status = "open", !.ended = "none", !.reconciled = TRUE]
      BY <2>3, <3>1, Zenon
    <3> QED BY <3>3, <3>4 DEF Sessions
  <2> QED BY <2>2, <2>4 DEF Opened
<1>6. SessionInd(o) /\ o.ready
  BY <1>5 DEF SessionInd, Opened
<1>7. PICK m : m = IF fits THEN Reconcile(o, f.vector) ELSE ReconcileTooLarge(o, f.vector)
  OBVIOUS
<1>8. Acts(o, m, E, V) /\ SendsOne(m, E, V) /\ Brought(k, f, m)
  <2>1. CASE ~(o.access = "write" /\ o.doc \ f.vector # {})
    <3>1. m = o
      BY <1>7, <2>1 DEF Reconcile, ReconcileTooLarge
    <3>2. OutInd(o)
      BY <1>5 DEF OutInd
    <3> QED BY <1>5, <1>6, <2>1, <3>1, <3>2 DEF Acts, SendsOne, Brought, Opened
  <2>2. CASE o.access = "write" /\ o.doc \ f.vector # {} /\ fits
    <3> PICK w : w = o.doc \ f.vector
      OBVIOUS
    <3>1. PICK g : g = [type |-> "update", edits |-> w]
      OBVIOUS
    <3>2. w \in SUBSET E
      BY <1>5 DEF Sessions
    <3>3. g \in Ups(E, V) /\ g.type = "update" /\ Upload(g) = w /\ Since(g) = {}
      BY <3>1, <3>2 DEF Ups, Upload, Since
    <3>4. Upload(g) \subseteq o.doc /\ Since(g) \subseteq o.doc
      BY <3>3
    <3>5. m = Send(o, g)
      BY <1>7, <2>2, <3>1 DEF Reconcile, SendUpdate
    <3>6. Acts(o, m, E, V) /\ SendsOne(m, E, V) /\ m = [o EXCEPT !.out = <<g>>] /\ m.out = <<g>>
      BY <1>5, <1>6, <3>3, <3>4, <3>5, SendFacts
    <3>7. m.doc = o.doc /\ m.status = o.status /\ m.socket = o.socket
      BY <1>5, <3>6 DEF Sessions
    <3>8. \A x \in o.doc \ f.vector : Goes(m.out, x)
      BY <3>3, <3>6 DEF Goes
    <3>9. Brought(k, f, m)
      BY <1>5, <3>7, <3>8 DEF Brought, Opened
    <3> QED BY <3>6, <3>9
  <2>3. CASE o.access = "write" /\ o.doc \ f.vector # {} /\ ~fits
    <3>1. m = [o EXCEPT !.reconciled = FALSE]
      BY <1>7, <2>3 DEF ReconcileTooLarge
    <3>2. /\ m \in Sessions(E, V) /\ m.out = <<>> /\ m.doc = o.doc /\ ~m.reconciled /\ m.status = o.status
          /\ m.pending = o.pending /\ m.joined = o.joined /\ m.finished = o.finished /\ m.socket = o.socket
          /\ m.ready = o.ready /\ m.retry = o.retry /\ m.rejoin = o.rejoin /\ m.asking = o.asking
          /\ m.joinRequested = o.joinRequested /\ m.bridged = o.bridged /\ m.flush = o.flush
      BY <1>5, <3>1 DEF Sessions
    <3>3. SessionInd(m) /\ OutInd(m)
      BY <1>6, <3>2 DEF SessionInd, OutInd
    <3>4. Brought(k, f, m)
      BY <1>5, <3>2 DEF Brought, Opened
    <3> QED BY <3>2, <3>3, <3>4 DEF Acts, SendsOne
  <2> QED BY <2>1, <2>2, <2>3
<1>9. PICK r : r = IF carried /\ f.access # "write" THEN [m EXCEPT !.reconciled = FALSE] ELSE m
  OBVIOUS
<1>10. Acts(o, r, E, V) /\ SendsOne(r, E, V) /\ Brought(k, f, r)
  <2>1. CASE ~(carried /\ f.access # "write")
    BY <1>8, <1>9, <2>1
  <2>2. CASE carried /\ f.access # "write"
    <3>1. m \in Sessions(E, V) /\ SessionInd(m) /\ OutInd(m) /\ o.doc \subseteq m.doc
      BY <1>8 DEF Acts
    <3>2. r = [m EXCEPT !.reconciled = FALSE]
      BY <1>9, <2>2
    <3>3. /\ r \in Sessions(E, V) /\ r.out = m.out /\ r.doc = m.doc /\ ~r.reconciled /\ r.status = m.status
          /\ r.pending = m.pending /\ r.joined = m.joined /\ r.finished = m.finished /\ r.socket = m.socket
          /\ r.ready = m.ready /\ r.retry = m.retry /\ r.rejoin = m.rejoin /\ r.asking = m.asking
          /\ r.joinRequested = m.joinRequested /\ r.bridged = m.bridged /\ r.flush = m.flush
      BY <3>1, <3>2 DEF Sessions
    <3>4. SessionInd(r) /\ OutInd(r)
      BY <3>1, <3>3 DEF SessionInd, OutInd
    <3> QED BY <1>8, <3>1, <3>3, <3>4 DEF Acts, SendsOne, Brought
  <2> QED BY <2>1, <2>2
<1>11. r = JoinedWith(k, f, fits)
  <2>1. JoinedWith(k, f, fits) = IF carried /\ f.access # "write" THEN [m EXCEPT !.reconciled = FALSE] ELSE m
    BY <1>1, <1>3, <1>7, Zenon DEF JoinedWith
  <2> QED BY <1>9, <2>1
<1>12. Content(f) = f.update /\ f.vector \subseteq Claims(f)
  BY DEF Content, Claims
<1>13. Heard(k, f, r)
  BY <1>10, <1>12 DEF Heard, Brought
<1>14. Acts(k, r, E, V) /\ r.socket = "open"
  BY <1>5, <1>10 DEF Acts, Opened, Brought
<1> QED BY <1>10, <1>11, <1>13, <1>14 DEF Takes

\* Whatever the frame is.
LEMMA HandleFacts ==
  ASSUME NEW E, NEW V, NEW k \in Sessions(E, V), k.out = <<>>, SessionInd(k), k.socket = "open",
         NEW f \in Downs(E, V), f.type # "close", NEW fits \in BOOLEAN
  PROVE  Takes(k, f, Handle(k, f, fits), E, V)
<1>1. CASE f.type = "ready"
  BY <1>1, ReadyFacts DEF Handle
<1>2. CASE f.type = "joined"
  <2>1. f.access \in {"read", "write"} /\ f.update \in SUBSET E /\ f.vector \in SUBSET E
    BY <1>2 DEF Downs
  <2>2. Handle(k, f, fits) = JoinedWith(k, f, fits)
    BY <1>2 DEF Handle
  <2> QED BY <1>2, <2>1, <2>2, JoinedWithFacts
<1>3. CASE f.type = "update"
  <2>1. f.edits \in SUBSET E
    BY <1>3 DEF Downs
  <2>2. Handle(k, f, fits) = IF k.bridged THEN [k EXCEPT !.doc = @ \cup f.edits] ELSE k
    BY <1>3 DEF Handle
  <2> QED BY <1>3, <2>1, <2>2, ToldFacts
<1>4. CASE f.type = "left"
  <2>1. f.reason \in Reasons
    BY <1>4 DEF Downs
  <2>2. Handle(k, f, fits) = LeftBy(k, f.reason)
    BY <1>4 DEF Handle
  <2> QED BY <2>1, <2>2, LeftFacts
<1>5. CASE f.type = "refused"
  <2>1. f.code \in Codes
    BY <1>5 DEF Downs
  <2>2. Handle(k, f, fits) = Refused(k, f.code)
    BY <1>5 DEF Handle
  <2> QED BY <1>5, <2>1, <2>2, RefusedFacts
<1>6. CASE f.type = "error"
  <2>1. Handle(k, f, fits) = Join([k EXCEPT !.awaiting = FALSE])
    BY <1>6 DEF Handle
  <2> QED BY <1>6, <2>1, AskedFacts
<1>7. f.type \in {"ready", "joined", "update", "left", "refused", "error", "close"}
  BY DEF Downs
<1> QED BY <1>1, <1>2, <1>3, <1>4, <1>5, <1>6, <1>7

\* What a session that is linked does of itself.
Works(k, r) ==
  /\ r.joined = k.joined /\ NothingLost(k, r) /\ r.access = k.access /\ r.reconciled = k.reconciled
  /\ r.status \in {"connecting", "reconnecting"} /\ ~r.rejoin =>
       /\ k.status = r.status /\ ~k.rejoin
       /\ r.joinRequested => k.joinRequested \/ Asks(r.out, "join")
       /\ \/ r.joinRequested
          \/ r.awaiting /\ Asks(r.out, "authenticate")
          \/ /\ r.asking = k.asking /\ r.awaiting = k.awaiting
             /\ r.joinRequested = k.joinRequested

\* The step of a session whose connection stays.
Stays(k, r, E, V) ==
  Acts(k, r, E, V) /\ r.socket = k.socket /\ SendsOne(r, E, V) /\ (r.socket = "open" => Works(k, r))

\* The accumulation window ends, or the reader edits.
LEMMA SteadyStays ==
  ASSUME NEW E, NEW V, NEW k, NEW r, Acts(k, r, E, V), SendsOne(r, E, V), Steady(k, r), NothingLost(k, r)
  PROVE  Stays(k, r, E, V)
  BY DEF Stays, Works, Steady, Onward

\* A join that is asked for.
LEMMA JoinStays ==
  ASSUME NEW E, NEW V, NEW k \in Sessions(E, V), k.out = <<>>, SessionInd(k),
         NEW m \in Sessions(E, V), m.out = <<>>, SessionInd(m), m.doc = k.doc, m.pending = k.pending,
         m.joined = k.joined, m.access = k.access, m.reconciled = k.reconciled, m.status = k.status,
         m.rejoin = k.rejoin, m.socket = k.socket, m.joinRequested => k.joinRequested
  PROVE  Stays(k, Join(m), E, V)
<1>1. PICK r : r = Join(m)
  OBVIOUS
<1>2. /\ Acts(m, r, E, V) /\ SendsOne(r, E, V) /\ r.doc = m.doc /\ Onward(m, r) /\ r.pending = m.pending
      /\ r.joinRequested => m.joinRequested \/ Asks(r.out, "join")
      /\ m.socket = "open" /\ ~m.joined => r.joinRequested
  BY <1>1, JoinFacts
<1>3. /\ r.joined = k.joined /\ r.access = k.access /\ r.reconciled = k.reconciled /\ r.status = k.status
      /\ r.rejoin = k.rejoin /\ r.socket = k.socket
  BY <1>2 DEF Onward
<1>4. r.status \in {"connecting", "reconnecting"} => ~k.joined
  BY <1>3 DEF SessionInd
<1>5. NothingLost(k, r)
  BY <1>2 DEF NothingLost
<1>6. r.socket = "open" => Works(k, r)
  BY <1>2, <1>3, <1>4, <1>5 DEF Works
<1>7. Acts(k, r, E, V)
  BY <1>2 DEF Acts
<1> QED BY <1>1, <1>2, <1>3, <1>6, <1>7 DEF Stays

\* The token arrives, or there is none.
LEMMA TokenFacts ==
  ASSUME NEW E, NEW V, NEW k \in Sessions(E, V), k.out = <<>>, SessionInd(k),
         NEW token \in V, k.asking
  PROVE  Stays(k, OnToken(k, token), E, V)
<1>1. PICK m : m = [k EXCEPT !.asking = FALSE]
  OBVIOUS
<1>2. /\ m \in Sessions(E, V) /\ m.out = <<>> /\ m.doc = k.doc /\ m.pending = k.pending /\ m.reconciled = k.reconciled
      /\ m.joined = k.joined /\ m.finished = k.finished /\ m.socket = k.socket /\ m.ready = k.ready
      /\ m.retry = k.retry /\ m.rejoin = k.rejoin /\ ~m.asking /\ m.access = k.access
      /\ m.joinRequested = k.joinRequested /\ m.bridged = k.bridged /\ m.status = k.status /\ m.flush = k.flush
  BY <1>1 DEF Sessions
<1>3. SessionInd(m)
  BY <1>2 DEF SessionInd
<1>4. CASE token = Anonymous
  <2>1. OnToken(k, token) = Join(m)
    BY <1>1, <1>4 DEF OnToken
  <2>2. Stays(k, Join(m), E, V)
    BY <1>2, <1>3, JoinStays
  <2> QED BY <2>1, <2>2
<1>5. CASE token # Anonymous
  <2>1. PICK a : a = [m EXCEPT !.awaiting = TRUE]
    OBVIOUS
  <2>2. /\ a \in Sessions(E, V) /\ a.out = <<>> /\ a.doc = k.doc /\ a.pending = k.pending /\ a.reconciled = k.reconciled
        /\ a.joined = k.joined /\ a.finished = k.finished /\ a.socket = k.socket /\ a.ready = k.ready
        /\ a.retry = k.retry /\ a.rejoin = k.rejoin /\ ~a.asking /\ a.access = k.access /\ a.awaiting
        /\ a.joinRequested = k.joinRequested /\ a.bridged = k.bridged /\ a.status = k.status /\ a.flush = k.flush
    BY <1>2, <2>1 DEF Sessions
  <2>3. SessionInd(a)
    BY <2>2 DEF SessionInd
  <2>4. PICK g : g = [type |-> "authenticate", viewer |-> token]
    OBVIOUS
  <2>5. g \in Ups(E, V) /\ g.type = "authenticate" /\ Upload(g) = {} /\ Since(g) = {}
    BY <1>5, <2>4 DEF Ups, Upload, Since
  <2>6. Upload(g) \subseteq a.doc /\ Since(g) \subseteq a.doc
    BY <2>5
  <2>7. PICK r : r = Send(a, g)
    OBVIOUS
  <2>8. /\ Acts(a, r, E, V) /\ SendsOne(r, E, V)
        /\ ~a.ready => r = a
        /\ a.ready => r = [a EXCEPT !.out = <<g>>] /\ r.out = <<g>>
    BY <2>2, <2>3, <2>5, <2>6, <2>7, SendFacts
  <2>9. /\ r.doc = k.doc /\ r.pending = k.pending /\ r.reconciled = k.reconciled /\ r.joined = k.joined
        /\ r.socket = k.socket /\ r.rejoin = k.rejoin /\ r.access = k.access /\ r.awaiting
        /\ r.joinRequested = k.joinRequested /\ r.status = k.status
    BY <2>2, <2>8 DEF Sessions
  <2>10. a.ready => Asks(r.out, "authenticate")
    BY <2>5, <2>8 DEF Asks
  <2>11. NothingLost(k, r)
    BY <2>9 DEF NothingLost
  <2>12. r.socket = "open" => a.ready
    BY <2>2, <2>9 DEF SessionInd
  <2>13. r.socket = "open" => Works(k, r)
    BY <2>9, <2>10, <2>11, <2>12 DEF Works
  <2>14. Acts(k, r, E, V)
    BY <2>2, <2>8 DEF Acts
  <2>15. r = OnToken(k, token)
    BY <1>1, <1>5, <2>1, <2>4, <2>7 DEF OnToken
  <2> QED BY <2>8, <2>9, <2>13, <2>14, <2>15 DEF Stays
<1> QED BY <1>4, <1>5

\* The backoff of a rejoin ends.
LEMMA RejoinFiresFacts ==
  ASSUME NEW E, NEW V, NEW k \in Sessions(E, V), k.out = <<>>, SessionInd(k), k.rejoin
  PROVE  Stays(k, RejoinFires(k), E, V)
<1>1. PICK m : m = [k EXCEPT !.joinRequested = FALSE]
  OBVIOUS
<1>2. /\ m \in Sessions(E, V) /\ m.out = <<>> /\ m.doc = k.doc /\ m.pending = k.pending /\ m.reconciled = k.reconciled
      /\ m.joined = k.joined /\ m.finished = k.finished /\ m.socket = k.socket /\ m.ready = k.ready
      /\ m.retry = k.retry /\ m.rejoin = k.rejoin /\ m.asking = k.asking /\ m.access = k.access
      /\ ~m.joinRequested /\ m.bridged = k.bridged /\ m.status = k.status /\ m.flush = k.flush
  BY <1>1 DEF Sessions
<1>3. SessionInd(m)
  BY <1>2 DEF SessionInd
<1>4. Stays(k, Join(m), E, V)
  BY <1>2, <1>3, JoinStays
<1> QED BY <1>1, <1>4 DEF RejoinFires

\* The accumulation window ends.
LEMMA FlushStays ==
  ASSUME NEW E, NEW V, NEW k \in Sessions(E, V), k.out = <<>>, SessionInd(k)
  PROVE  Stays(k, Flush(k), E, V)
  BY FlushFacts, SteadyStays

\* An edit of the reader.
LEMMA EditStays ==
  ASSUME NEW E, NEW V, NEW k \in Sessions(E, V), k.out = <<>>, SessionInd(k), NEW edit \in E,
         NEW r \in OnLocalUpdate(k, edit)
  PROVE  Stays(k, r, E, V)
  BY LocalUpdateFacts, SteadyStays

\* The step of a session that is not linked after it.
Parts(k, r, E, V) == Acts(k, r, E, V) /\ r.out = <<>> /\ r.socket # "open"

\* Another connection is asked for.
LEMMA ConnectFacts ==
  ASSUME NEW E, NEW V, NEW k \in Sessions(E, V), k.out = <<>>, SessionInd(k), k.retry
  PROVE  Parts(k, Connect(k), E, V) /\ (Connect(k)).socket = "opening"
<1>1. PICK r : r = Connect(k)
  OBVIOUS
<1>2. r = [k EXCEPT !.retry = FALSE, !.socket = "opening", !.asking = FALSE, !.status = Coming(k)]
  BY <1>1 DEF Connect
<1>3. Coming(k) \in {"connecting", "reconnecting"}
  BY DEF Coming
<1>4. /\ r \in Sessions(E, V) /\ r.out = <<>> /\ r.doc = k.doc /\ r.pending = k.pending /\ r.joined = k.joined
      /\ r.finished = k.finished /\ r.socket = "opening" /\ r.ready = k.ready /\ ~r.retry /\ r.rejoin = k.rejoin
      /\ ~r.asking /\ r.joinRequested = k.joinRequested /\ r.bridged = k.bridged /\ r.status = Coming(k)
      /\ r.flush = k.flush
  BY <1>2, <1>3 DEF Sessions
<1>5. SessionInd(r)
  BY <1>3, <1>4 DEF SessionInd
<1>6. OutInd(r)
  BY <1>4 DEF OutInd
<1> QED BY <1>1, <1>4, <1>5, <1>6 DEF Parts, Acts

\* It opens.
LEMMA OpenFacts ==
  ASSUME NEW E, NEW V, NEW k \in Sessions(E, V), k.out = <<>>, SessionInd(k), k.socket = "opening"
  PROVE  /\ Acts(k, OnOpen(k), E, V) /\ (OnOpen(k)).out = <<>> /\ (OnOpen(k)).doc = k.doc
         /\ (OnOpen(k)).socket = "open" /\ (OnOpen(k)).asking
         /\ ~(OnOpen(k)).joined /\ ~(OnOpen(k)).joinRequested
<1>1. PICK r : r = OnOpen(k)
  OBVIOUS
<1>2. r = [k EXCEPT !.socket = "open", !.ready = TRUE, !.rejoins = 0, !.asking = TRUE]
  BY <1>1 DEF OnOpen
<1>3. ~k.finished /\ ~k.joined /\ ~k.joinRequested
  BY DEF SessionInd
<1>4. 0 \in 0 .. MaxRejoins
  BY RejoinsAssumption, SMT
<1>5. /\ r \in Sessions(E, V) /\ r.out = <<>> /\ r.doc = k.doc /\ r.pending = k.pending /\ r.joined = k.joined
      /\ r.finished = k.finished /\ r.socket = "open" /\ r.ready /\ r.retry = k.retry /\ r.rejoin = k.rejoin
      /\ r.asking /\ r.joinRequested = k.joinRequested /\ r.bridged = k.bridged /\ r.status = k.status
      /\ r.flush = k.flush
  BY <1>2, <1>4 DEF Sessions
<1>6. SessionInd(r)
  BY <1>3, <1>5 DEF SessionInd
<1>7. OutInd(r)
  BY <1>5 DEF OutInd
<1> QED BY <1>1, <1>3, <1>5, <1>6, <1>7 DEF Acts

\* It is lost, or was never made.
LEMMA CloseFacts ==
  ASSUME NEW E, NEW V, NEW k \in Sessions(E, V), k.out = <<>>, SessionInd(k), k.socket # "none"
  PROVE  Parts(k, OnClose(k), E, V) /\ (OnClose(k)).socket = "none"
<1>1. PICK r : r = OnClose(k)
  OBVIOUS
<1>2. ~k.finished
  BY DEF SessionInd
<1>3. PICK m : m = [k EXCEPT !.ready = FALSE, !.socket = "none", !.joined = FALSE,
                             !.joinRequested = FALSE, !.awaiting = FALSE]
  OBVIOUS
<1>4. /\ m \in Sessions(E, V) /\ m.out = <<>> /\ m.doc = k.doc /\ ~m.ready /\ m.socket = "none" /\ ~m.joined
      /\ ~m.joinRequested /\ m.finished = k.finished
  BY <1>3 DEF Sessions
<1>5. PICK n : n = [m EXCEPT !.pending = {}, !.flush = FALSE, !.rejoin = FALSE]
  OBVIOUS
<1>6. /\ n \in Sessions(E, V) /\ n.out = <<>> /\ n.doc = k.doc /\ ~n.ready /\ n.socket = "none" /\ ~n.joined
      /\ ~n.joinRequested /\ n.finished = k.finished /\ n.pending = {} /\ ~n.flush /\ ~n.rejoin
  BY <1>4, <1>5 DEF Sessions
<1>7. Coming(k) \in {"connecting", "reconnecting"}
  BY DEF Coming
<1>8. r = [n EXCEPT !.retry = TRUE, !.status = Coming(k)]
  BY <1>1, <1>2, <1>3, <1>5 DEF OnClose
<1>9. /\ r \in Sessions(E, V) /\ r.out = <<>> /\ r.doc = k.doc /\ ~r.ready /\ r.socket = "none" /\ ~r.joined
      /\ ~r.joinRequested /\ ~r.finished /\ r.pending = {} /\ ~r.flush /\ ~r.rejoin /\ r.retry
      /\ r.status = Coming(k)
  BY <1>2, <1>6, <1>7, <1>8 DEF Sessions
<1>10. SessionInd(r)
  BY <1>7, <1>9 DEF SessionInd
<1>11. OutInd(r)
  BY <1>9 DEF OutInd
<1> QED BY <1>1, <1>9, <1>10, <1>11 DEF Parts, Acts

------------------------------------------------------------------------------
(* What a browser does to its connection. *)

Put(s, r) == IF s.open THEN [s EXCEPT !.up = @ \o r.out] ELSE s

\* The frames of r are on the wire behind those of s.
Behind(s, r, t) ==
  /\ t.open = s.open /\ t.down = s.down /\ t.att = s.att /\ t.busy = s.busy
  /\ s.open => /\ \A type : Asks(t.up, type) <=> Asks(s.up, type) \/ Asks(r.out, type)
               /\ \A x : Goes(t.up, x) <=> Goes(s.up, x) \/ Goes(r.out, x)

\* The frames of a session are put on the wire.
LEMMA PutFacts ==
  ASSUME NEW E, NEW V, NEW D, NEW k, NEW s \in Connections(E, V), ConnectionInd(s, D, k.doc),
         NEW r, Acts(k, r, E, V)
  PROVE  /\ Put(s, r) \in Connections(E, V) /\ ConnectionInd(Put(s, r), D, r.doc)
         /\ Behind(s, r, Put(s, r))
         /\ UpKinds(s) /\ SendsOne(r, E, V) => UpKinds(Put(s, r))
<1>1. r \in Sessions(E, V) /\ k.doc \subseteq r.doc /\ OutInd(r) /\ r.out \in Seq(Ups(E, V))
  BY DEF Acts, Sessions
<1>2. CASE ~s.open
  <2>1. Put(s, r) = s
    BY <1>2 DEF Put
  <2>2. ConnectionInd(s, D, r.doc)
    BY <1>1 DEF ConnectionInd
  <2> QED BY <1>2, <2>1, <2>2 DEF Behind
<1>3. CASE s.open
  <2>1. PICK u : u = s.up \o r.out
    OBVIOUS
  <2>2. s.up \in Seq(Ups(E, V))
    BY DEF Connections
  <2>3. /\ u \in Seq(Ups(E, V))
        /\ \A i \in DOMAIN u : \/ i \in DOMAIN s.up /\ u[i] = s.up[i]
                               \/ i - Len(s.up) \in DOMAIN r.out /\ u[i] = r.out[i - Len(s.up)]
    <3>1. PICK v \in Seq(Ups(E, V)) : v = s.up
      BY <2>2
    <3>2. PICK w \in Seq(Ups(E, V)) : w = r.out
      BY <1>1
    <3>3. u = v \o w
      BY <2>1, <3>1, <3>2
    <3>4. /\ u \in Seq(Ups(E, V))
          /\ \A i \in DOMAIN u : \/ i \in DOMAIN v /\ u[i] = v[i]
                                 \/ i - Len(v) \in DOMAIN w /\ u[i] = w[i - Len(v)]
      BY <3>3, ConcatFacts
    <3> QED BY <3>1, <3>2, <3>4
  <2>4. /\ \A type : Asks(u, type) <=> Asks(s.up, type) \/ Asks(r.out, type)
        /\ \A x : Goes(u, x) <=> Goes(s.up, x) \/ Goes(r.out, x)
    <3>1. PICK v \in Seq(Ups(E, V)) : v = s.up
      BY <2>2
    <3>2. PICK w \in Seq(Ups(E, V)) : w = r.out
      BY <1>1
    <3>3. u = v \o w
      BY <2>1, <3>1, <3>2
    <3>4. /\ \A type : Asks(u, type) <=> Asks(v, type) \/ Asks(w, type)
          /\ \A x : Goes(u, x) <=> Goes(v, x) \/ Goes(w, x)
      BY <3>3, FoundConcat
    <3> QED BY <3>1, <3>2, <3>4
  <2>5. PICK t : t = [s EXCEPT !.up = u]
    OBVIOUS
  <2>6. t = Put(s, r)
    BY <1>3, <2>1, <2>5 DEF Put
  <2>7. /\ t \in Connections(E, V) /\ t.up = u /\ t.down = s.down /\ t.att = s.att /\ t.busy = s.busy
        /\ t.open = s.open /\ t.since = s.since
    BY <2>3, <2>5 DEF Connections
  <2>8. \A n \in DOMAIN u : Upload(u[n]) \subseteq r.doc /\ Since(u[n]) \subseteq r.doc
    <3>1. \A n \in DOMAIN s.up : Upload(s.up[n]) \subseteq r.doc /\ Since(s.up[n]) \subseteq r.doc
      BY <1>1 DEF ConnectionInd
    <3>2. \A n \in DOMAIN r.out : Upload(r.out[n]) \subseteq r.doc /\ Since(r.out[n]) \subseteq r.doc
      BY <1>1 DEF OutInd
    <3> QED BY <2>3, <3>1, <3>2
  <2>9. ConnectionInd(t, D, r.doc)
    BY <1>1, <1>3, <2>7, <2>8 DEF ConnectionInd, Attached
  <2>10. Behind(s, r, t)
    BY <2>4, <2>7 DEF Behind
  <2>11. ASSUME UpKinds(s), SendsOne(r, E, V) PROVE UpKinds(t)
    <3>1. \A n \in DOMAIN r.out : r.out[n].type \in {"authenticate", "join", "update"}
      <4>1. CASE r.out = <<>>
        BY <4>1
      <4>2. ASSUME NEW f \in Ups(E, V), r.out = <<f>>, f.type \in {"authenticate", "join", "update"}
            PROVE  \A n \in DOMAIN r.out : r.out[n].type \in {"authenticate", "join", "update"}
        BY <4>2
      <4> QED BY <2>11, <4>1, <4>2 DEF SendsOne
    <3> QED BY <2>3, <2>7, <2>11, <3>1 DEF UpKinds
  <2> QED BY <2>6, <2>7, <2>9, <2>10, <2>11
<1> QED BY <1>2, <1>3

\* What a browser that closed its connection does not read is nobody's.
LEMMA EmptiedFacts ==
  ASSUME NEW E, NEW V, NEW D, NEW doc, NEW s \in Connections(E, V), ConnectionInd(s, D, doc),
         NEW t, t = [s EXCEPT !.down = <<>>]
  PROVE  t \in Connections(E, V) /\ ConnectionInd(t, D, doc)
<1>1. <<>> \in Seq(Downs(E, V))
  BY EmptySeq
<1>2. /\ t \in Connections(E, V) /\ t.up = s.up /\ t.att = s.att /\ t.busy = s.busy
      /\ t.open = s.open /\ t.since = s.since
  BY <1>1 DEF Connections
<1> QED BY <1>2 DEF ConnectionInd, Attached

\* A session that works on stays linked.
LEMMA LiveWorks ==
  ASSUME NEW k, NEW r, NEW s, NEW t, NEW D, Live(k, s, D), s.open, Works(k, r), k.doc \subseteq r.doc,
         Behind(s, r, t)
  PROVE  Live(r, t, D)
<1>1. t.down = s.down /\ t.att = s.att /\ t.busy = s.busy
  BY DEF Behind
<1>2. PeerInd(r, t)
  BY <1>1 DEF Live, PeerInd, Works
<1>3. CompleteInd(r, t, D)
  <2>1. ASSUME NEW x, NEW i, Reaches(k.doc, s, x, i) PROVE Reaches(r.doc, t, x, i)
    BY <1>1, <2>1, Zenon DEF Reaches
  <2>2. CompleteInd(k, s, D)
    BY DEF Live
  <2>3. r.joined = k.joined
    BY DEF Works
  <2> QED BY <1>1, <2>1, <2>2, <2>3 DEF CompleteInd
<1>4. GenuineInd(t, D)
  BY <1>1 DEF Live, GenuineInd
<1>5. GivenInd(r, t, D)
  <2>1. SUFFICES ASSUME r.joined, r.access = "write", r.reconciled, ~EndsAfter(s.down, 0), ~Denied(s.down),
                        NEW x \in r.doc
                 PROVE  x \in D \/ x \in r.pending \/ Goes(t.up, x)
    BY <1>1 DEF GivenInd
  <2>2. k.joined /\ k.access = "write" /\ k.reconciled
    BY <2>1 DEF Works
  <2>3. x \in k.doc => x \in D \/ x \in k.pending \/ Goes(s.up, x)
    BY <2>1, <2>2 DEF Live, GivenInd
  <2>4. (x \in k.doc /\ x \notin k.pending) \/ x \in r.pending \/ Goes(r.out, x)
    BY <2>1 DEF Works, NothingLost
  <2>5. Goes(t.up, x) <=> Goes(s.up, x) \/ Goes(r.out, x)
    BY DEF Behind
  <2> QED BY <2>3, <2>4, <2>5
<1>6. AnsweredInd(r, t)
  <2>1. SUFFICES ASSUME r.status \in {"connecting", "reconnecting"}, ~r.rejoin, ~EndsAfter(s.down, 0)
                 PROVE  /\ \/ r.asking \/ r.joinRequested
                           \/ r.awaiting /\ (Asks(t.up, "authenticate") \/ AnswerComes(t.down))
                        /\ r.joinRequested => JoinOnItsWay(t) \/ JoinedComes(t.down)
    BY <1>1 DEF AnsweredInd
  <2>2. /\ k.status = r.status /\ ~k.rejoin
        /\ r.joinRequested => k.joinRequested \/ Asks(r.out, "join")
        /\ \/ r.joinRequested
           \/ r.awaiting /\ Asks(r.out, "authenticate")
           \/ /\ r.asking = k.asking /\ r.awaiting = k.awaiting
              /\ r.joinRequested = k.joinRequested
    BY <2>1 DEF Works
  <2>3. /\ \/ k.asking \/ k.joinRequested
           \/ k.awaiting /\ (Asks(s.up, "authenticate") \/ AnswerComes(s.down))
        /\ k.joinRequested => JoinOnItsWay(s) \/ JoinedComes(s.down)
    BY <2>1, <2>2 DEF Live, AnsweredInd
  <2>4. \A type : Asks(t.up, type) <=> Asks(s.up, type) \/ Asks(r.out, type)
    BY DEF Behind
  <2>5. JoinOnItsWay(s) \/ Asks(r.out, "join") => JoinOnItsWay(t)
    BY <1>1, <2>4 DEF JoinOnItsWay, Attached
  <2> QED BY <1>1, <2>2, <2>3, <2>4, <2>5
<1> QED BY <1>2, <1>3, <1>4, <1>5, <1>6 DEF Live

\* And so does one that takes a frame.
LEMMA LiveTakes ==
  ASSUME NEW k, NEW r, NEW s, NEW e, NEW t, NEW D, NEW T, s.down \in Seq(T), s.down # <<>>,
         Live(k, s, D), s.open, Heard(k, Head(s.down), r), k.doc \subseteq r.doc,
         e.open = s.open, e.down = Tail(s.down), e.att = s.att, e.busy = s.busy, e.up = s.up,
         Behind(e, r, t)
  PROVE  Live(r, t, D)
<1> DEFINE d == s.down
           f == Head(s.down)
<1>1. /\ t.down = Tail(d) /\ t.att = s.att /\ t.busy = s.busy
      /\ \A type : Asks(t.up, type) <=> Asks(s.up, type) \/ Asks(r.out, type)
      /\ \A x : Goes(t.up, x) <=> Goes(s.up, x) \/ Goes(r.out, x)
  BY DEF Behind
<1>2. /\ 1 \in DOMAIN d /\ f = d[1]
      /\ \A i \in DOMAIN t.down : i + 1 \in DOMAIN d /\ t.down[i] = d[i + 1] /\ i \in Nat /\ i # 0
  BY <1>1, TailFacts, SMT
<1>3. /\ \A i \in Nat : EndsAfter(t.down, i) <=> EndsAfter(d, i + 1)
      /\ EndsAfter(d, 0) <=> EndsAfter(t.down, 0) \/ Ending(f)
  BY <1>1, EndsTail
<1>4. EndsAfter(t.down, 0) <=> EndsAfter(d, 1)
  BY <1>3, SMT
<1>5. \A x : /\ \A i \in Nat : Comes(d, x, i + 1) => Comes(t.down, x, i) \/ (i = 0 /\ x \in Content(f))
             /\ Comes(d, x, 1) => x \in Content(f) \/ Comes(t.down, x, 1)
  BY <1>1, ComesTail
<1>6. /\ Denied(d) <=> Denied(t.down) \/ Denial(f)
      /\ AnswerComes(d) <=> AnswerComes(t.down) \/ Answer(f)
      /\ JoinedComes(d) <=> JoinedComes(t.down) \/ f.type = "joined"
  BY <1>1, FoundTail
<1>7. PeerInd(r, t)
  <2>1. ASSUME r.joined, ~EndsAfter(t.down, 0) PROVE t.att.peer
    <3>1. CASE f.type = "joined"
      <4>1. s.att.peer \/ EndsAfter(d, 1)
        BY <1>2, <3>1 DEF Live, PeerInd, Tells
      <4> QED BY <1>1, <1>4, <2>1, <4>1
    <3>2. CASE f.type # "joined"
      <4>1. k.joined /\ ~EndsAfter(d, 0)
        BY <1>3, <2>1, <3>2 DEF Heard
      <4> QED BY <1>1, <4>1 DEF Live, PeerInd
    <3> QED BY <3>1, <3>2
  <2>2. ASSUME NEW i \in DOMAIN t.down, Tells(t.down[i]), ~EndsAfter(t.down, i) PROVE t.att.peer
    <3>1. i + 1 \in DOMAIN d /\ Tells(d[i + 1]) /\ ~EndsAfter(d, i + 1)
      BY <1>2, <1>3, <2>2
    <3> QED BY <1>1, <3>1 DEF Live, PeerInd
  <2> QED BY <2>1, <2>2 DEF PeerInd
<1>8. CompleteInd(r, t, D)
  <2>1. ASSUME r.joined, ~EndsAfter(t.down, 0), NEW x \in D PROVE Reaches(r.doc, t, x, 1)
    <3>1. Content(f) \subseteq r.doc
      BY <2>1 DEF Heard
    <3>2. Reaches(k.doc, s, x, 1)
      <4>1. CASE f.type = "joined"
        BY <1>2, <1>4, <2>1, <4>1 DEF Live, CompleteInd
      <4>2. CASE f.type # "joined"
        <5>1. k.joined /\ ~EndsAfter(d, 0)
          BY <1>3, <2>1, <4>2 DEF Heard
        <5> QED BY <2>1, <5>1 DEF Live, CompleteInd
      <4> QED BY <4>1, <4>2
    <3> QED BY <1>1, <1>5, <3>1, <3>2, Zenon DEF Reaches
  <2>2. ASSUME NEW i \in DOMAIN t.down, t.down[i].type = "joined", ~EndsAfter(t.down, i), NEW x \in D
        PROVE  Reaches(r.doc, t, x, i)
    <3>1. i + 1 \in DOMAIN d /\ d[i + 1].type = "joined" /\ ~EndsAfter(d, i + 1) /\ i \in Nat /\ i # 0
      BY <1>2, <1>3, <2>2
    <3>2. Reaches(k.doc, s, x, i + 1)
      BY <2>2, <3>1 DEF Live, CompleteInd
    <3> QED BY <1>1, <1>5, <3>1, <3>2, Zenon DEF Reaches
  <2> QED BY <2>1, <2>2 DEF CompleteInd
<1>9. GenuineInd(t, D)
  <2>1. ASSUME NEW i \in DOMAIN t.down, ~EndsAfter(t.down, i) PROVE Claims(t.down[i]) \subseteq D
    <3>1. i + 1 \in DOMAIN d /\ t.down[i] = d[i + 1] /\ ~EndsAfter(d, i + 1)
      BY <1>2, <1>3, <2>1
    <3> QED BY <3>1 DEF Live, GenuineInd
  <2> QED BY <2>1 DEF GenuineInd
<1>10. GivenInd(r, t, D)
  <2>1. SUFFICES ASSUME r.joined, r.access = "write", r.reconciled, ~EndsAfter(t.down, 0), ~Denied(t.down),
                        NEW x \in r.doc
                 PROVE  x \in D \/ x \in r.pending \/ Goes(t.up, x)
    BY DEF GivenInd
  <2>2. Claims(f) \subseteq D
    BY <1>2, <1>4, <2>1 DEF Live, GenuineInd
  <2>3. CASE f.type = "joined"
    <3>1. x \in Claims(f) \/ Goes(r.out, x)
      BY <2>1, <2>3 DEF Heard
    <3> QED BY <1>1, <2>2, <3>1
  <2>4. CASE f.type # "joined"
    <3>1. /\ k.joined /\ k.access = "write" /\ k.reconciled /\ ~Denial(f) /\ ~Ending(f)
          /\ r.doc \subseteq k.doc \cup Content(f) /\ r.pending = k.pending
      BY <2>1, <2>4 DEF Heard
    <3>2. ~EndsAfter(d, 0) /\ ~Denied(d)
      BY <1>3, <1>6, <2>1, <3>1
    <3>3. x \in k.doc => x \in D \/ x \in k.pending \/ Goes(s.up, x)
      BY <3>1, <3>2 DEF Live, GivenInd
    <3>4. Content(f) \subseteq Claims(f)
      BY DEF Claims, Content
    <3> QED BY <1>1, <2>1, <2>2, <3>1, <3>3, <3>4
  <2> QED BY <2>3, <2>4
<1>11. AnsweredInd(r, t)
  <2>1. SUFFICES ASSUME r.status \in {"connecting", "reconnecting"}, ~r.rejoin, ~EndsAfter(t.down, 0)
                 PROVE  /\ \/ r.asking \/ r.joinRequested
                           \/ r.awaiting /\ (Asks(t.up, "authenticate") \/ AnswerComes(t.down))
                        /\ r.joinRequested => JoinOnItsWay(t) \/ JoinedComes(t.down)
    BY DEF AnsweredInd
  <2>2. /\ f.type # "joined" /\ ~Ending(f) /\ k.status = r.status /\ ~k.rejoin
        /\ r.joinRequested => k.joinRequested \/ Asks(r.out, "join")
        /\ \/ r.joinRequested
           \/ /\ ~Answer(f) /\ r.asking = k.asking /\ r.awaiting = k.awaiting
              /\ r.joinRequested = k.joinRequested
    BY <2>1 DEF Heard
  <2>3. ~EndsAfter(d, 0)
    BY <1>3, <2>1, <2>2
  <2>4. /\ \/ k.asking \/ k.joinRequested
           \/ k.awaiting /\ (Asks(s.up, "authenticate") \/ AnswerComes(d))
        /\ k.joinRequested => JoinOnItsWay(s) \/ JoinedComes(d)
    BY <2>1, <2>2, <2>3 DEF Live, AnsweredInd
  <2>5. JoinOnItsWay(s) \/ Asks(r.out, "join") => JoinOnItsWay(t)
    BY <1>1 DEF JoinOnItsWay, Attached
  <2> QED BY <1>1, <1>6, <2>2, <2>4, <2>5
<1> QED BY <1>7, <1>8, <1>9, <1>10, <1>11 DEF Live

\* A session that works on, and its connection.
LEMMA StaysKeeps ==
  ASSUME NEW E, NEW V, NEW D, NEW k, NEW s \in Connections(E, V), ConnectionInd(s, D, k.doc),
         NEW r, Stays(k, r, E, V), r.socket = "open", Link(k, s, D)
  PROVE  Link(r, Put(s, r), D)
<1>1. Acts(k, r, E, V) /\ SendsOne(r, E, V) /\ Works(k, r) /\ k.doc \subseteq r.doc
  BY DEF Stays, Acts
<1>2. Wired(s) /\ (s.open => Live(k, s, D))
  BY LinkIsWired
<1>3. PICK t : t = Put(s, r)
  OBVIOUS
<1>4. Behind(s, r, t) /\ (UpKinds(s) /\ SendsOne(r, E, V) => UpKinds(t))
  BY <1>1, <1>3, PutFacts
<1>5. Wired(t)
  BY <1>1, <1>2, <1>4 DEF Wired, Behind
<1>6. t.open => Live(r, t, D)
  <2>1. SUFFICES ASSUME s.open PROVE Live(r, t, D)
    BY <1>4 DEF Behind
  <2> QED BY <1>1, <1>2, <1>4, <2>1, LiveWorks
<1>7. Link(r, t, D)
  BY <1>5, <1>6, WiredIsLink
<1> QED BY <1>3, <1>7

\* A connection whose first frame was read.
LEMMA RestFacts ==
  ASSUME NEW E, NEW V, NEW D, NEW doc, NEW s \in Connections(E, V), ConnectionInd(s, D, doc), s.down # <<>>,
         NEW e, e = [s EXCEPT !.down = Tail(@)]
  PROVE  /\ e \in Connections(E, V) /\ ConnectionInd(e, D, doc)
         /\ e.open = s.open /\ e.down = Tail(s.down) /\ e.att = s.att /\ e.busy = s.busy /\ e.up = s.up
         /\ s.down \in Seq(Downs(E, V)) /\ Head(s.down) \in Downs(E, V)
<1>1. PICK d \in Seq(Downs(E, V)) : d = s.down
  BY DEF Connections
<1>2. Tail(d) \in Seq(Downs(E, V)) /\ Head(d) \in Downs(E, V)
  BY <1>1, TailFacts
<1>3. /\ e \in Connections(E, V) /\ e.up = s.up /\ e.att = s.att /\ e.busy = s.busy
      /\ e.open = s.open /\ e.since = s.since /\ e.down = Tail(s.down)
  BY <1>1, <1>2 DEF Connections
<1>4. ConnectionInd(e, D, doc)
  BY <1>3 DEF ConnectionInd, Attached
<1> QED BY <1>1, <1>2, <1>3, <1>4

\* A session that takes a frame, and its connection.
LEMMA TakesKeeps ==
  ASSUME NEW E, NEW V, NEW D, NEW k, NEW s \in Connections(E, V), ConnectionInd(s, D, k.doc),
         s.down # <<>>, Head(s.down).type # "close", NEW e, e = [s EXCEPT !.down = Tail(@)],
         NEW r, Takes(k, Head(s.down), r, E, V), r.socket = "open", Link(k, s, D)
  PROVE  Link(r, Put(e, r), D)
<1>1. Acts(k, r, E, V) /\ SendsOne(r, E, V) /\ Heard(k, Head(s.down), r) /\ k.doc \subseteq r.doc
  BY DEF Takes, Acts
<1>2. Wired(s) /\ (s.open => Live(k, s, D))
  BY LinkIsWired
<1>3. /\ e \in Connections(E, V) /\ ConnectionInd(e, D, k.doc)
      /\ e.open = s.open /\ e.down = Tail(s.down) /\ e.att = s.att /\ e.busy = s.busy /\ e.up = s.up
      /\ s.down \in Seq(Downs(E, V))
  BY RestFacts
<1>4. PICK t : t = Put(e, r)
  OBVIOUS
<1>5. Behind(e, r, t) /\ (UpKinds(e) /\ SendsOne(r, E, V) => UpKinds(t))
  BY <1>1, <1>3, <1>4, PutFacts
<1>6. UpKinds(t)
  BY <1>1, <1>2, <1>3, <1>5 DEF Wired, UpKinds
<1>7. ~s.open => Closing(Tail(s.down))
  <2>1. SUFFICES ASSUME Closing(s.down) PROVE Closing(Tail(s.down))
    BY <1>2 DEF Wired
  <2>2. PICK d \in Seq(Downs(E, V)) : d = s.down
    BY <1>3
  <2>3. PICK v : v = Tail(d)
    OBVIOUS
  <2>4. /\ v \in Seq(Downs(E, V)) /\ Len(d) \in Nat \ {0} /\ Len(v) = Len(d) - 1
        /\ DOMAIN d = 1 .. Len(d) /\ Head(d) = d[1]
        /\ \A i \in DOMAIN d : i = 1 \/ (i - 1 \in DOMAIN v /\ d[i] = v[i - 1])
    BY <2>2, <2>3, TailFacts
  <2>5. d[Len(d)].type = "close" /\ d[1].type # "close"
    BY <2>1, <2>2, <2>4 DEF Closing
  <2>6. Len(d) \in DOMAIN d /\ Len(d) # 1
    BY <2>4, <2>5
  <2>7. v[Len(v)].type = "close" /\ Len(v) # 0
    BY <2>4, <2>5, <2>6
  <2>8. v # <<>>
    BY <2>7, EmptySeq
  <2> QED BY <2>2, <2>3, <2>7, <2>8 DEF Closing
<1>8. Wired(t)
  BY <1>3, <1>5, <1>6, <1>7 DEF Wired, Behind
<1>9. t.open => Live(r, t, D)
  <2>1. SUFFICES ASSUME s.open PROVE Live(r, t, D)
    BY <1>3, <1>5 DEF Behind
  <2> QED BY <1>1, <1>2, <1>3, <1>5, <2>1, LiveTakes
<1>10. Link(r, t, D)
  BY <1>8, <1>9, WiredIsLink
<1> QED BY <1>4, <1>10

\* A connection that was just accepted.
LEMMA AcceptedFacts ==
  ASSUME NEW E, NEW V, Anonymous \in V, NEW D, NEW r, ~r.joined, ~r.joinRequested, r.asking
  PROVE  /\ Accepted \in Connections(E, V) /\ ConnectionInd(Accepted, D, r.doc) /\ Link(r, Accepted, D)
         /\ \A B : Guarded(Accepted, B)
<1>1. PICK g : g = [type |-> "ready", viewer |-> Anonymous]
  OBVIOUS
<1>2. g \in Downs(E, V) /\ ~Tells(g) /\ ~Ending(g) /\ Claims(g) = {} /\ g.type # "joined"
  BY <1>1 DEF Downs, Tells, Ending, Claims, Content
<1>3. PICK d : d = <<g>>
  OBVIOUS
<1>4. d \in Seq(Downs(E, V)) /\ DOMAIN d = {1} /\ d[1] = g
  BY <1>2, <1>3, SMT
<1>5. PICK s : s = [open |-> TRUE, viewer |-> Anonymous, expired |-> FALSE, busy |-> "idle",
                    since |-> {}, found |-> "none", att |-> NotAttached, up |-> <<>>, down |-> d]
  OBVIOUS
<1>6. <<>> \in Seq(Ups(E, V)) /\ Len(<<>>) = 0
  BY EmptySeq
<1>7. /\ s \in Connections(E, V) /\ s.open /\ s.busy = "idle" /\ s.since = {} /\ s.att = NotAttached
      /\ s.up = <<>> /\ s.down = d /\ DOMAIN s.up = {}
  BY <1>4, <1>5, <1>6, NotAttachedKind DEF Connections, Access
<1>8. ConnectionInd(s, D, r.doc)
  BY <1>7, NotAttachedKind, PendingAssumption, SMT DEF ConnectionInd, Attached
<1>9. Live(r, s, D)
  BY <1>2, <1>4, <1>7 DEF Live, PeerInd, CompleteInd, GenuineInd, GivenInd, AnsweredInd
<1>10. Link(r, s, D)
  BY <1>7, <1>9 DEF Link
<1>11. s = Accepted
  BY <1>1, <1>3, <1>5 DEF Accepted
<1>12. \A B : Guarded(s, B)
  BY <1>5, NotAttachedKind DEF Guarded
<1> QED BY <1>7, <1>8, <1>10, <1>11, <1>12

\* The frames a session sent are on the wire, and nowhere else.
LEMMA SentFacts ==
  ASSUME NEW E, NEW V, NEW k, NEW r, Acts(k, r, E, V), NEW q, q = [r EXCEPT !.out = <<>>]
  PROVE  /\ q \in Sessions(E, V) /\ ClientInd(q) /\ q.doc = r.doc /\ q.socket = r.socket
         /\ \A s, D : Link(r, s, D) => Link(q, s, D)
<1>1. r \in Sessions(E, V) /\ SessionInd(r)
  BY DEF Acts
<1>2. <<>> \in Seq(Ups(E, V))
  BY EmptySeq
<1>3. /\ q \in Sessions(E, V) /\ q.out = <<>> /\ q.doc = r.doc /\ q.pending = r.pending /\ q.reconciled = r.reconciled
      /\ q.joined = r.joined /\ q.finished = r.finished /\ q.socket = r.socket /\ q.ready = r.ready
      /\ q.retry = r.retry /\ q.rejoin = r.rejoin /\ q.asking = r.asking /\ q.access = r.access
      /\ q.joinRequested = r.joinRequested /\ q.bridged = r.bridged /\ q.status = r.status /\ q.flush = r.flush
      /\ q.awaiting = r.awaiting
  BY <1>1, <1>2 DEF Sessions
<1>4. ClientInd(q)
  BY <1>1, <1>3 DEF ClientInd, SessionInd
<1>5. ASSUME NEW s, NEW D, Link(r, s, D) PROVE Link(q, s, D)
  <2>1. ASSUME Live(r, s, D) PROVE Live(q, s, D)
    BY <1>3, <2>1 DEF Live, PeerInd, CompleteInd, GivenInd, AnsweredInd
  <2> QED BY <1>5, <2>1 DEF Link
<1> QED BY <1>3, <1>4, <1>5

------------------------------------------------------------------------------
(* The kinds, when there is one more edit. *)

\* Frames, sessions and connections over fewer edits are ones over more.
LEMMA MoreEdits ==
  ASSUME NEW E, NEW F, E \subseteq F, NEW V, NEW W, V \subseteq W
  PROVE  /\ Sessions(E, V) \subseteq Sessions(F, W)
         /\ Connections(E, V) \subseteq Connections(F, W)
<1>1. Ups(E, V) \subseteq Ups(F, W)
  BY DEF Ups
<1>2. Downs(E, V) \subseteq Downs(F, W)
  BY DEF Downs
<1>3. /\ \A q : q \in Seq(Ups(E, V)) => q \in Seq(Ups(F, W))
      /\ \A q : q \in Seq(Downs(E, V)) => q \in Seq(Downs(F, W))
      /\ \A q : q \in Seq(SUBSET E) => q \in Seq(SUBSET F)
  BY <1>1, <1>2, SeqMonotonic
<1>4. Attachments(E) \subseteq Attachments(F)
  BY <1>3 DEF Attachments
<1>5. Sessions(E, V) \subseteq Sessions(F, W)
  BY <1>3 DEF Sessions
<1>6. Connections(E, V) \subseteq Connections(F, W)
  BY <1>3, <1>4 DEF Connections
<1> QED BY <1>5, <1>6

------------------------------------------------------------------------------
(* The whole: what a step does to all of the connections. *)

\* A connection is one of one of the browsers.
LEMMA IdFacts ==
  ASSUME NEW id
  PROVE  id \in Ids <=> \E c \in Clients : \E n \in DOMAIN connections[c] : id = <<c, n>>
  BY DEF Ids

\* The connection a browser reads from is one.
LEMMA CurrentFacts ==
  ASSUME NEW T, connections \in [Clients -> Seq(T)], NEW c \in Clients, connections[c] # <<>>
  PROVE  Current(c) \in Ids /\ (Current(c))[1] = c /\ At(Current(c)) \in T
<1>1. PICK q \in Seq(T) : q = connections[c]
  OBVIOUS
<1>2. Len(q) \in Nat \ {0} /\ DOMAIN q = 1 .. Len(q)
  BY <1>1, EmptySeq, LenProperties
<1>3. Len(q) \in DOMAIN q /\ q[Len(q)] \in T
  BY <1>2, ElementOfSeq, SMT
<1>4. Current(c) = <<c, Len(q)>> /\ At(Current(c)) = q[Len(q)]
  BY <1>1 DEF Current, At
<1> QED BY <1>1, <1>3, <1>4, IdFacts

\* Whatever is found at an identity is of the kind of the connections.
LEMMA AtKind ==
  ASSUME NEW T, connections \in [Clients -> Seq(T)], NEW id \in Ids
  PROVE  At(id) \in T /\ id[1] \in Clients
<1>1. PICK c \in Clients : \E n \in DOMAIN connections[c] : id = <<c, n>>
  BY IdFacts
<1> PICK n \in DOMAIN connections[c] : id = <<c, n>>
  BY <1>1
<1>2. PICK q \in Seq(T) : q = connections[c]
  OBVIOUS
<1>3. q[n] \in T
  BY <1>1, <1>2, LenProperties, ElementOfSeq
<1> QED BY <1>1, <1>2, <1>3 DEF At

\* Every browser keeps its connections, and each becomes what it is after.
LEMMA BecomeFacts ==
  ASSUME NEW T, connections \in [Clients -> Seq(T)], NEW after, NEW D, Become(after, D),
         NEW S, \A id \in Ids : after[id] \in S
  PROVE  /\ connections' \in [Clients -> Seq(S)] /\ document' = D /\ grants' = grants
         /\ \A c \in Clients : /\ Current(c)' = Current(c)
                               /\ (connections[c])' = <<>> <=> connections[c] = <<>>
         /\ Ids' = Ids
         /\ \A id \in Ids : (connections')[id[1]][id[2]] = after[id]
<1>1. connections' = [c \in Clients |-> [n \in DOMAIN connections[c] |-> after[<<c, n>>]]]
  BY DEF Become
<1>2. ASSUME NEW c \in Clients
      PROVE  /\ connections'[c] \in Seq(S) /\ Len(connections'[c]) = Len(connections[c])
             /\ DOMAIN connections'[c] = DOMAIN connections[c]
             /\ connections'[c] = <<>> <=> connections[c] = <<>>
             /\ \A n \in DOMAIN connections[c] : connections'[c][n] = after[<<c, n>>]
  <2>1. PICK q \in Seq(T) : q = connections[c]
    OBVIOUS
  <2>2. Len(q) \in Nat /\ DOMAIN q = 1 .. Len(q)
    BY LenProperties
  <2>3. PICK r : r = [n \in 1 .. Len(q) |-> after[<<c, n>>]]
    OBVIOUS
  <2>4. r = connections'[c]
    BY <1>1, <2>1, <2>2, <2>3
  <2>5. \A n \in 1 .. Len(q) : after[<<c, n>>] \in S
    BY <2>1, <2>2, IdFacts
  <2>6. r \in [1 .. Len(q) -> S]
    BY <2>3, <2>5
  <2>7. r \in Seq(S)
    BY <2>2, <2>6, SeqDef
  <2>8. DOMAIN r = 1 .. Len(q) /\ DOMAIN r = 1 .. Len(r) /\ Len(r) \in Nat
    BY <2>3, <2>7, LenProperties
  <2>9. Len(r) = Len(q)
    BY <2>2, <2>8
  <2>10. r = <<>> <=> q = <<>>
    BY <2>7, <2>9, EmptySeq
  <2> QED BY <2>1, <2>2, <2>3, <2>4, <2>7, <2>8, <2>9, <2>10
<1>3. connections' \in [Clients -> Seq(S)]
  BY <1>1, <1>2
<1>4. \A c \in Clients : Current(c)' = Current(c)
  BY <1>2 DEF Current
<1>5. Ids' = Ids
  BY <1>2 DEF Ids
<1>6. \A id \in Ids : (connections')[id[1]][id[2]] = after[id]
  BY <1>2, IdFacts
<1> QED BY <1>2, <1>3, <1>4, <1>5, <1>6 DEF Become

\* What fits one browser fits all of them together.
LEMMA FitFacts ==
  ASSUME NEW c \in Clients
  PROVE  Fit(c) \subseteq edited /\ Own(c) \subseteq Viewers /\ Anonymous \in Own(c) /\ setting.people[c] \in Own(c)
  BY DEF Fit, Own, Viewers

\* And still fits it when the same was done, or more of it fits.
LEMMA FitStays ==
  ASSUME setting' = setting, edited' = edited, barred' \subseteq barred, NEW c \in Clients
  PROVE  Fit(c) \subseteq Fit(c)' /\ Own(c)' = Own(c) /\ (barred' = barred => Fit(c)' = Fit(c))
  BY DEF Fit, Own

\* What is barred is not in the document.
LEMMA DocumentFits ==
  ASSUME NEW D \in SUBSET edited, \A w \in barred : w[2] \notin D, NEW c \in Clients
  PROVE  D \subseteq Fit(c)
  BY DEF Fit

\* Only the owner is let in.
LEMMA OthersAreNotOwners ==
  ASSUME Allowed
  PROVE  Owned(barred)
<1>1. Anonymous # grants.owner
  BY OwnersAssumption DEF Allowed
<1> QED BY <1>1 DEF Allowed, Owned, ReadCircuit

\* What the sessions and the connections are after a step that lets every
\* browser keep its connections.
LEMMA StepKeeps ==
  ASSUME IInv, NEW after, NEW D, Become(after, D), setting' = setting, D \subseteq edited',
         \A c \in Clients : Fit(c) \subseteq Fit(c)',
         sessions' = [c \in Clients |-> sessions'[c]],
         \A c \in Clients : sessions'[c] \in Sessions(Fit(c)', Own(c)) /\ ClientInd(sessions'[c]),
         \A id \in Ids : /\ after[id] \in Connections(Fit(id[1])', Own(id[1]))
                         /\ ConnectionInd(after[id], D, sessions'[id[1]].doc)
                         /\ Guarded(after[id], barred'),
         \A w \in barred' : w[1] # grants.owner /\ w[2] \in edited' \ D,
         \A c \in Clients : sessions'[c].socket = "open" =>
            connections[c] # <<>> /\ Link(sessions'[c], after[Current(c)], D)
  PROVE  IInv'
<1>1. connections \in [Clients -> Seq(Connections(edited, Viewers))]
  BY DEF IInv, Kinds
<1>2. Viewers' = Viewers /\ \A c : Own(c)' = Own(c)
  BY DEF Viewers, Own
<1>a. ASSUME NEW c \in Clients
      PROVE  /\ Sessions(Fit(c)', Own(c)) \subseteq Sessions(edited', Viewers)
             /\ Connections(Fit(c)', Own(c)) \subseteq Connections(edited', Viewers)
  <2>1. Fit(c)' \subseteq edited' /\ Own(c) \subseteq Viewers
    BY FitFacts DEF Fit
  <2> QED BY <2>1, MoreEdits
<1>b. sessions' \in [Clients -> Sessions(edited', Viewers)]
  BY <1>a
<1>c. \A id \in Ids : id[1] \in Clients /\ after[id] \in Connections(edited', Viewers)
  BY <1>1, <1>a, AtKind
<1>3. /\ connections' \in [Clients -> Seq(Connections(edited', Viewers))] /\ document' = D
      /\ \A c \in Clients : /\ Current(c)' = Current(c)
                            /\ (connections[c])' = <<>> <=> connections[c] = <<>>
      /\ Ids' = Ids
      /\ \A id \in Ids : (connections')[id[1]][id[2]] = after[id]
  BY <1>1, <1>c, BecomeFacts
<1>e. grants' = grants
  BY DEF Become
<1>d. \A id \in Ids : At(id)' = after[id]
  BY <1>3 DEF At
<1>4. Kinds'
  <2>1. \A id \in Ids' : (At(id) \in Connections(Fit(id[1]), Own(id[1])))'
    BY <1>2, <1>3, <1>d
  <2>2. \A c \in Clients : (sessions[c] \in Sessions(Fit(c), Own(c)))'
    BY <1>2
  <2> QED BY <1>2, <1>3, <1>b, <2>1, <2>2 DEF Kinds
<1>5. \A c \in Clients : ClientInd(sessions'[c])
  OBVIOUS
<1>6. \A id \in Ids' : (ConnectionInd(At(id), document, sessions[id[1]].doc))'
  BY <1>3 DEF At
<1>7. ASSUME NEW c \in Clients PROVE Linked(c)'
  <2>1. SUFFICES ASSUME sessions'[c].socket = "open"
                 PROVE  connections'[c] # <<>> /\ Link(sessions'[c], At(Current(c))', D)
    BY <1>3 DEF Linked
  <2>2. connections[c] # <<>> /\ Link(sessions'[c], after[Current(c)], D)
    BY <2>1
  <2>3. Current(c) \in Ids
    BY <1>1, <2>2, CurrentFacts
  <2>4. At(Current(c))' = after[Current(c)]
    BY <1>3, <2>3 DEF At
  <2> QED BY <1>3, <2>2, <2>4
<1>8. Allowed'
  <2>1. /\ (grants = [owner |-> grants.owner, public |-> grants.public])' /\ (grants.owner \in Owners)'
    BY <1>e DEF IInv, Allowed
  <2>2. \A id \in Ids' : Guarded(At(id)', barred')
    BY <1>3, <1>d
  <2>3. \A w \in barred' : (w[1] # grants.owner /\ w[2] \in edited \ document)'
    BY <1>3, <1>e
  <2> QED BY <2>1, <2>2, <2>3 DEF Allowed
<1> QED BY <1>4, <1>5, <1>6, <1>7, <1>8 DEF IInv

\* What a step of the relay leaves alone.
Apart == UNCHANGED <<setting, sessions, edited>> /\ barred' \subseteq barred

\* A step of the relay on all of the connections.
LEMMA RelayStepKeeps ==
  ASSUME IInv, NEW after, NEW D, Become(after, D), Apart, D \subseteq edited, \A w \in barred' : w[2] \notin D,
         \A id \in Ids : /\ Moves2(sessions[id[1]], At(id), after[id], document, D, Fit(id[1]), Own(id[1]))
                         /\ Guarded(after[id], barred')
  PROVE  IInv'
<1>1. connections \in [Clients -> Seq(Connections(edited, Viewers))] /\ sessions \in [Clients -> Sessions(edited, Viewers)]
  BY DEF IInv, Kinds
<1>2. setting' = setting /\ sessions' = sessions /\ edited' = edited /\ barred' \subseteq barred
  BY DEF Apart
<1>a. \A c \in Clients : Fit(c) \subseteq Fit(c)'
  BY <1>2, FitStays
<1>b. \A c \in Clients : Sessions(Fit(c), Own(c)) \subseteq Sessions(Fit(c)', Own(c))
  BY <1>a, MoreEdits
<1>c. \A id \in Ids : Connections(Fit(id[1]), Own(id[1])) \subseteq Connections(Fit(id[1])', Own(id[1]))
  <2>1. SUFFICES ASSUME NEW id \in Ids
                 PROVE  Connections(Fit(id[1]), Own(id[1])) \subseteq Connections(Fit(id[1])', Own(id[1]))
    OBVIOUS
  <2>2. id[1] \in Clients
    BY <1>1, AtKind
  <2>3. Fit(id[1]) \subseteq Fit(id[1])'
    BY <1>a, <2>2
  <2>4. \A E, G, V : E \subseteq G => Connections(E, V) \subseteq Connections(G, V)
    BY MoreEdits
  <2> QED BY <2>3, <2>4
<1>3. sessions' = [c \in Clients |-> sessions'[c]] /\ D \subseteq edited'
  BY <1>1, <1>2
<1>4. \A c \in Clients : sessions'[c] \in Sessions(Fit(c)', Own(c)) /\ ClientInd(sessions'[c])
  BY <1>2, <1>b DEF IInv, Kinds
<1>5. \A id \in Ids : /\ after[id] \in Connections(Fit(id[1])', Own(id[1]))
                      /\ ConnectionInd(after[id], D, sessions'[id[1]].doc)
                      /\ Guarded(after[id], barred')
  BY <1>2, <1>c DEF Moves2
<1>d. \A w \in barred' : w[1] # grants.owner /\ w[2] \in edited' \ D
  BY <1>2 DEF IInv, Allowed
<1>6. ASSUME NEW c \in Clients, sessions'[c].socket = "open"
      PROVE  connections[c] # <<>> /\ Link(sessions'[c], after[Current(c)], D)
  <2>1. connections[c] # <<>> /\ Link(sessions[c], At(Current(c)), document)
    BY <1>2, <1>6 DEF IInv, Linked
  <2>2. Current(c) \in Ids /\ (Current(c))[1] = c
    BY <1>1, <2>1, CurrentFacts
  <2> QED BY <1>2, <2>1, <2>2 DEF Moves2
<1> QED BY <1>2, <1>3, <1>4, <1>5, <1>6, <1>a, <1>d, StepKeeps

\* A step of the relay on one of them.
LEMMA RelayOneKeeps ==
  ASSUME IInv, NEW id \in Ids, NEW s, One(id, s), Apart,
         Keeps(sessions[id[1]], At(id), s, document, Fit(id[1]), Own(id[1])), Guarded(s, barred')
  PROVE  IInv'
<1>1. PICK after : after = [i \in Ids |-> IF i = id THEN s ELSE At(i)]
  OBVIOUS
<1>2. Become(after, document)
  BY <1>1 DEF One
<1>3. barred' \subseteq barred
  BY DEF Apart
<1>4. ASSUME NEW i \in Ids
      PROVE  /\ Moves2(sessions[i[1]], At(i), after[i], document, document, Fit(i[1]), Own(i[1]))
             /\ Guarded(after[i], barred')
  <2>1. CASE i = id
    BY <1>1, <2>1 DEF Keeps, Moves2
  <2>2. CASE i # id
    <3>1. after[i] = At(i) /\ At(i) \in Connections(Fit(i[1]), Own(i[1]))
      BY <1>1, <2>2 DEF IInv, Kinds
    <3>2. ConnectionInd(At(i), document, sessions[i[1]].doc) /\ Guarded(At(i), barred)
      BY DEF IInv, Allowed
    <3>3. Guarded(At(i), barred')
      BY <1>3, <3>2, FewerGuard
    <3> QED BY <3>1, <3>2, <3>3 DEF Moves2
  <2> QED BY <2>1, <2>2
<1>5. document \subseteq edited /\ \A w \in barred' : w[2] \notin document
  BY <1>3 DEF IInv, Kinds, Allowed
<1> QED BY <1>2, <1>4, <1>5, RelayStepKeeps

\* What a step of the relay starts from.
LEMMA RelayFacts ==
  ASSUME IInv, NEW id \in Ids
  PROVE  /\ At(id) \in Connections(Fit(id[1]), Own(id[1])) /\ document \subseteq Fit(id[1])
         /\ ConnectionInd(At(id), document, sessions[id[1]].doc)
         /\ Guarded(At(id), barred) /\ Owned(barred)
         /\ id[1] \in Clients
<1>1. connections \in [Clients -> Seq(Connections(edited, Viewers))] /\ document \in SUBSET edited
  BY DEF IInv, Kinds
<1>2. id[1] \in Clients
  BY <1>1, AtKind
<1>3. \A w \in barred : w[2] \notin document
  BY DEF IInv, Allowed
<1>4. document \subseteq Fit(id[1])
  BY <1>1, <1>2, <1>3, DocumentFits
<1> QED BY <1>2, <1>4, OthersAreNotOwners DEF IInv, Kinds, Allowed

\* A step of the relay that keeps nobody out and lets nobody in.
LEMMA RelayOneStep ==
  ASSUME IInv, Relay, NEW id \in Ids, NEW s, s = At(id), NEW k, k = sessions[id[1]],
         NEW r, One(id, r), Keeps(k, s, r, document, Fit(id[1]), Own(id[1])), Guarded(r, barred)
  PROVE  IInv'
<1>1. Apart /\ barred' = barred
  BY DEF Relay, Apart
<1>2. Guarded(r, barred')
  BY <1>1
<1> QED BY <1>1, <1>2, RelayOneKeeps

\* Every frame the relay reads.
LEMMA RelayReadsKeeps ==
  ASSUME IInv, RelayReads
  PROVE  IInv'
<1>1. PICK id \in Ids : (Authenticate(id) \/ JoinFrame(id) \/ Leave(id) \/ Bye(id)) /\ Relay
  BY DEF RelayReads
<1>2. PICK s : s = At(id)
  OBVIOUS
<1>3. PICK k : k = sessions[id[1]]
  OBVIOUS
<1>4. /\ s \in Connections(Fit(id[1]), Own(id[1])) /\ ConnectionInd(s, document, k.doc)
      /\ Owned(barred) /\ Guarded(s, barred)
  BY <1>2, <1>3, RelayFacts
<1>5. PICK t : t = Taken(s)
  OBVIOUS
<1>6. CASE Authenticate(id)
  <2>1. PICK viewer : viewer = Head(s.up).viewer
    OBVIOUS
  <2>2. s.up # <<>> /\ Head(s.up).type = "authenticate" /\ s.busy = "idle"
    BY <1>2, <1>6 DEF Authenticate, Frame
  <2>3. PICK r : r = Alive(t, Say([t EXCEPT !.viewer = viewer], [type |-> "ready", viewer |-> viewer]))
    OBVIOUS
  <2>4. Keeps(k, s, r, document, Fit(id[1]), Own(id[1]))
    BY <1>4, <1>5, <2>1, <2>2, <2>3, AuthenticateKeeps
  <2>5. One(id, r)
    BY <1>2, <1>5, <1>6, <2>1, <2>3 DEF Authenticate
  <2>6. Guarded(r, barred)
    <3>1. s \in Connections(Fit(id[1]), {Anonymous, setting.people[id[1]]})
      BY <1>4 DEF Own
    <3> QED BY <1>4, <1>5, <2>1, <2>2, <2>3, <3>1, AuthenticateGuards
  <2> QED BY <1>1, <1>2, <1>3, <2>4, <2>5, <2>6, RelayOneStep
<1>7. CASE JoinFrame(id)
  <2>1. s.up # <<>> /\ Head(s.up).type = "join" /\ s.busy = "idle"
    BY <1>2, <1>7 DEF JoinFrame, Frame
  <2>2. PICK r : r = Alive(t, [t EXCEPT !.busy = "reading", !.since = Head(s.up).since, !.found = ReadCircuit(t.viewer)])
    OBVIOUS
  <2>3. Keeps(k, s, r, document, Fit(id[1]), Own(id[1]))
    BY <1>4, <1>5, <2>1, <2>2, JoinFrameKeeps
  <2>4. One(id, r)
    BY <1>2, <1>5, <1>7, <2>2 DEF JoinFrame
  <2>5. Guarded(r, barred)
    BY <1>4, <1>5, <2>1, <2>2, JoinFrameGuards
  <2> QED BY <1>1, <1>2, <1>3, <2>3, <2>4, <2>5, RelayOneStep
<1>8. CASE Leave(id)
  <2>1. s.up # <<>> /\ Head(s.up).type = "leave" /\ s.busy = "idle"
    BY <1>2, <1>8 DEF Leave, Frame
  <2>2. PICK r : r = Alive(t, [t EXCEPT !.att = NotAttached])
    OBVIOUS
  <2>3. Keeps(k, s, r, document, Fit(id[1]), Own(id[1]))
    BY <1>4, <1>5, <2>1, <2>2, PartingKeeps
  <2>4. One(id, r)
    BY <1>2, <1>5, <1>8, <2>2 DEF Leave
  <2>5. Guarded(r, barred)
    <3>1. t \in Connections(Fit(id[1]), Own(id[1])) /\ Guarded(t, barred) /\ \A u : Guarded(u, barred) => Guarded(Alive(t, u), barred)
      BY <1>4, <1>5, <2>1, ReadsGuard
    <3>2. Guarded([t EXCEPT !.att = NotAttached], barred)
      BY <1>4, <3>1, PartsGuard
    <3> QED BY <2>2, <3>1, <3>2
  <2> QED BY <1>1, <1>2, <1>3, <2>3, <2>4, <2>5, RelayOneStep
<1>9. CASE Bye(id)
  <2>1. s.up # <<>> /\ s.up[Len(s.up)].type = "bye"
    BY <1>2, <1>9 DEF Bye
  <2>2. PICK r : r = Close(s)
    OBVIOUS
  <2>3. Keeps(k, s, r, document, Fit(id[1]), Own(id[1]))
    BY <1>4, <2>1, <2>2, PartingKeeps
  <2>4. One(id, r)
    BY <1>2, <1>9, <2>2 DEF Bye
  <2>5. Guarded(r, barred)
    BY <1>4, <2>2, PartsGuard
  <2> QED BY <1>1, <1>2, <1>3, <2>3, <2>4, <2>5, RelayOneStep
<1> QED BY <1>1, <1>6, <1>7, <1>8, <1>9

\* Every decision it makes.
LEMMA RelayDecidesKeeps ==
  ASSUME IInv, RelayDecides
  PROVE  IInv'
<1>1. PICK id \in Ids : (JoinDecided(id) \/ JoinAttaches(id)) /\ Relay
  BY DEF RelayDecides
<1>2. PICK s : s = At(id)
  OBVIOUS
<1>3. PICK k : k = sessions[id[1]]
  OBVIOUS
<1>4. /\ s \in Connections(Fit(id[1]), Own(id[1])) /\ ConnectionInd(s, document, k.doc)
      /\ Owned(barred) /\ Guarded(s, barred) /\ document \subseteq Fit(id[1])
  BY <1>2, <1>3, RelayFacts
<1>5. CASE JoinDecided(id)
  <2>1. PICK t : t = Done(s)
    OBVIOUS
  <2>2. PICK access : access = s.found
    OBVIOUS
  <2>3. s.busy = "reading"
    BY <1>2, <1>5 DEF JoinDecided
  <2>4. access \in Access
    BY <1>4, <2>2, <2>3 DEF Guarded, Connections
  <2>5. PICK r : r = IF access = "none"
                     THEN EndAttachment(FailCircuit(t, "NOT_FOUND"), "unauthorised")
                     ELSE IF Attached(t)
                     THEN Joined([t EXCEPT !.att.access = access, !.att.fresh = TRUE])
                     ELSE [t EXCEPT !.busy = "building",
                                    !.att = [NotAttached EXCEPT !.access = access, !.fresh = TRUE]]
    OBVIOUS
  <2>6. Keeps(k, s, r, document, Fit(id[1]), Own(id[1]))
    BY <1>4, <2>1, <2>3, <2>4, <2>5, JoinDecidedKeeps
  <2>7. One(id, r)
    BY <1>2, <1>5, <2>1, <2>2, <2>5 DEF JoinDecided
  <2>8. Guarded(r, barred)
    BY <1>4, <2>1, <2>2, <2>3, <2>4, <2>5, JoinDecidedGuards
  <2> QED BY <1>1, <1>2, <1>3, <2>6, <2>7, <2>8, RelayOneStep
<1>6. CASE JoinAttaches(id)
  <2>1. s.busy = "building"
    BY <1>2, <1>6 DEF JoinAttaches
  <2>2. PICK t : t = [s EXCEPT !.busy = "idle"]
    OBVIOUS
  <2>3. PICK r : r = IF Attached(t) /\ t.open THEN Joined([t EXCEPT !.att.peer = TRUE])
                     ELSE [t EXCEPT !.att = NotAttached]
    OBVIOUS
  <2>4. Keeps(k, s, r, document, Fit(id[1]), Own(id[1]))
    BY <1>4, <2>1, <2>2, <2>3, JoinAttachesKeeps
  <2>5. One(id, r)
    BY <1>2, <1>6, <2>2, <2>3 DEF JoinAttaches
  <2>6. Guarded(r, barred)
    BY <1>4, <2>1, <2>2, <2>3, JoinAttachesGuards
  <2> QED BY <1>1, <1>2, <1>3, <2>4, <2>5, <2>6, RelayOneStep
<1> QED BY <1>1, <1>5, <1>6

\* An update that is handled has been waited for, or need not be.
LEMMA UpdateFrameFacts ==
  ASSUME NEW id, NEW s, s = At(id), NEW B, Guarded(s, B), UpdateFrame(id)
  PROVE  /\ s.up # <<>> /\ Head(s.up).type = "update" /\ s.busy \in {"idle", "checking"}
         /\ \/ s.busy = "idle" /\ (s.expired \/ ~Attached(s) \/ s.att.fresh)
            \/ s.busy = "checking" /\ s.open
  BY DEF Guarded, UpdateFrame, Frame

\* What is let in was not done by anybody who had lost the circuit.
LEMMA CleanFacts ==
  ASSUME IInv, NEW id \in Ids, NEW s, s = At(id), UpdateFrame(id), Writes(s), NEW w \in barred
  PROVE  w[2] \notin Head(s.up).edits
<1>1. PICK p : p = setting.people[id[1]]
  OBVIOUS
<1>2. /\ s \in Connections(Fit(id[1]), {Anonymous, p}) /\ ConnectionInd(s, document, sessions[id[1]].doc)
      /\ Guarded(s, barred)
  BY <1>1, RelayFacts DEF Own
<1>3. /\ s.up # <<>> /\ Head(s.up).type = "update" /\ s.busy \in {"idle", "checking"}
      /\ \/ s.busy = "idle" /\ (s.expired \/ ~Attached(s) \/ s.att.fresh)
         \/ s.busy = "checking" /\ s.open
  BY <1>2, UpdateFrameFacts
<1>4. CASE w[1] = p
  BY <1>2, <1>3, <1>4, WritersAreAllowed
<1>5. CASE w[1] # p
  <2>1. Head(s.up).edits \subseteq Fit(id[1])
    <3>1. PICK E, V, D, k : E = Fit(id[1]) /\ V = {Anonymous, p} /\ D = document /\ k = sessions[id[1]]
      OBVIOUS
    <3>2. s \in Connections(E, V) /\ ConnectionInd(s, D, k.doc)
      BY <1>2, <3>1
    <3>3. EditsAreHeld(Head(s.up), E, k.doc)
      BY <1>3, <3>2, HandledFacts
    <3> QED BY <3>1, <3>3 DEF EditsAreHeld
  <2> QED BY <1>1, <1>5, <2>1 DEF Fit
<1> QED BY <1>4, <1>5

\* Every update it reads.
LEMMA RelayWritesKeeps ==
  ASSUME IInv, RelayWrites
  PROVE  IInv'
<1>1. PICK id \in Ids : (UpdateAsks(id) \/ UpdateRefused(id) \/ UpdateApplied(id) \/ CheckIsLate(id)) /\ Relay
  BY DEF RelayWrites
<1>2. PICK s : s = At(id)
  OBVIOUS
<1>3. PICK k : k = sessions[id[1]]
  OBVIOUS
<1>4. /\ s \in Connections(Fit(id[1]), Own(id[1])) /\ ConnectionInd(s, document, k.doc)
      /\ Owned(barred) /\ Guarded(s, barred)
  BY <1>2, <1>3, RelayFacts
<1>5. CASE UpdateAsks(id)
  <2>1. s.up # <<>> /\ Head(s.up).type = "update" /\ s.busy = "idle"
    BY <1>2, <1>5 DEF UpdateAsks, Frame
  <2>2. PICK r : r = [s EXCEPT !.busy = "checking", !.found = ReadCircuit(s.viewer)]
    OBVIOUS
  <2>3. Keeps(k, s, r, document, Fit(id[1]), Own(id[1]))
    BY <1>4, <2>1, <2>2, ChecksKeep
  <2>4. One(id, r)
    BY <1>2, <1>5, <2>2 DEF UpdateAsks
  <2>5. Guarded(r, barred)
    BY <1>4, <2>1, <2>2, ChecksGuard
  <2> QED BY <1>1, <1>2, <1>3, <2>3, <2>4, <2>5, RelayOneStep
<1>6. CASE UpdateRefused(id)
  <2>1. s.up # <<>> /\ Head(s.up).type = "update" /\ s.busy \in {"idle", "checking"}
    BY <1>2, <1>4, <1>6, UpdateFrameFacts DEF UpdateRefused
  <2>2. PICK h : h = Handled(s)
    OBVIOUS
  <2>3. PICK r : r = IF s.busy = "idle" /\ s.expired THEN Shut(Taken(s))
                     ELSE IF Attached(h) THEN FailCircuit(h, "FORBIDDEN") ELSE h
    OBVIOUS
  <2>4. Keeps(k, s, r, document, Fit(id[1]), Own(id[1]))
    BY <1>4, <2>1, <2>2, <2>3, UpdateRefusedKeeps
  <2>5. One(id, r)
    BY <1>2, <1>6, <2>2, <2>3 DEF UpdateRefused
  <2>6. Guarded(r, barred)
    BY <1>4, <2>1, <2>2, <2>3, UpdatesGuard
  <2> QED BY <1>1, <1>2, <1>3, <2>4, <2>5, <2>6, RelayOneStep
<1>7. CASE UpdateApplied(id)
  <2>1. PICK e : e = Head(s.up).edits
    OBVIOUS
  <2>2. PICK D : D = document \cup e
    OBVIOUS
  <2>3. PICK after : after = [i \in Ids |-> IF i = id THEN Handled(At(i)) ELSE Deliver(At(i), e)]
    OBVIOUS
  <2>4. UpdateFrame(id) /\ Writes(s) /\ Become(after, D)
    BY <1>2, <1>7, <2>1, <2>2, <2>3 DEF UpdateApplied
  <2>5. s.up # <<>> /\ Head(s.up).type = "update" /\ s.busy \in {"idle", "checking"}
    BY <1>2, <1>4, <2>4, UpdateFrameFacts
  <2>6. Moves2(k, s, Handled(s), document, D, Fit(id[1]), Own(id[1])) /\ e \in SUBSET Fit(id[1])
    BY <1>4, <2>1, <2>2, <2>5, UpdateAppliedKeeps
  <2>7. Apart /\ barred' = barred
    BY <1>1 DEF Relay, Apart
  <2>8. document \subseteq edited /\ \A w \in barred : w[2] \notin document
    BY DEF IInv, Kinds, Allowed
  <2>9. D \subseteq edited /\ \A w \in barred : w[2] \notin D
    <3>1. \A w \in barred : w[2] \notin e
      BY <1>2, <2>1, <2>4, CleanFacts
    <3>2. e \subseteq edited
      BY <2>6 DEF Fit
    <3> QED BY <2>2, <2>8, <3>1, <3>2
  <2>10. ASSUME NEW i \in Ids
         PROVE  /\ Moves2(sessions[i[1]], At(i), after[i], document, D, Fit(i[1]), Own(i[1]))
                /\ Guarded(after[i], barred')
    <3>1. /\ At(i) \in Connections(Fit(i[1]), Own(i[1])) /\ ConnectionInd(At(i), document, sessions[i[1]].doc)
          /\ Guarded(At(i), barred) /\ i[1] \in Clients
      BY RelayFacts
    <3>2. CASE i = id
      <4>1. after[i] = Handled(s)
        BY <1>2, <2>3, <3>2
      <4>2. Guarded(Handled(s), barred)
        BY <1>4, <2>5, UpdatesGuard
      <4> QED BY <1>2, <1>3, <2>6, <2>7, <3>2, <4>1, <4>2
    <3>3. CASE i # id
      <4>1. after[i] = Deliver(At(i), e)
        BY <2>3, <3>3
      <4>2. e \in SUBSET Fit(i[1])
        <5>1. D \subseteq Fit(i[1])
          BY <2>9, <3>1, DocumentFits
        <5> QED BY <2>2, <5>1
      <4>3. Moves2(sessions[i[1]], At(i), Deliver(At(i), e), document, D, Fit(i[1]), Own(i[1]))
        BY <2>2, <3>1, <4>2, DeliverKeeps
      <4>4. Guarded(Deliver(At(i), e), barred)
        BY <1>4, <3>1, DeliversGuard
      <4> QED BY <2>7, <4>1, <4>3, <4>4
    <3> QED BY <3>2, <3>3
  <2> QED BY <2>4, <2>7, <2>9, <2>10, RelayStepKeeps
<1>8. CASE CheckIsLate(id)
  <2>1. s.busy = "checking"
    BY <1>2, <1>8 DEF CheckIsLate
  <2>2. PICK r : r = Done(s)
    OBVIOUS
  <2>3. Keeps(k, s, r, document, Fit(id[1]), Own(id[1]))
    BY <1>4, <2>1, <2>2, ChecksKeep
  <2>4. One(id, r)
    BY <1>2, <1>8, <2>2 DEF CheckIsLate
  <2>5. Guarded(r, barred)
    BY <1>4, <2>2, PartsGuard
  <2> QED BY <1>1, <1>2, <1>3, <2>3, <2>4, <2>5, RelayOneStep
<1> QED BY <1>1, <1>5, <1>6, <1>7, <1>8

\* A re-check the database does not answer: what is waiting on it is barred no more.
LEMMA RechecksFailKeeps ==
  ASSUME IInv, RechecksFail
  PROVE  IInv'
<1>1. PICK id \in Ids : RecheckFails(id) /\ barred' = {w \in barred : At(id).open => w[2] \notin Head(At(id).up).edits}
  BY DEF RechecksFail
<1>2. PICK s : s = At(id)
  OBVIOUS
<1>3. PICK k : k = sessions[id[1]]
  OBVIOUS
<1>4. /\ s \in Connections(Fit(id[1]), Own(id[1])) /\ ConnectionInd(s, document, k.doc)
      /\ Owned(barred) /\ Guarded(s, barred)
  BY <1>2, <1>3, RelayFacts
<1>5. PICK r : r = [s EXCEPT !.found = "unknown"]
  OBVIOUS
<1>6. s.busy = "checking" /\ One(id, r)
  BY <1>1, <1>2, <1>5 DEF RecheckFails
<1>7. Keeps(k, s, r, document, Fit(id[1]), Own(id[1]))
  BY <1>4, <1>5, <1>6, ChecksKeep
<1>8. Guarded(r, barred')
  <2>1. barred' \subseteq barred /\ \A w \in barred' : s.open => w[2] \notin Head(s.up).edits
    BY <1>1, <1>2
  <2>2. PICK C : C = barred'
    OBVIOUS
  <2>3. Guarded(r, C)
    BY <1>4, <1>5, <1>6, <2>1, <2>2, ChecksGuard
  <2> QED BY <2>2, <2>3
<1>9. Apart
  BY <1>1 DEF RechecksFail, Apart
<1> QED BY <1>2, <1>3, <1>6, <1>7, <1>8, <1>9, RelayOneKeeps

\* What it delivers, asks again or lets age.
LEMMA RelayKeepsOn ==
  ASSUME IInv, RelayDelivers \/ RelaySweeps \/ Ages
  PROVE  IInv'
<1>1. PICK id \in Ids : (DeliverUpdate(id) \/ DeliverUnchecked(id) \/ Sweep(id) \/ Age(id)) /\ Relay
  BY DEF RelayDelivers, RelaySweeps, Ages
<1>2. PICK s : s = At(id)
  OBVIOUS
<1>3. PICK k : k = sessions[id[1]]
  OBVIOUS
<1>4. /\ s \in Connections(Fit(id[1]), Own(id[1])) /\ ConnectionInd(s, document, k.doc)
      /\ Owned(barred) /\ Guarded(s, barred)
  BY <1>2, <1>3, RelayFacts
<1>5. PICK t : t = Dequeued(s)
  OBVIOUS
<1>6. s.att.queue # <<>> => /\ Guarded(Say(Rechecked(t), [type |-> "update", edits |-> Head(s.att.queue)]), barred)
                           /\ Guarded(Say(t, [type |-> "update", edits |-> Head(s.att.queue)]), barred)
  BY <1>4, <1>5, DeliversGuard
<1>7. CASE DeliverUpdate(id)
  <2>1. PICK r : r = IF s.expired THEN Shut(s)
                     ELSE IF ~StillAttached(s) THEN EndAttachment(s, "unauthorised")
                     ELSE Say(Rechecked(t), [type |-> "update", edits |-> Head(s.att.queue)])
    OBVIOUS
  <2>2. s.att.queue # <<>>
    BY <1>2, <1>7 DEF DeliverUpdate
  <2>3. Keeps(k, s, r, document, Fit(id[1]), Own(id[1]))
    BY <1>4, <1>5, <2>1, <2>2, DeliverUpdateKeeps
  <2>4. One(id, r)
    BY <1>2, <1>5, <1>7, <2>1 DEF DeliverUpdate, Dequeued
  <2>5. Guarded(r, barred)
    BY <1>4, <1>6, <2>1, <2>2, PartsGuard
  <2> QED BY <1>1, <1>2, <1>3, <2>3, <2>4, <2>5, RelayOneStep
<1>8. CASE DeliverUnchecked(id)
  <2>1. PICK r : r = Say(t, [type |-> "update", edits |-> Head(s.att.queue)])
    OBVIOUS
  <2>2. s.att.queue # <<>>
    BY <1>2, <1>8 DEF DeliverUnchecked
  <2>3. Keeps(k, s, r, document, Fit(id[1]), Own(id[1]))
    BY <1>4, <1>5, <2>1, <2>2, DeliverUncheckedKeeps
  <2>4. One(id, r)
    BY <1>2, <1>5, <1>8, <2>1 DEF DeliverUnchecked, Dequeued
  <2> QED BY <1>1, <1>2, <1>3, <1>6, <2>1, <2>2, <2>3, <2>4, RelayOneStep
<1>9. CASE Sweep(id)
  <2>1. PICK r : r = IF s.expired THEN Shut(s)
                     ELSE IF StillAttached(s) THEN Rechecked(s)
                     ELSE EndAttachment(s, "unauthorised")
    OBVIOUS
  <2>2. s.expired \/ Attached(s)
    BY <1>2, <1>9 DEF Sweep
  <2>3. Keeps(k, s, r, document, Fit(id[1]), Own(id[1]))
    BY <1>4, <2>1, <2>2, SweepKeeps
  <2>4. One(id, r)
    BY <1>2, <1>9, <2>1 DEF Sweep
  <2>5. Guarded(r, barred)
    BY <1>4, <2>1, PartsGuard
  <2> QED BY <1>1, <1>2, <1>3, <2>3, <2>4, <2>5, RelayOneStep
<1>10. CASE Age(id)
  <2>1. PICK r : r = [s EXCEPT !.att.fresh = FALSE]
    OBVIOUS
  <2>2. Attached(s)
    BY <1>2, <1>10 DEF Age
  <2>3. Keeps(k, s, r, document, Fit(id[1]), Own(id[1]))
    BY <1>4, <2>1, <2>2, FreshnessKeeps
  <2>4. One(id, r)
    BY <1>2, <1>10, <2>1 DEF Age
  <2>5. Guarded(r, barred)
    BY <1>4, <2>1, PartsGuard
  <2> QED BY <1>1, <1>2, <1>3, <2>3, <2>4, <2>5, RelayOneStep
<1> QED BY <1>1, <1>7, <1>8, <1>9, <1>10

\* The update that takes the document past its ceiling.
LEMMA OvergrowsStep ==
  ASSUME IInv, Relay, NEW id \in Ids, UpdateOvergrows(id)
  PROVE  IInv'
<1>1. PICK after : after = [i \in Ids |-> IF i = id THEN FailCircuit(Gone(Handled(At(i))), "CIRCUIT_TOO_LARGE")
                                          ELSE Gone(At(i))]
  OBVIOUS
<1>2. Become(after, {}) /\ UpdateFrame(id)
  BY <1>1 DEF UpdateOvergrows
<1>3. Apart /\ barred' = barred
  BY DEF Relay, Apart
<1>4. ASSUME NEW i \in Ids
      PROVE  /\ Moves2(sessions[i[1]], At(i), after[i], document, {}, Fit(i[1]), Own(i[1]))
             /\ Guarded(after[i], barred')
  <2>1. /\ At(i) \in Connections(Fit(i[1]), Own(i[1])) /\ ConnectionInd(At(i), document, sessions[i[1]].doc)
        /\ Guarded(At(i), barred) /\ Owned(barred)
    BY RelayFacts
  <2>2. PICK s : s = At(i)
    OBVIOUS
  <2>3. PICK k : k = sessions[i[1]]
    OBVIOUS
  <2>4. CASE i = id
    <3>1. s.up # <<>> /\ Head(s.up).type = "update" /\ s.busy \in {"idle", "checking"}
      BY <1>2, <2>1, <2>2, <2>4, UpdateFrameFacts
    <3>2. PICK r : r = FailCircuit(Gone(Handled(s)), "CIRCUIT_TOO_LARGE")
      OBVIOUS
    <3>3. Moves2(k, s, r, document, {}, Fit(i[1]), Own(i[1])) /\ Guarded(r, barred)
      BY <2>1, <2>2, <2>3, <3>1, <3>2, OvergrowsKeeps, UpdatesGuard
    <3>4. after[i] = r
      BY <1>1, <2>2, <2>4, <3>2
    <3> QED BY <1>3, <2>2, <2>3, <3>3, <3>4
  <2>5. CASE i # id
    <3>1. Moves2(k, s, Gone(s), document, {}, Fit(i[1]), Own(i[1])) /\ Guarded(Gone(s), barred)
      BY <2>1, <2>2, <2>3, GoneKeeps, PartsGuard
    <3>2. after[i] = Gone(s)
      BY <1>1, <2>2, <2>5
    <3> QED BY <1>3, <2>2, <2>3, <3>1, <3>2
  <2> QED BY <2>4, <2>5
<1>5. {} \subseteq edited /\ \A w \in barred' : w[2] \notin {}
  OBVIOUS
<1> QED BY <1>2, <1>3, <1>4, <1>5, RelayStepKeeps

\* What it refuses, closes and cannot read.
LEMMA RelayFailsKeeps ==
  ASSUME IInv, RelayFails
  PROVE  IInv'
<1>1. Relay
  BY DEF RelayFails
<1>2. PICK id \in Ids :
         \/ AuthenticateFails(id) \/ JoinUnreadable(id)
         \/ \E code \in {"DATABASE_UNAVAILABLE", "CIRCUIT_TOO_LARGE"} : JoinRefused(id, code)
         \/ UpdateTooLarge(id) \/ UpdateOvergrows(id)
         \/ Overloaded(id) \/ Expires(id)
  BY DEF RelayFails
<1>3. PICK s : s = At(id)
  OBVIOUS
<1>4. PICK k : k = sessions[id[1]]
  OBVIOUS
<1>5. /\ s \in Connections(Fit(id[1]), Own(id[1])) /\ ConnectionInd(s, document, k.doc)
      /\ Owned(barred) /\ Guarded(s, barred)
  BY <1>3, <1>4, RelayFacts
<1>6. CASE UpdateOvergrows(id)
  BY <1>1, <1>6, OvergrowsStep
<1>7. CASE AuthenticateFails(id)
  <2>1. PICK t : t = Taken(s)
    OBVIOUS
  <2>2. s.up # <<>> /\ Head(s.up).type = "authenticate" /\ s.busy = "idle"
    BY <1>3, <1>7 DEF AuthenticateFails, Frame
  <2>3. PICK r : r = Alive(t, Say(t, [type |-> "error"]))
    OBVIOUS
  <2>4. PICK viewer : viewer = Head(s.up).viewer
    OBVIOUS
  <2>5. Keeps(k, s, r, document, Fit(id[1]), Own(id[1]))
    BY <1>5, <2>1, <2>2, <2>3, <2>4, AuthenticateKeeps
  <2>6. One(id, r)
    BY <1>3, <1>7, <2>1, <2>3 DEF AuthenticateFails
  <2>7. Guarded(r, barred)
    <3>1. s \in Connections(Fit(id[1]), {Anonymous, setting.people[id[1]]})
      BY <1>5 DEF Own
    <3> QED BY <1>5, <2>1, <2>2, <2>3, <2>4, <3>1, AuthenticateGuards
  <2> QED BY <1>1, <1>3, <1>4, <2>5, <2>6, <2>7, RelayOneStep
<1>8. CASE JoinUnreadable(id)
  <2>1. PICK t : t = Done(s)
    OBVIOUS
  <2>2. s.busy = "reading"
    BY <1>3, <1>8 DEF JoinUnreadable
  <2>3. PICK r : r = FailCircuit(t, "DATABASE_UNAVAILABLE")
    OBVIOUS
  <2>4. Keeps(k, s, r, document, Fit(id[1]), Own(id[1]))
    BY <1>5, <2>1, <2>2, <2>3, JoinUnreadableKeeps
  <2>5. One(id, r)
    BY <1>3, <1>8, <2>1, <2>3 DEF JoinUnreadable
  <2>6. Guarded(r, barred)
    <3>1. t \in Connections(Fit(id[1]), Own(id[1]))
      BY <1>5, <2>1 DEF Done, Connections, Access
    <3>2. Guarded(t, barred)
      BY <1>5, <2>1, PartsGuard
    <3> QED BY <1>5, <2>3, <3>1, <3>2, PartsGuard
  <2> QED BY <1>1, <1>3, <1>4, <2>4, <2>5, <2>6, RelayOneStep
<1>9. ASSUME NEW code \in {"DATABASE_UNAVAILABLE", "CIRCUIT_TOO_LARGE"}, JoinRefused(id, code)
      PROVE  IInv'
  <2>1. PICK t : t = [s EXCEPT !.busy = "idle", !.att = NotAttached]
    OBVIOUS
  <2>2. s.busy = "building"
    BY <1>3, <1>9 DEF JoinRefused
  <2>3. PICK r : r = FailCircuit(t, code)
    OBVIOUS
  <2>4. Keeps(k, s, r, document, Fit(id[1]), Own(id[1]))
    BY <1>5, <2>1, <2>3, JoinRefusedKeeps
  <2>5. One(id, r)
    BY <1>3, <1>9, <2>1, <2>3 DEF JoinRefused
  <2>6. Guarded(r, barred)
    BY <1>5, <2>1, <2>2, <2>3, JoinAttachesGuards
  <2> QED BY <1>1, <1>3, <1>4, <2>4, <2>5, <2>6, RelayOneStep
<1>10. CASE UpdateTooLarge(id)
  <2>1. s.up # <<>> /\ Head(s.up).type = "update" /\ s.busy \in {"idle", "checking"}
    BY <1>3, <1>5, <1>10, UpdateFrameFacts DEF UpdateTooLarge
  <2>2. PICK r : r = FailCircuit(Handled(s), "PAYLOAD_TOO_LARGE")
    OBVIOUS
  <2>3. Keeps(k, s, r, document, Fit(id[1]), Own(id[1]))
    BY <1>5, <2>1, <2>2, UpdateTooLargeKeeps
  <2>4. One(id, r)
    BY <1>3, <1>10, <2>2 DEF UpdateTooLarge
  <2>5. Guarded(r, barred)
    BY <1>5, <2>1, <2>2, UpdatesGuard
  <2> QED BY <1>1, <1>3, <1>4, <2>3, <2>4, <2>5, RelayOneStep
<1>11. CASE Overloaded(id)
  <2>1. PICK r : r = Shut(s)
    OBVIOUS
  <2>2. UpInd(s, k.doc)
    BY <1>5, ConnectionUps
  <2>3. Keeps(k, s, r, document, Fit(id[1]), Own(id[1]))
    BY <1>5, <2>1, <2>2, ShutIsKept
  <2>4. One(id, r)
    BY <1>3, <1>11, <2>1 DEF Overloaded
  <2>5. Guarded(r, barred)
    BY <1>5, <2>1, PartsGuard
  <2> QED BY <1>1, <1>3, <1>4, <2>3, <2>4, <2>5, RelayOneStep
<1>12. CASE Expires(id)
  <2>1. PICK r : r = [s EXCEPT !.expired = TRUE]
    OBVIOUS
  <2>2. Keeps(k, s, r, document, Fit(id[1]), Own(id[1]))
    BY <1>5, <2>1, ExpiresKeeps
  <2>3. One(id, r)
    BY <1>3, <1>12, <2>1 DEF Expires
  <2>4. Guarded(r, barred)
    BY <1>5, <2>1, PartsGuard
  <2> QED BY <1>1, <1>3, <1>4, <2>2, <2>3, <2>4, RelayOneStep
<1> QED BY <1>2, <1>6, <1>7, <1>8, <1>9, <1>10, <1>11, <1>12

\* The document is let go.
LEMMA DocumentDropsKeeps ==
  ASSUME IInv, DocumentDrops
  PROVE  IInv'
<1>1. PICK D \in {document, {}} : DocumentGone(D) /\ Relay
  BY DEF DocumentDrops
<1>2. PICK after : after = [i \in Ids |-> Gone(At(i))]
  OBVIOUS
<1>3. Become(after, D)
  BY <1>1, <1>2 DEF DocumentGone
<1>4. Apart /\ barred' = barred
  BY <1>1 DEF Relay, Apart
<1>5. ASSUME NEW i \in Ids
      PROVE  /\ Moves2(sessions[i[1]], At(i), after[i], document, D, Fit(i[1]), Own(i[1]))
             /\ Guarded(after[i], barred')
  <2>1. /\ At(i) \in Connections(Fit(i[1]), Own(i[1])) /\ ConnectionInd(At(i), document, sessions[i[1]].doc)
        /\ Guarded(At(i), barred) /\ Owned(barred)
    BY RelayFacts
  <2>2. Moves2(sessions[i[1]], At(i), Gone(At(i)), document, D, Fit(i[1]), Own(i[1]))
    BY <2>1, GoneKeeps
  <2>3. Guarded(Gone(At(i)), barred)
    BY <2>1, PartsGuard
  <2> QED BY <1>2, <1>4, <2>2, <2>3
<1>6. D \subseteq edited /\ \A w \in barred' : w[2] \notin D
  BY <1>1, <1>4 DEF IInv, Kinds, Allowed
<1> QED BY <1>3, <1>4, <1>5, <1>6, RelayStepKeeps

\* Whoever the circuit is given to, and whatever is counted, the browsers and the
\* relay go on as they were.
LEMMA NothingMoves ==
  ASSUME IInv, UNCHANGED <<connections, document, setting, sessions, edited>>, barred' \subseteq barred,
         (grants = [owner |-> grants.owner, public |-> grants.public])', (grants.owner \in Owners)',
         (\A w \in barred : w[1] # grants.owner)'
  PROVE  IInv'
<1>1. Viewers' = Viewers /\ Ids' = Ids
  BY DEF Viewers, Ids
<1>2. \A id : At(id)' = At(id)
  BY DEF At
<1>3. \A c \in Clients : Fit(c) \subseteq Fit(c)' /\ Own(c)' = Own(c)
  BY FitStays
<1>4. \A E, G, V : E \subseteq G => Sessions(E, V) \subseteq Sessions(G, V) /\ Connections(E, V) \subseteq Connections(G, V)
  BY MoreEdits
<1>5. Kinds'
  <2>1. \A c \in Clients : (sessions[c] \in Sessions(Fit(c), Own(c)))'
    BY <1>3, <1>4 DEF IInv, Kinds
  <2>2. ASSUME NEW id \in Ids PROVE At(id)' \in Connections(Fit(id[1])', Own(id[1])')
    <3>1. id[1] \in Clients /\ At(id) \in Connections(Fit(id[1]), Own(id[1]))
      BY RelayFacts
    <3>2. Fit(id[1]) \subseteq Fit(id[1])' /\ Own(id[1])' = Own(id[1])
      BY <1>3, <3>1
    <3> QED BY <1>2, <1>4, <3>1, <3>2
  <2>3. \A id \in Ids' : (At(id) \in Connections(Fit(id[1]), Own(id[1])))'
    BY <1>1, <2>2
  <2>4. (document \subseteq edited)' /\ (sessions \in [Clients -> Sessions(edited, Viewers)])'
        /\ (connections \in [Clients -> Seq(Connections(edited, Viewers))])'
    BY <1>1 DEF IInv, Kinds
  <2> QED BY <2>1, <2>3, <2>4 DEF Kinds
<1>6. \A c \in Clients : Current(c)' = Current(c)
  BY DEF Current
<1>7. \A c \in Clients : At(Current(c))' = At(Current(c))
  BY <1>6 DEF At
<1>8. \A c \in Clients : Linked(c)'
  BY <1>6, <1>7 DEF IInv, Linked
<1>9. \A id \in Ids' : (ConnectionInd(At(id), document, sessions[id[1]].doc))'
  BY <1>1, <1>2 DEF IInv
<1>10. Allowed'
  <2>1. ASSUME NEW id \in Ids PROVE Guarded(At(id)', barred')
    <3>1. Guarded(At(id), barred)
      BY RelayFacts
    <3> QED BY <1>2, <3>1, FewerGuard
  <2>2. \A id \in Ids' : (Guarded(At(id), barred))'
    BY <1>1, <2>1
  <2>3. (\A w \in barred : w[2] \in edited \ document)'
    BY DEF IInv, Allowed
  <2> QED BY <2>2, <2>3 DEF Allowed
<1>11. \A c \in Clients : ClientInd(sessions[c])'
  BY DEF IInv
<1> QED BY <1>5, <1>8, <1>9, <1>10, <1>11 DEF IInv

------------------------------------------------------------------------------
(* The whole: what a browser does. *)

\* A step that leaves every connection as it is lets every browser keep them.
LEMMA NothingBecomes ==
  ASSUME NEW T, connections \in [Clients -> Seq(T)], UNCHANGED relayVars, NEW after, after = [i \in Ids |-> At(i)]
  PROVE  Become(after, document)
<1>1. ASSUME NEW c \in Clients PROVE connections[c] = [n \in DOMAIN connections[c] |-> after[<<c, n>>]]
  <2>1. PICK q \in Seq(T) : q = connections[c]
    OBVIOUS
  <2>2. q = [n \in DOMAIN q |-> q[n]]
    BY LenProperties
  <2>3. \A n \in DOMAIN q : <<c, n>> \in Ids /\ after[<<c, n>>] = q[n]
    BY <2>1, IdFacts DEF At
  <2> QED BY <2>1, <2>2, <2>3
<1>2. connections = [c \in Clients |-> connections[c]]
  OBVIOUS
<1>3. connections' = [c \in Clients |-> [n \in DOMAIN connections[c] |-> after[<<c, n>>]]]
  BY <1>1, <1>2 DEF relayVars
<1> QED BY <1>3 DEF Become, relayVars

\* A browser that holds more holds whatever it sent.
LEMMA HoldsMore ==
  ASSUME NEW s, NEW D, NEW doc, NEW more, ConnectionInd(s, D, doc), doc \subseteq more
  PROVE  ConnectionInd(s, D, more)
  BY DEF ConnectionInd

\* What the connection of a session r becomes.
Wire(r, s) == IF r.socket = "none" THEN [Put(s, r) EXCEPT !.down = <<>>] ELSE Put(s, r)

\* What a browser puts on the wire is behind the frame that waits for its answer.
LEMMA WireGuards ==
  ASSUME NEW E, NEW V, NEW s \in Connections(E, V), NEW r \in Sessions(E, V), NEW B, Guarded(s, B)
  PROVE  Guarded(Wire(r, s), B)
<1>1. PICK v \in Seq(Ups(E, V)), w \in Seq(Ups(E, V)) : v = s.up /\ w = r.out
  BY DEF Connections, Sessions
<1>2. PICK u : u = v \o w
  OBVIOUS
<1>3. u \in Seq(Ups(E, V))
  BY <1>2, ConcatFacts
<1>4. v # <<>> => u # <<>> /\ Head(u) = Head(v)
  <2>1. SUFFICES ASSUME v # <<>> PROVE u # <<>> /\ Head(u) = Head(v)
    OBVIOUS
  <2>2. 1 \in DOMAIN v /\ Head(v) = v[1]
    BY <2>1, TailFacts, SMT
  <2>3. 1 \in DOMAIN u /\ u[1] = v[1]
    BY <1>2, <2>2, ConcatFacts
  <2>4. u # <<>>
    BY <1>3, <2>3, EmptySeq, SMT
  <2>5. Head(u) = u[1]
    BY <1>3, <2>4, TailFacts
  <2> QED BY <2>2, <2>3, <2>4, <2>5
<1>5. PICK p : p = Put(s, r)
  OBVIOUS
<1>6. p \in Connections(E, V) /\ Guarded(p, B)
  <2>1. CASE s.open
    <3>1. p = [s EXCEPT !.up = u]
      BY <1>1, <1>2, <1>5, <2>1 DEF Put
    <3>2. /\ p \in Connections(E, V) /\ p.viewer = s.viewer /\ p.att = s.att /\ p.found = s.found
          /\ p.busy = s.busy /\ p.open = s.open /\ p.up = u
      BY <1>3, <3>1 DEF Connections
    <3> QED BY <1>1, <1>4, <3>2 DEF Guarded
  <2>2. CASE ~s.open
    BY <1>5, <2>2 DEF Put
  <2> QED BY <2>1, <2>2
<1>7. PICK q : q = [p EXCEPT !.down = <<>>]
  OBVIOUS
<1>8. Guarded(q, B)
  <2>1. /\ q.viewer = p.viewer /\ q.att = p.att /\ q.found = p.found
        /\ q.busy = p.busy /\ q.open = p.open /\ q.up = p.up
    BY <1>6, <1>7 DEF Connections
  <2> QED BY <1>6, <2>1 DEF Guarded
<1> QED BY <1>5, <1>6, <1>7, <1>8 DEF Wire

\* What is done lets everybody keep what fits them, and bars nothing that is in
\* the document or that somebody may still write.
Wider ==
  /\ setting' = setting /\ edited \subseteq edited'
  /\ \A b \in Clients : Fit(b) \subseteq Fit(b)'
  /\ \A w \in barred' : w[1] # grants.owner /\ w[2] \in edited' \ document
  /\ \A id \in Ids : Guarded(At(id), barred')

\* As does a step that does nothing of that.
LEMMA CalmFacts ==
  ASSUME IInv, UNCHANGED <<setting, edited, barred>>
  PROVE  Wider /\ \A c \in Clients : Fit(c)' = Fit(c)
<1>1. \A c \in Clients : Fit(c)' = Fit(c)
  BY FitStays
<1>2. \A id \in Ids : Guarded(At(id), barred')
  BY DEF IInv, Allowed
<1>3. \A w \in barred' : w[1] # grants.owner /\ w[2] \in edited' \ document
  BY DEF IInv, Allowed
<1> QED BY <1>1, <1>2, <1>3 DEF Wider

\* The step of one browser, and of the connection it reads from.
LEMMA ClientKeeps ==
  ASSUME IInv, Wider, NEW c \in Clients, NEW E, E = Fit(c)', NEW V, V = Own(c),
         NEW r, Acts(sessions[c], r, E, V), NEW s, Client(c, r, s),
         connections[c] # <<>> => /\ s \in Connections(E, V) /\ Guarded(s, barred')
                                  /\ ConnectionInd(s, document, sessions[c].doc),
         r.socket = "open" => connections[c] # <<>> /\ Link(r, Put(s, r), document)
  PROVE  IInv'
<1>1. PICK k : k = sessions[c]
  OBVIOUS
<1>2. PICK q : q = [r EXCEPT !.out = <<>>]
  OBVIOUS
<1>3. /\ q \in Sessions(E, V) /\ ClientInd(q) /\ q.doc = r.doc /\ q.socket = r.socket
      /\ \A u, D : Link(r, u, D) => Link(q, u, D)
  BY <1>2, SentFacts
<1>4. connections \in [Clients -> Seq(Connections(edited, Viewers))] /\ sessions \in [Clients -> Sessions(edited, Viewers)]
  BY DEF IInv, Kinds
<1>5. /\ \A b \in Clients : Sessions(Fit(b), Own(b)) \subseteq Sessions(Fit(b)', Own(b))
      /\ \A b \in Clients : Connections(Fit(b), Own(b)) \subseteq Connections(Fit(b)', Own(b))
  <2>1. \A F, G, W : F \subseteq G => Sessions(F, W) \subseteq Sessions(G, W) /\ Connections(F, W) \subseteq Connections(G, W)
    BY MoreEdits
  <2> QED BY <2>1 DEF Wider
<1>6. sessions' = [sessions EXCEPT ![c] = q] /\ setting' = setting
  BY <1>2 DEF Client
<1>7. PICK t : t = Wire(r, s)
  OBVIOUS
<1>8. connections[c] # <<>> => One(Current(c), t)
  BY <1>7 DEF Client, Wire, Put
<1>9. k.doc \subseteq r.doc /\ r \in Sessions(E, V)
  BY <1>1 DEF Acts
<1>10. connections[c] # <<>> => t \in Connections(E, V) /\ ConnectionInd(t, document, r.doc) /\ Guarded(t, barred')
  <2>1. SUFFICES ASSUME connections[c] # <<>>
                 PROVE  t \in Connections(E, V) /\ ConnectionInd(t, document, r.doc) /\ Guarded(t, barred')
    OBVIOUS
  <2>2. /\ s \in Connections(E, V) /\ ConnectionInd(s, document, k.doc) /\ Acts(k, r, E, V)
        /\ Guarded(s, barred')
    BY <1>1, <2>1
  <2>3. PICK u : u = Put(s, r)
    OBVIOUS
  <2>4. u \in Connections(E, V) /\ ConnectionInd(u, document, r.doc)
    BY <2>2, <2>3, PutFacts
  <2>5. PICK v : v = [u EXCEPT !.down = <<>>]
    OBVIOUS
  <2>6. v \in Connections(E, V) /\ ConnectionInd(v, document, r.doc)
    BY <2>4, <2>5, EmptiedFacts
  <2>7. Guarded(t, barred')
    <3>1. PICK B : B = barred'
      OBVIOUS
    <3>2. Guarded(t, B)
      BY <1>7, <1>9, <2>2, <3>1, WireGuards
    <3> QED BY <3>1, <3>2
  <2>8. t \in Connections(E, V) /\ ConnectionInd(t, document, r.doc)
    BY <1>7, <2>3, <2>4, <2>5, <2>6 DEF Wire
  <2> QED BY <2>7, <2>8
<1>11. PICK after : after = [i \in Ids |-> IF connections[c] # <<>> /\ i = Current(c) THEN t ELSE At(i)]
  OBVIOUS
<1>12. Become(after, document)
  <2>1. CASE connections[c] = <<>>
    <3>1. UNCHANGED relayVars
      BY <2>1 DEF Client
    <3>2. after = [i \in Ids |-> At(i)]
      BY <1>11, <2>1
    <3> QED BY <1>4, <3>1, <3>2, NothingBecomes
  <2>2. CASE connections[c] # <<>>
    <3>1. after = [i \in Ids |-> IF i = Current(c) THEN t ELSE At(i)]
      BY <1>11, <2>2
    <3> QED BY <1>8, <2>2, <3>1 DEF One
  <2> QED BY <2>1, <2>2
<1>13. document \subseteq edited' /\ sessions' = [b \in Clients |-> sessions'[b]]
  BY <1>4, <1>6 DEF IInv, Kinds, Wider
<1>14. ASSUME NEW b \in Clients
       PROVE  sessions'[b] \in Sessions(Fit(b)', Own(b)) /\ ClientInd(sessions'[b])
  <2>1. CASE b = c
    <3>1. sessions'[b] = q
      BY <1>4, <1>6, <2>1
    <3> QED BY <1>3, <2>1, <3>1
  <2>2. CASE b # c
    <3>1. sessions'[b] = sessions[b]
      BY <1>4, <1>6, <2>2
    <3>2. sessions[b] \in Sessions(Fit(b), Own(b)) /\ ClientInd(sessions[b])
      BY DEF IInv, Kinds
    <3> QED BY <1>5, <3>1, <3>2
  <2> QED BY <2>1, <2>2
<1>15. ASSUME NEW i \in Ids
       PROVE  /\ after[i] \in Connections(Fit(i[1])', Own(i[1]))
              /\ ConnectionInd(after[i], document, sessions'[i[1]].doc)
              /\ Guarded(after[i], barred')
  <2>1. /\ i[1] \in Clients /\ At(i) \in Connections(Fit(i[1]), Own(i[1]))
        /\ ConnectionInd(At(i), document, sessions[i[1]].doc)
    BY RelayFacts
  <2>2. sessions[i[1]].doc \subseteq sessions'[i[1]].doc
    BY <1>1, <1>3, <1>4, <1>6, <1>9, <2>1
  <2>3. ConnectionInd(At(i), document, sessions'[i[1]].doc)
    BY <2>1, <2>2, HoldsMore
  <2>4. CASE connections[c] # <<>> /\ i = Current(c)
    <3>1. after[i] = t /\ i[1] = c
      BY <1>11, <2>4 DEF Current
    <3>2. sessions'[c].doc = r.doc
      BY <1>3, <1>4, <1>6
    <3> QED BY <1>10, <2>4, <3>1, <3>2
  <2>5. CASE ~(connections[c] # <<>> /\ i = Current(c))
    <3>1. after[i] = At(i)
      BY <1>11, <2>5
    <3>2. Guarded(At(i), barred')
      BY DEF Wider
    <3> QED BY <1>5, <2>1, <2>3, <3>1, <3>2
  <2> QED BY <2>4, <2>5
<1>16. ASSUME NEW b \in Clients, sessions'[b].socket = "open"
       PROVE  connections[b] # <<>> /\ Link(sessions'[b], after[Current(b)], document)
  <2>1. CASE b = c
    <3>1. sessions'[b] = q
      BY <1>4, <1>6, <2>1
    <3>2. r.socket = "open"
      BY <1>3, <1>16, <3>1
    <3>3. connections[c] # <<>> /\ Link(r, Put(s, r), document) /\ t = Put(s, r)
      BY <1>7, <3>2 DEF Wire
    <3>4. Current(c) \in Ids
      BY <1>4, <3>3, CurrentFacts
    <3>5. after[Current(c)] = t
      BY <1>11, <3>3, <3>4
    <3> QED BY <1>3, <2>1, <3>1, <3>3, <3>5
  <2>2. CASE b # c
    <3>1. sessions'[b] = sessions[b]
      BY <1>4, <1>6, <2>2
    <3>2. connections[b] # <<>> /\ Link(sessions[b], At(Current(b)), document)
      BY <1>16, <3>1 DEF IInv, Linked
    <3>3. Current(b) \in Ids /\ (Current(b))[1] = b
      BY <1>4, <3>2, CurrentFacts
    <3>4. Current(b) # Current(c)
      BY <2>2 DEF Current
    <3>5. after[Current(b)] = At(Current(b))
      BY <1>11, <3>3, <3>4
    <3> QED BY <3>1, <3>2, <3>5
  <2> QED BY <2>1, <2>2
<1>17. /\ \A b \in Clients : Fit(b) \subseteq Fit(b)'
       /\ \A w \in barred' : w[1] # grants.owner /\ w[2] \in edited' \ document
  BY DEF Wider
<1> QED BY <1>6, <1>12, <1>13, <1>14, <1>15, <1>16, <1>17, StepKeeps

\* What the step of a browser starts from.
LEMMA BrowserFacts ==
  ASSUME IInv, NEW c \in Clients, NEW k, k = sessions[c], NEW s, s = At(Current(c))
  PROVE  /\ k \in Sessions(Fit(c), Own(c)) /\ k.out = <<>> /\ SessionInd(k)
         /\ connections[c] # <<>> => /\ s \in Connections(Fit(c), Own(c)) /\ ConnectionInd(s, document, k.doc)
                                     /\ Guarded(s, barred) /\ Current(c) \in Ids
         /\ k.socket = "open" => connections[c] # <<>> /\ Link(k, s, document)
         /\ Owned(barred)
<1>1. k \in Sessions(Fit(c), Own(c)) /\ connections \in [Clients -> Seq(Connections(edited, Viewers))]
  BY DEF IInv, Kinds
<1>2. k.out = <<>> /\ SessionInd(k)
  BY DEF IInv, ClientInd
<1>3. connections[c] # <<>> => Current(c) \in Ids /\ (Current(c))[1] = c
  BY <1>1, CurrentFacts
<1>4. connections[c] # <<>> => /\ s \in Connections(Fit(c), Own(c)) /\ ConnectionInd(s, document, k.doc)
                              /\ Guarded(s, barred)
  BY <1>3, RelayFacts
<1>5. k.socket = "open" => connections[c] # <<>> /\ Link(k, s, document)
  BY DEF IInv, Linked
<1>6. Owned(barred)
  BY OthersAreNotOwners DEF IInv
<1> QED BY <1>1, <1>2, <1>3, <1>4, <1>5, <1>6

\* A browser works on.
LEMMA StaysStep ==
  ASSUME IInv, Wider, NEW c \in Clients, NEW E, E = Fit(c)', NEW V, V = Own(c),
         NEW r, Stays(sessions[c], r, E, V), Client(c, r, At(Current(c)))
  PROVE  IInv'
<1>1. PICK k : k = sessions[c]
  OBVIOUS
<1>2. PICK s : s = At(Current(c))
  OBVIOUS
<1>3. /\ connections[c] # <<>> => /\ s \in Connections(Fit(c), Own(c)) /\ ConnectionInd(s, document, k.doc)
                                  /\ Current(c) \in Ids
      /\ k.socket = "open" => connections[c] # <<>> /\ Link(k, s, document)
  BY <1>1, <1>2, BrowserFacts
<1>4. Connections(Fit(c), Own(c)) \subseteq Connections(E, V)
  <2>1. PICK F : F = Fit(c)
    OBVIOUS
  <2>2. F \subseteq E
    BY <2>1 DEF Wider
  <2> QED BY <2>1, <2>2, MoreEdits
<1>5. connections[c] # <<>> => /\ s \in Connections(E, V) /\ ConnectionInd(s, document, k.doc)
                              /\ Guarded(s, barred')
  BY <1>2, <1>3, <1>4 DEF Wider
<1>6. r.socket = "open" => connections[c] # <<>> /\ Link(r, Put(s, r), document)
  <2>1. SUFFICES ASSUME r.socket = "open" PROVE connections[c] # <<>> /\ Link(r, Put(s, r), document)
    OBVIOUS
  <2>2. k.socket = "open" /\ Stays(k, r, E, V)
    BY <1>1, <2>1 DEF Stays
  <2> QED BY <1>3, <1>5, <2>1, <2>2, StaysKeeps
<1>7. Acts(k, r, E, V)
  BY <1>1 DEF Stays
<1> QED BY <1>1, <1>2, <1>5, <1>6, <1>7, ClientKeeps

\* A browser gives its connection up.
LEMMA PartsStep ==
  ASSUME IInv, NEW c \in Clients, UNCHANGED <<edited, barred>>,
         NEW r, Acts(sessions[c], r, Fit(c), Own(c)), r.socket # "open",
         NEW s, s \in {At(Current(c)), Close(At(Current(c)))}, Client(c, r, s)
  PROVE  IInv'
<1>1. PICK k : k = sessions[c]
  OBVIOUS
<1>2. PICK p : p = At(Current(c))
  OBVIOUS
<1>3. /\ connections[c] # <<>> => /\ p \in Connections(Fit(c), Own(c)) /\ ConnectionInd(p, document, k.doc)
                                  /\ Guarded(p, barred)
      /\ Owned(barred)
  BY <1>1, <1>2, BrowserFacts
<1>4. connections[c] # <<>> => /\ s \in Connections(Fit(c), Own(c)) /\ ConnectionInd(s, document, k.doc)
                              /\ Guarded(s, barred)
  <2>1. CASE s = p
    BY <1>3, <2>1
  <2>2. CASE s = Close(p)
    <3>1. connections[c] # <<>> => p \in Connections(Fit(c), Own(c)) /\ p.since \subseteq k.doc
      BY <1>3 DEF ConnectionInd
    <3>2. connections[c] # <<>> => Guarded(Close(p), barred)
      BY <1>3, PartsGuard
    <3> QED BY <2>2, <3>1, <3>2, CloseKeeps
  <2> QED BY <1>2, <2>1, <2>2
<1>5. Wider /\ Fit(c)' = Fit(c) /\ barred' = barred
  BY CalmFacts DEF Client
<1>6. PICK E, V : E = Fit(c) /\ V = Own(c)
  OBVIOUS
<1>7. E = Fit(c)' /\ Acts(sessions[c], r, E, V)
  BY <1>5, <1>6
<1>8. connections[c] # <<>> => /\ s \in Connections(E, V) /\ Guarded(s, barred')
                              /\ ConnectionInd(s, document, sessions[c].doc)
  BY <1>1, <1>4, <1>5, <1>6
<1> QED BY <1>5, <1>6, <1>7, <1>8, ClientKeeps

\* A frame is read that is not a close.
LEMMA TakesStep ==
  ASSUME IInv, NEW c \in Clients, UNCHANGED <<edited, barred>>, sessions[c].socket = "open",
         NEW s, s = At(Current(c)), s.down # <<>>, Head(s.down).type # "close",
         NEW fits \in BOOLEAN, NEW r, r = Handle(sessions[c], Head(s.down), fits),
         Client(c, r, [s EXCEPT !.down = Tail(@)])
  PROVE  IInv'
<1>1. PICK k : k = sessions[c]
  OBVIOUS
<1>2. PICK E, V : E = Fit(c) /\ V = Own(c)
  OBVIOUS
<1>3. /\ k \in Sessions(E, V) /\ k.out = <<>> /\ SessionInd(k) /\ k.socket = "open"
      /\ connections[c] # <<>> /\ s \in Connections(E, V) /\ ConnectionInd(s, document, k.doc)
      /\ Link(k, s, document) /\ Guarded(s, barred)
  BY <1>1, <1>2, BrowserFacts
<1>4. PICK e : e = [s EXCEPT !.down = Tail(@)]
  OBVIOUS
<1>5. e \in Connections(E, V) /\ ConnectionInd(e, document, k.doc) /\ Head(s.down) \in Downs(E, V)
  BY <1>3, <1>4, RestFacts
<1>6. PICK f : f = Head(s.down)
  OBVIOUS
<1>7. Takes(k, f, r, E, V)
  BY <1>1, <1>3, <1>5, <1>6, HandleFacts
<1>8. ASSUME r.socket = "open" PROVE Link(r, Put(e, r), document)
  <2>1. Takes(k, Head(s.down), r, E, V)
    BY <1>6, <1>7
  <2> QED BY <1>3, <1>4, <1>8, <2>1, TakesKeeps
<1>9. Acts(k, r, E, V)
  BY <1>7 DEF Takes
<1>10. Guarded(e, barred)
  <2>1. /\ e.viewer = s.viewer /\ e.att = s.att /\ e.found = s.found
        /\ e.busy = s.busy /\ e.open = s.open /\ e.up = s.up
    BY <1>3, <1>4 DEF Connections
  <2> QED BY <1>3, <2>1 DEF Guarded
<1>11. Wider /\ E = Fit(c)' /\ barred' = barred
  BY <1>2, CalmFacts DEF Client
<1>12. Guarded(e, barred')
  BY <1>10, <1>11
<1>13. Client(c, r, e) /\ ConnectionInd(e, document, sessions[c].doc) /\ Acts(sessions[c], r, E, V)
  BY <1>1, <1>4, <1>5, <1>9
<1> QED BY <1>2, <1>3, <1>5, <1>8, <1>11, <1>12, <1>13, ClientKeeps

\* A socket opens.
LEMMA SocketOpensKeeps ==
  ASSUME IInv, SocketOpens
  PROVE  IInv'
<1>1. PICK c \in Clients :
        /\ sessions[c].socket = "opening"
        /\ sessions' = [sessions EXCEPT ![c] = OnOpen(@)]
        /\ connections' = [connections EXCEPT ![c] = Append(@, Accepted)]
        /\ UNCHANGED <<document, grants, setting>> /\ Same
  BY DEF SocketOpens
<1>2. PICK k : k = sessions[c]
  OBVIOUS
<1>a. Wider /\ \A b \in Clients : Fit(b)' = Fit(b) /\ Own(b)' = Own(b)
  BY <1>1, CalmFacts DEF Same, Own
<1>b. PICK E, V : E = Fit(c) /\ V = Own(c)
  OBVIOUS
<1>3. k \in Sessions(E, V) /\ k.out = <<>> /\ SessionInd(k) /\ k.socket = "opening"
  BY <1>1, <1>2, <1>b, BrowserFacts
<1>4. PICK r : r = OnOpen(k)
  OBVIOUS
<1>5. /\ r \in Sessions(E, V) /\ SessionInd(r) /\ r.out = <<>> /\ r.doc = k.doc /\ r.socket = "open"
      /\ r.asking /\ ~r.joined /\ ~r.joinRequested
  BY <1>3, <1>4, OpenFacts DEF Acts
<1>6. Anonymous \in V /\ E \subseteq edited /\ V \subseteq Viewers
  BY <1>b, FitFacts
<1>7. /\ Accepted \in Connections(E, V) /\ ConnectionInd(Accepted, document, r.doc)
      /\ Link(r, Accepted, document) /\ Guarded(Accepted, barred')
  <2>1. PICK B : B = barred'
    OBVIOUS
  <2> QED BY <1>5, <1>6, <2>1, AcceptedFacts
<1>c. r \in Sessions(edited, Viewers) /\ Accepted \in Connections(edited, Viewers)
  BY <1>5, <1>6, <1>7, MoreEdits
<1>8. PICK q \in Seq(Connections(edited, Viewers)) : q = connections[c]
  BY DEF IInv, Kinds
<1>9. PICK p : p = Append(q, Accepted)
  OBVIOUS
<1>10. /\ p \in Seq(Connections(edited, Viewers)) /\ Len(p) = Len(q) + 1 /\ DOMAIN p = 1 .. Len(q) + 1
       /\ Len(q) \in Nat /\ DOMAIN q = 1 .. Len(q)
       /\ \A i \in DOMAIN q : p[i] = q[i]
       /\ p[Len(q) + 1] = Accepted
       /\ \A i \in DOMAIN p : i \in DOMAIN q \/ i = Len(q) + 1
       /\ p # <<>>
  BY <1>c, <1>9, AppendFacts
<1>11. /\ connections \in [Clients -> Seq(Connections(edited, Viewers))]
       /\ sessions \in [Clients -> Sessions(edited, Viewers)]
       /\ connections' = [connections EXCEPT ![c] = p] /\ sessions' = [sessions EXCEPT ![c] = r]
       /\ edited' = edited /\ document' = document /\ Viewers' = Viewers /\ grants' = grants /\ barred' = barred
  BY <1>1, <1>2, <1>4, <1>8, <1>9 DEF IInv, Kinds, Same, Viewers
<1>12. \A b \in Clients : ClientInd(sessions[b])'
  BY <1>5, <1>11 DEF IInv, ClientInd
<1>13. ASSUME NEW id \in Ids'
       PROVE  /\ At(id)' \in Connections(Fit(id[1]), Own(id[1])) /\ id[1] \in Clients
              /\ (ConnectionInd(At(id), document, sessions[id[1]].doc))'
              /\ Guarded(At(id)', barred')
  <2>1. PICK b \in Clients : \E n \in DOMAIN connections'[b] : id = <<b, n>>
    BY DEF Ids
  <2> PICK n \in DOMAIN connections'[b] : id = <<b, n>>
    BY <2>1
  <2>2. At(id)' = connections'[b][n] /\ id[1] = b
    BY DEF At
  <2>3. CASE b = c
    <3>1. connections'[b] = p /\ sessions'[b].doc = k.doc
      BY <1>5, <1>11, <2>3
    <3>2. CASE n \in DOMAIN q
      <4>1. id \in Ids /\ At(id) = q[n] /\ At(id)' = q[n]
        BY <1>8, <1>10, <2>2, <2>3, <3>1, <3>2, IdFacts DEF At
      <4>2. /\ ConnectionInd(At(id), document, k.doc) /\ Guarded(At(id), barred')
            /\ At(id) \in Connections(Fit(id[1]), Own(id[1]))
        BY <1>2, <1>11, <2>2, <2>3, <4>1, RelayFacts
      <4> QED BY <1>11, <2>2, <3>1, <4>1, <4>2
    <3>3. CASE n = Len(q) + 1
      <4>1. At(id)' = Accepted
        BY <1>10, <2>2, <3>1, <3>3
      <4> QED BY <1>5, <1>7, <1>11, <1>b, <2>2, <2>3, <3>1, <4>1
    <3> QED BY <1>10, <3>1, <3>2, <3>3
  <2>4. CASE b # c
    <3>1. connections'[b] = connections[b] /\ sessions'[b] = sessions[b]
      BY <1>11, <2>4
    <3>2. id \in Ids /\ At(id) = At(id)'
      BY <2>2, <3>1, IdFacts DEF At
    <3>3. /\ ConnectionInd(At(id), document, sessions[b].doc) /\ Guarded(At(id), barred)
          /\ At(id) \in Connections(Fit(id[1]), Own(id[1]))
      BY <2>2, <3>2, RelayFacts
    <3> QED BY <1>11, <2>2, <3>1, <3>2, <3>3
  <2> QED BY <2>3, <2>4
<1>14. Kinds'
  <2>1. (document \subseteq edited)' /\ (sessions \in [Clients -> Sessions(edited, Viewers)])'
        /\ (connections \in [Clients -> Seq(Connections(edited, Viewers))])'
    BY <1>c, <1>10, <1>11 DEF IInv, Kinds
  <2>2. ASSUME NEW b \in Clients PROVE (sessions[b] \in Sessions(Fit(b), Own(b)))'
    <3>1. sessions[b] \in Sessions(Fit(b), Own(b))
      BY DEF IInv, Kinds
    <3> QED BY <1>5, <1>11, <1>a, <1>b, <3>1
  <2>3. \A id \in Ids' : (At(id) \in Connections(Fit(id[1]), Own(id[1])))'
    BY <1>13, <1>a
  <2> QED BY <2>1, <2>2, <2>3 DEF Kinds
<1>15. ASSUME NEW b \in Clients PROVE Linked(b)'
  <2>1. CASE b = c
    <3>1. connections'[c] = p /\ sessions'[c] = r
      BY <1>11
    <3>2. Current(c)' = <<c, Len(q) + 1>>
      BY <1>10, <3>1 DEF Current
    <3>3. At(Current(c))' = Accepted
      BY <1>10, <3>1, <3>2 DEF At
    <3> QED BY <1>7, <1>10, <1>11, <2>1, <3>1, <3>3 DEF Linked
  <2>2. CASE b # c
    <3>1. connections'[b] = connections[b] /\ sessions'[b] = sessions[b]
      BY <1>11, <2>2
    <3>2. Current(b)' = Current(b) /\ At(Current(b))' = At(Current(b))
      BY <3>1 DEF Current, At
    <3> QED BY <1>11, <3>1, <3>2 DEF IInv, Linked
  <2> QED BY <2>1, <2>2
<1>16. Allowed'
  <2>1. \A id \in Ids' : (Guarded(At(id), barred))'
    BY <1>13
  <2> QED BY <1>11, <2>1 DEF IInv, Allowed
<1>17. \A id \in Ids' : (ConnectionInd(At(id), document, sessions[id[1]].doc))'
  BY <1>13
<1> QED BY <1>12, <1>14, <1>15, <1>16, <1>17 DEF IInv

\* A token arrives, or is not to be had.
LEMMA TokenKeeps ==
  ASSUME IInv, NEW c \in Clients, sessions[c].asking, NEW token \in Own(c), UNCHANGED <<edited, barred>>,
         Client(c, OnToken(sessions[c], token), At(Current(c)))
  PROVE  IInv'
<1>1. PICK k : k = sessions[c]
  OBVIOUS
<1>2. PICK E, V : E = Fit(c) /\ V = Own(c)
  OBVIOUS
<1>3. k \in Sessions(E, V) /\ k.out = <<>> /\ SessionInd(k)
  BY <1>1, <1>2, BrowserFacts
<1>4. PICK r : r = OnToken(k, token)
  OBVIOUS
<1>5. Stays(k, r, E, V)
  BY <1>1, <1>2, <1>3, <1>4, TokenFacts
<1>6. Wider /\ E = Fit(c)'
  BY <1>2, CalmFacts DEF Client
<1> QED BY <1>1, <1>2, <1>4, <1>5, <1>6, StaysStep

\* A frame arrives.
LEMMA FrameArrivesKeeps ==
  ASSUME IInv, FrameArrives
  PROVE  IInv'
<1>1. PICK c \in Clients :
        /\ sessions[c].socket = "open" /\ At(Current(c)).down # <<>>
        /\ IF Head(At(Current(c)).down).type = "close" THEN Client(c, OnClose(sessions[c]), Close(At(Current(c))))
           ELSE Client(c, Handle(sessions[c], Head(At(Current(c)).down), TRUE),
                       [At(Current(c)) EXCEPT !.down = Tail(@)])
        /\ Same
  BY Zenon DEF FrameArrives
<1>2. PICK s : s = At(Current(c))
  OBVIOUS
<1>3. UNCHANGED <<edited, barred>>
  BY <1>1 DEF Same
<1>4. CASE Head(s.down).type = "close"
  <2>1. PICK k : k = sessions[c]
    OBVIOUS
  <2>2. k \in Sessions(Fit(c), Own(c)) /\ k.out = <<>> /\ SessionInd(k) /\ k.socket # "none"
    BY <1>1, <2>1, BrowserFacts
  <2>3. PICK r : r = OnClose(k)
    OBVIOUS
  <2>4. Acts(k, r, Fit(c), Own(c)) /\ r.socket # "open"
    BY <2>2, <2>3, CloseFacts DEF Parts
  <2>5. Client(c, r, Close(At(Current(c))))
    BY <1>1, <1>2, <1>4, <2>1, <2>3
  <2> QED BY <1>3, <2>1, <2>4, <2>5, PartsStep
<1>5. CASE Head(s.down).type # "close"
  <2>1. PICK r : r = Handle(sessions[c], Head(s.down), TRUE)
    OBVIOUS
  <2>2. Client(c, r, [s EXCEPT !.down = Tail(@)])
    BY <1>1, <1>2, <1>5, <2>1
  <2> QED BY <1>1, <1>2, <1>3, <1>5, <2>1, <2>2, TakesStep
<1> QED BY <1>4, <1>5

\* The reader edits: it fits them, and bars nobody who may still write.
LEMMA EditsAreWider ==
  ASSUME IInv, NEW c \in Clients, NEW edit, edit \notin edited, setting' = setting, edited' = edited \cup {edit},
         barred' = IF HasLost(setting.people[c]) THEN barred \cup {<<setting.people[c], edit>>} ELSE barred
  PROVE  Wider /\ edit \in Fit(c)'
<1>1. \A w \in barred : w[1] # grants.owner /\ w[2] \in edited \ document
  BY DEF IInv, Allowed
<1>2. document \subseteq edited
  BY DEF IInv, Kinds
<1>3. \A w \in barred' : \/ w \in barred
                         \/ HasLost(setting.people[c]) /\ w[1] = setting.people[c] /\ w[2] = edit
  OBVIOUS
<1>4. \A b \in Clients : Fit(b) \subseteq Fit(b)'
  BY <1>3 DEF Fit
<1>5. edit \in Fit(c)'
  BY <1>1, <1>3 DEF Fit
<1>6. \A w \in barred' : w[1] # grants.owner /\ w[2] \in edited' \ document
  BY <1>1, <1>2, <1>3 DEF HasLost
<1>7. ASSUME NEW id \in Ids PROVE Guarded(At(id), barred')
  <2>1. PICK s : s = At(id)
    OBVIOUS
  <2>2. s \in Connections(Fit(id[1]), Own(id[1])) /\ Guarded(s, barred)
    BY <2>1, RelayFacts
  <2>3. s.up # <<>> => edit \notin Upload(Head(s.up))
    <3>1. PICK E, V : E = Fit(id[1]) /\ V = Own(id[1])
      OBVIOUS
    <3>2. E \subseteq edited
      BY <3>1 DEF Fit
    <3>3. s.up \in Seq(Ups(E, V))
      BY <2>2, <3>1 DEF Connections
    <3>4. s.up # <<>> => Head(s.up) \in Ups(E, V)
      BY <3>3, TailFacts
    <3> QED BY <3>2, <3>4, UpFields
  <2>4. HasLost(setting.people[c]) /\ s.viewer = setting.people[c] =>
           ~(s.att.fresh /\ s.att.access = "write") /\ s.found # "write"
    BY <2>1 DEF HasLost
  <2>5. PICK B : B = barred'
    OBVIOUS
  <2>6. Guarded(s, B)
    <3>1. \A w \in B : s.viewer = w[1] => ~(s.att.fresh /\ s.att.access = "write") /\ s.found # "write"
      BY <1>3, <2>2, <2>4, <2>5 DEF Guarded
    <3>2. \A w \in B : s.open /\ s.busy = "checking" /\ s.found = "unknown" => w[2] \notin Upload(Head(s.up))
      BY <1>3, <2>2, <2>3, <2>5 DEF Guarded
    <3> QED BY <2>2, <3>1, <3>2 DEF Guarded
  <2> QED BY <2>1, <2>5, <2>6
<1>8. edited \subseteq edited'
  OBVIOUS
<1> QED BY <1>4, <1>5, <1>6, <1>7, <1>8 DEF Wider

\* A timer fires, or the reader edits.
LEMMA WorkKeeps ==
  ASSUME IInv, FlushFires \/ RejoinTimer \/ Edits
  PROVE  IInv'
<1>1. CASE FlushFires
  <2>1. PICK c \in Clients : Client(c, Flush(sessions[c]), At(Current(c))) /\ UNCHANGED <<edited, barred>>
    BY <1>1 DEF FlushFires, Same
  <2>2. PICK k, E, V : k = sessions[c] /\ E = Fit(c) /\ V = Own(c)
    OBVIOUS
  <2>3. k \in Sessions(E, V) /\ k.out = <<>> /\ SessionInd(k)
    BY <2>2, BrowserFacts
  <2>4. PICK r : r = Flush(k)
    OBVIOUS
  <2>5. Stays(k, r, E, V)
    BY <2>3, <2>4, FlushStays
  <2>6. Wider /\ E = Fit(c)'
    BY <2>1, <2>2, CalmFacts DEF Client
  <2> QED BY <2>1, <2>2, <2>4, <2>5, <2>6, StaysStep
<1>2. CASE RejoinTimer
  <2>1. PICK c \in Clients : /\ sessions[c].rejoin /\ Client(c, RejoinFires(sessions[c]), At(Current(c)))
                             /\ UNCHANGED <<edited, barred>>
    BY <1>2 DEF RejoinTimer, Same
  <2>2. PICK k, E, V : k = sessions[c] /\ E = Fit(c) /\ V = Own(c)
    OBVIOUS
  <2>3. k \in Sessions(E, V) /\ k.out = <<>> /\ SessionInd(k)
    BY <2>2, BrowserFacts
  <2>4. PICK r : r = RejoinFires(k)
    OBVIOUS
  <2>5. Stays(k, r, E, V)
    BY <2>1, <2>2, <2>3, <2>4, RejoinFiresFacts
  <2>6. Wider /\ E = Fit(c)'
    BY <2>1, <2>2, CalmFacts DEF Client
  <2> QED BY <2>1, <2>2, <2>4, <2>5, <2>6, StaysStep
<1>3. CASE Edits
  <2>1. PICK c \in Clients, edit \in setting.edits \ edited :
           /\ \E r \in OnLocalUpdate(sessions[c], edit) : Client(c, r, At(Current(c)))
           /\ edited' = edited \cup {edit}
           /\ barred' = IF HasLost(setting.people[c]) THEN barred \cup {<<setting.people[c], edit>>} ELSE barred
    BY <1>3 DEF Edits
  <2>2. PICK r \in OnLocalUpdate(sessions[c], edit) : Client(c, r, At(Current(c)))
    BY <2>1
  <2>3. Wider /\ edit \in Fit(c)'
    <3>1. setting' = setting
      BY <2>2 DEF Client
    <3> QED BY <2>1, <3>1, EditsAreWider
  <2>4. PICK k, F, E, V : k = sessions[c] /\ F = Fit(c) /\ E = Fit(c)' /\ V = Own(c)
    OBVIOUS
  <2>5. k \in Sessions(F, V) /\ k.out = <<>> /\ SessionInd(k)
    BY <2>4, BrowserFacts
  <2>6. F \subseteq E /\ edit \in E
    BY <2>3, <2>4 DEF Wider
  <2>7. k \in Sessions(E, V)
    BY <2>5, <2>6, MoreEdits
  <2>8. Stays(k, r, E, V)
    BY <2>2, <2>4, <2>5, <2>6, <2>7, EditStays
  <2> QED BY <2>2, <2>3, <2>4, <2>8, StaysStep
<1> QED BY <1>1, <1>2, <1>3

\* Another connection is asked for, one is lost, or a reader leaves.
LEMMA PartsKeeps ==
  ASSUME IInv, RetryFires \/ ConnectionDrops \/ ReaderStops
  PROVE  IInv'
<1>1. CASE RetryFires
  <2>1. PICK c \in Clients : /\ sessions[c].retry /\ Client(c, Connect(sessions[c]), At(Current(c)))
                             /\ UNCHANGED <<edited, barred>>
    BY <1>1 DEF RetryFires, Same
  <2>2. PICK k : k = sessions[c]
    OBVIOUS
  <2>3. k \in Sessions(Fit(c), Own(c)) /\ k.out = <<>> /\ SessionInd(k) /\ k.retry
    BY <2>1, <2>2, BrowserFacts
  <2>4. PICK r : r = Connect(k)
    OBVIOUS
  <2>5. Acts(k, r, Fit(c), Own(c)) /\ r.socket # "open"
    BY <2>3, <2>4, ConnectFacts DEF Parts
  <2> QED BY <2>1, <2>2, <2>4, <2>5, PartsStep
<1>2. CASE ConnectionDrops
  <2>1. PICK c \in Clients :
          \/ sessions[c].socket = "open" /\ Client(c, OnClose(sessions[c]), Close(At(Current(c))))
          \/ sessions[c].socket = "opening" /\ Client(c, OnClose(sessions[c]), At(Current(c)))
    BY <1>2 DEF ConnectionDrops
  <2>2. UNCHANGED <<edited, barred>>
    BY <1>2 DEF ConnectionDrops
  <2>3. PICK k : k = sessions[c]
    OBVIOUS
  <2>4. k \in Sessions(Fit(c), Own(c)) /\ k.out = <<>> /\ SessionInd(k) /\ k.socket # "none"
    BY <2>1, <2>3, BrowserFacts
  <2>5. PICK r : r = OnClose(k)
    OBVIOUS
  <2>6. Acts(k, r, Fit(c), Own(c)) /\ r.socket # "open"
    BY <2>4, <2>5, CloseFacts DEF Parts
  <2>7. Client(c, r, At(Current(c))) \/ Client(c, r, Close(At(Current(c))))
    BY <2>1, <2>3, <2>5
  <2> QED BY <2>2, <2>3, <2>6, <2>7, PartsStep
<1>3. CASE ReaderStops
  <2>1. PICK c \in Clients : ~sessions[c].finished /\ Client(c, Stop(sessions[c]), At(Current(c)))
    BY <1>3 DEF ReaderStops
  <2>2. UNCHANGED <<edited, barred>>
    BY <1>3 DEF ReaderStops
  <2>3. PICK k : k = sessions[c]
    OBVIOUS
  <2>4. k \in Sessions(Fit(c), Own(c)) /\ k.out = <<>> /\ k.pending \subseteq k.doc /\ ~k.finished
    BY <2>1, <2>3, BrowserFacts DEF SessionInd
  <2>5. PICK r : r = Stop(k)
    OBVIOUS
  <2>6. "gone" \in Reasons \cup {"unavailable"}
    BY DEF Reasons
  <2>7. Acts(k, r, Fit(c), Own(c)) /\ r.socket # "open"
    BY <2>4, <2>5, <2>6, EndFacts
  <2> QED BY <2>1, <2>2, <2>3, <2>5, <2>7, PartsStep
<1> QED BY <1>1, <1>2, <1>3

------------------------------------------------------------------------------
(* The theorems. *)

\* A session that has not begun, and one that never does.
LEMMA BeginFacts ==
  ASSUME NEW E, NEW V
  PROVE  /\ Connecting \in Sessions(E, V) /\ ClientInd(Connecting) /\ Connecting.socket = "opening"
         /\ Stop(Connecting) \in Sessions(E, V) /\ ClientInd(Stop(Connecting))
         /\ (Stop(Connecting)).socket = "none"
<1>1. PICK k : k = Connecting
  OBVIOUS
<1>2. <<>> \in Seq(Ups(E, V)) /\ 0 \in 0 .. MaxRejoins
  BY EmptySeq, RejoinsAssumption, SMT
<1>3. /\ k \in Sessions(E, V) /\ k.out = <<>> /\ k.pending = {} /\ k.doc = {} /\ k.status = "connecting"
      /\ ~k.finished /\ k.socket = "opening" /\ ~k.asking /\ ~k.rejoin /\ ~k.joined /\ ~k.flush
      /\ ~k.ready /\ ~k.joinRequested /\ ~k.retry
  BY <1>1, <1>2 DEF Connecting, Sessions, Access
<1>4. SessionInd(k)
  BY <1>3 DEF SessionInd
<1>5. k.pending \subseteq k.doc /\ "gone" \in Reasons \cup {"unavailable"}
  BY <1>3 DEF Reasons
<1>6. PICK r : r = Stop(k)
  OBVIOUS
<1>7. r \in Sessions(E, V) /\ SessionInd(r) /\ r.socket = "none"
  BY <1>3, <1>5, <1>6, EndFacts DEF Acts
<1>8. r.out = <<>>
  <2>1. PICK a : a = [k EXCEPT !.finished = TRUE]
    OBVIOUS
  <2>2. a.out = <<>> /\ ~a.joined /\ a.socket = "opening" /\ a.pending = {} /\ a \in Sessions(E, V)
    BY <1>3, <2>1 DEF Sessions
  <2>3. PICK b : b = [a EXCEPT !.flush = FALSE, !.pending = {}]
    OBVIOUS
  <2>4. b.out = <<>> /\ ~b.joined /\ b.socket = "opening" /\ b = Flush(a) /\ b \in Sessions(E, V)
    BY <2>2, <2>3 DEF Sessions, Flush
  <2>5. PICK l : l = [b EXCEPT !.joined = FALSE]
    OBVIOUS
  <2>6. l.out = <<>> /\ l.socket = "opening" /\ l = LeaveChannel(b) /\ l \in Sessions(E, V)
    BY <2>4, <2>5 DEF Sessions, LeaveChannel
  <2>7. PICK d : d = [l EXCEPT !.socket = "none", !.ready = FALSE, !.asking = FALSE,
                               !.retry = FALSE, !.rejoin = FALSE]
    OBVIOUS
  <2>8. d.out = <<>> /\ d = CloseSocket(l) /\ d \in Sessions(E, V)
    BY <2>6, <2>7 DEF Sessions, CloseSocket
  <2>9. r = [[d EXCEPT !.pending = {}, !.flush = FALSE, !.access = "none"] EXCEPT !.status = "off"]
    BY <1>3, <1>6, <2>1, <2>4, <2>6, <2>8 DEF Stop, Teardown
  <2> QED BY <2>8, <2>9 DEF Sessions
<1> QED BY <1>1, <1>3, <1>4, <1>6, <1>7, <1>8 DEF ClientInd

\* The invariant holds at the beginning.
LEMMA InitIsSound ==
  ASSUME Init
  PROVE  IInv
<1>1. /\ connections = [c \in Clients |-> <<>>] /\ document = {} /\ edited = {} /\ barred = {}
      /\ sessions = [c \in Clients |-> IF c \in DOMAIN setting.people THEN Connecting ELSE Stop(Connecting)]
  BY DEF Init, RelayInit
<1>2. <<>> \in Seq(Connections(edited, Viewers))
  BY EmptySeq
<1>3. ASSUME NEW c \in Clients
      PROVE  /\ sessions[c] \in Sessions(edited, Viewers) /\ ClientInd(sessions[c])
             /\ sessions[c] \in Sessions(Fit(c), Own(c)) /\ sessions[c].socket # "open"
  BY <1>1, BeginFacts
<1>4. Ids = {}
  BY <1>1 DEF Ids
<1>5. Kinds
  BY <1>1, <1>2, <1>3, <1>4 DEF Kinds
<1>6. Allowed
  <2>1. setting.owner \in Owners /\ grants = [owner |-> setting.owner, public |-> setting.public]
    BY OwnersAssumption DEF Init
  <2>2. grants = [owner |-> grants.owner, public |-> grants.public] /\ grants.owner \in Owners
    BY <2>1
  <2> QED BY <1>1, <1>4, <2>2 DEF Allowed
<1> QED BY <1>3, <1>4, <1>5, <1>6 DEF IInv, Linked

\* No step of the browsers or of the relay loses it.
LEMMA StepIsSound ==
  ASSUME IInv, [Next]_vars
  PROVE  IInv'
<1>1. CASE UNCHANGED vars
  <2>1. UNCHANGED <<connections, document, setting, sessions, edited>> /\ barred' \subseteq barred /\ grants' = grants
    BY <1>1 DEF vars, relayVars
  <2>2. /\ (grants = [owner |-> grants.owner, public |-> grants.public])' /\ (grants.owner \in Owners)'
        /\ (\A w \in barred : w[1] # grants.owner)'
    BY <2>1 DEF IInv, Allowed
  <2> QED BY <2>1, <2>2, NothingMoves
<1>2. CASE SocketOpens
  BY <1>2, SocketOpensKeeps
<1>3. CASE TokenArrives
  <2>1. PICK c \in Clients : /\ sessions[c].asking /\ UNCHANGED <<edited, barred>>
                             /\ Client(c, OnToken(sessions[c], setting.people[c]), At(Current(c)))
    BY <1>3 DEF TokenArrives, Same
  <2>2. setting.people[c] \in Own(c)
    BY DEF Own
  <2> QED BY <2>1, <2>2, TokenKeeps
<1>4. CASE TokenFails
  <2>1. PICK c \in Clients : sessions[c].asking /\ Client(c, OnToken(sessions[c], Anonymous), At(Current(c)))
    BY <1>4 DEF TokenFails
  <2>2. UNCHANGED <<edited, barred>>
    BY <1>4 DEF TokenFails
  <2>3. Anonymous \in Own(c)
    BY DEF Own
  <2> QED BY <2>1, <2>2, <2>3, TokenKeeps
<1>5. CASE FrameArrives
  BY <1>5, FrameArrivesKeeps
<1>6. CASE FlushFires \/ RejoinTimer \/ Edits
  BY <1>6, WorkKeeps
<1>7. CASE RetryFires \/ ConnectionDrops \/ ReaderStops
  BY <1>7, PartsKeeps
<1>8. CASE DeltaTooLarge
  <2>1. PICK c \in Clients :
           /\ sessions[c].socket = "open" /\ At(Current(c)).down # <<>> /\ Head(At(Current(c)).down).type = "joined"
           /\ Client(c, Handle(sessions[c], Head(At(Current(c)).down), FALSE),
                     [At(Current(c)) EXCEPT !.down = Tail(@)])
    BY <1>8, Zenon DEF DeltaTooLarge
  <2>2. UNCHANGED <<edited, barred>>
    BY <1>8 DEF DeltaTooLarge
  <2>3. PICK s : s = At(Current(c))
    OBVIOUS
  <2>4. PICK r : r = Handle(sessions[c], Head(s.down), FALSE)
    OBVIOUS
  <2>5. Client(c, r, [s EXCEPT !.down = Tail(@)]) /\ s.down # <<>> /\ Head(s.down).type # "close"
    BY <2>1, <2>3, <2>4
  <2> QED BY <2>1, <2>2, <2>3, <2>4, <2>5, TakesStep
<1>9. CASE RelayReads
  BY <1>9, RelayReadsKeeps
<1>10. CASE RelayDecides
  BY <1>10, RelayDecidesKeeps
<1>11. CASE RelayWrites
  BY <1>11, RelayWritesKeeps
<1>12. CASE RelayDelivers \/ RelaySweeps \/ Ages
  BY <1>12, RelayKeepsOn
<1>13. CASE RelayFails
  BY <1>13, RelayFailsKeeps
<1>14. CASE DocumentDrops
  BY <1>14, DocumentDropsKeeps
<1>15. CASE RechecksFail
  BY <1>15, RechecksFailKeeps
<1>16. CASE GrantsChange
  <2>1. UNCHANGED <<connections, document, setting, sessions, edited>>
    BY <1>16 DEF GrantsChange
  <2>2. PICK owner, public : grants = [owner |-> owner, public |-> public] /\ owner \in Owners
    BY DEF IInv, Allowed
  <2>3. \A w \in barred : w[1] # owner
    BY <2>2 DEF IInv, Allowed
  <2>4. CASE grants' = [grants EXCEPT !.public = ~@] /\ UNCHANGED barred
    <3>1. grants' = [owner |-> owner, public |-> ~public]
      BY <2>2, <2>4
    <3>2. barred' \subseteq barred /\ (\A w \in barred : w[1] # grants.owner)'
      BY <2>3, <2>4, <3>1
    <3>3. (grants = [owner |-> grants.owner, public |-> grants.public])' /\ (grants.owner \in Owners)'
      BY <2>2, <3>1
    <3> QED BY <2>1, <3>2, <3>3, NothingMoves
  <2>5. ASSUME NEW heir \in Owners, grants' = [grants EXCEPT !.owner = heir], barred' = {w \in barred : w[1] # heir}
        PROVE  IInv'
    <3>1. grants' = [owner |-> heir, public |-> public]
      BY <2>2, <2>5
    <3>2. barred' \subseteq barred /\ (\A w \in barred : w[1] # grants.owner)'
      BY <2>5, <3>1
    <3>3. (grants = [owner |-> grants.owner, public |-> grants.public])' /\ (grants.owner \in Owners)'
      BY <2>5, <3>1
    <3> QED BY <2>1, <3>2, <3>3, NothingMoves
  <2> QED BY <1>16, <2>4, <2>5 DEF GrantsChange
<1> QED BY <1>1, <1>2, <1>3, <1>4, <1>5, <1>6, <1>7, <1>8, <1>9, <1>10, <1>11, <1>12, <1>13, <1>14, <1>15, <1>16
        DEF Next

\* So it always holds: the wire between a browser and the relay carries
\* whatever the two of them still have to learn of each other.
THEOREM WiresAreSound == Spec => []IInv
<1>1. Init => IInv
  BY InitIsSound
<1>2. IInv /\ [Next]_vars => IInv'
  BY StepIsSound
<1> QED BY <1>1, <1>2, PTL DEF Spec

\* The values are of their kinds, what accumulated is in the document of its
\* browser, an open socket has a connection, no queue outgrows its bound, and
\* no attachment outlives its socket: collabSession.ts and session.ts.
THEOREM SessionIsInvariant == Spec => []SessionInvariant
<1>1. ASSUME IInv PROVE SessionInvariant
  <2>1. document \subseteq edited /\ sessions \in [Clients -> Sessions(edited, Viewers)]
    BY <1>1 DEF IInv, Kinds
  <2>2. ASSUME NEW c \in Clients
        PROVE  /\ sessions[c].status \in {"connecting", "open", "reconnecting", "ended", "off"}
               /\ sessions[c].pending \subseteq sessions[c].doc /\ sessions[c].doc \subseteq edited
               /\ sessions[c].rejoins \in 0 .. MaxRejoins
               /\ sessions[c].socket = "open" => connections[c] # <<>>
    <3>1. SessionInd(sessions[c]) /\ Linked(c)
      BY <1>1 DEF IInv, ClientInd
    <3>2. sessions[c] \in Sessions(edited, Viewers)
      BY <2>1
    <3> QED BY <3>1, <3>2 DEF SessionInd, Sessions, Linked
  <2>3. \A id \in Ids : Len(At(id).att.queue) <= MaxPending /\ (At(id).att.peer => At(id).open)
    BY <1>1 DEF IInv, ConnectionInd
  <2> QED BY <2>1, <2>2, <2>3 DEF SessionInvariant, TypeOK, NobodyLingers
<1> QED BY <1>1, WiresAreSound, PTL

\* Nothing is found on an empty wire.
LEMMA NothingComes ==
  ASSUME NEW x, NEW i, NEW type
  PROVE  /\ ~EndsAfter(<<>>, i) /\ ~Comes(<<>>, x, i) /\ ~Waits(<<>>, x) /\ ~Goes(<<>>, x) /\ ~Denied(<<>>)
         /\ ~Asks(<<>>, type) /\ ~AnswerComes(<<>>) /\ ~JoinedComes(<<>>)
  BY DEF EndsAfter, Comes, Waits, Goes, Denied, Asks, AnswerComes, JoinedComes

\* A browser that is joined, with nothing on its way, is attached and holds what
\* the session holds; and a writer that says so has given it everything: the
\* exchange of state vectors in onJoined (collabSession.ts) and joinCircuit and
\* deliver (session.ts).
THEOREM JoinedHoldTheSession == Spec => []JoinedIsTogether
<1>1. ASSUME IInv PROVE JoinedIsTogether
  <2>1. SUFFICES ASSUME NEW c \in Clients, sessions[c].joined, Quiet(c)
                 PROVE  /\ At(Current(c)).att.peer
                        /\ document \subseteq sessions[c].doc
                        /\ sessions[c].access = "write" /\ sessions[c].reconciled =>
                              sessions[c].doc \subseteq document
    BY DEF JoinedIsTogether
  <2>2. PICK k : k = sessions[c]
    OBVIOUS
  <2>3. PICK s : s = At(Current(c))
    OBVIOUS
  <2>4. /\ k.socket = "open" /\ s.open /\ s.up = <<>> /\ s.down = <<>> /\ s.att.queue = <<>> /\ k.pending = {}
    BY <2>1, <2>2, <2>3 DEF Quiet
  <2>5. Live(k, s, document)
    BY <1>1, <2>2, <2>3, <2>4 DEF IInv, Linked, Link
  <2>6. ~EndsAfter(s.down, 0) /\ ~Denied(s.down)
    BY <2>4, NothingComes
  <2>7. s.att.peer
    BY <2>1, <2>2, <2>5, <2>6 DEF Live, PeerInd
  <2>8. ASSUME NEW x \in document PROVE x \in k.doc
    <3>1. Reaches(k.doc, s, x, 1)
      BY <2>1, <2>2, <2>5, <2>6, <2>8 DEF Live, CompleteInd
    <3> QED BY <2>4, <3>1, NothingComes DEF Reaches
  <2>9. ASSUME k.access = "write", k.reconciled, NEW x \in k.doc PROVE x \in document
    <3>1. x \in document \/ x \in k.pending \/ Goes(s.up, x)
      BY <2>1, <2>2, <2>5, <2>6, <2>9 DEF Live, GivenInd
    <3> QED BY <2>4, <3>1, NothingComes
  <2> QED BY <2>2, <2>3, <2>7, <2>8, <2>9
<1> QED BY <1>1, WiresAreSound, PTL

\* A browser that says it is connecting waits for something that is on its way:
\* the status of CollabSession, and the timers, the token and the frames it
\* waits for.
THEOREM StatusIsAlwaysTrue == Spec => []StatusIsTrue
<1>1. ASSUME IInv PROVE StatusIsTrue
  <2>1. SUFFICES ASSUME NEW c \in Clients, sessions[c].status \in {"connecting", "reconnecting"},
                        ~sessions[c].retry, ~sessions[c].rejoin, ~sessions[c].asking,
                        sessions[c].socket # "opening"
                 PROVE  sessions[c].socket = "open" /\ ~Quiet(c)
    BY DEF StatusIsTrue
  <2>2. PICK k : k = sessions[c]
    OBVIOUS
  <2>3. PICK s : s = At(Current(c))
    OBVIOUS
  <2>4. k \in Sessions(edited, Viewers) /\ SessionInd(k)
    BY <1>1, <2>2 DEF IInv, Kinds, ClientInd
  <2>5. k.socket = "open"
    BY <2>1, <2>2, <2>4 DEF SessionInd, Sessions
  <2>6. ASSUME Quiet(c) PROVE FALSE
    <3>1. s.open /\ s.up = <<>> /\ s.down = <<>> /\ s.busy = "idle"
      BY <2>3, <2>6 DEF Quiet
    <3>2. Live(k, s, document)
      BY <1>1, <2>2, <2>3, <2>5, <3>1 DEF IInv, Linked, Link
    <3>3. /\ ~EndsAfter(s.down, 0) /\ ~Asks(s.up, "authenticate") /\ ~AnswerComes(s.down) /\ ~JoinedComes(s.down)
          /\ ~Asks(s.up, "join")
      BY <3>1, NothingComes
    <3> QED BY <2>1, <2>2, <3>1, <3>2, <3>3 DEF Live, AnsweredInd, JoinOnItsWay
  <2> QED BY <2>2, <2>5, <2>6
<1> QED BY <1>1, WiresAreSound, PTL

------------------------------------------------------------------------------
(* Who writes. *)

\* What somebody did after they had lost the circuit stays out of the document,
\* over whatever connections and behind whatever re-checks it comes, until the
\* circuit is theirs again or a re-check of it goes unanswered: update() and
\* stillAttached() of apps/api/src/ws/session.ts.
THEOREM LostOwnersDoNotWrite == Spec => []LostMeansReadOnly
<1>1. IInv => LostMeansReadOnly
  BY DEF IInv, Allowed, LostMeansReadOnly
<1> QED BY <1>1, WiresAreSound, PTL
=============================================================================
