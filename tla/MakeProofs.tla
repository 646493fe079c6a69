----------------------------- MODULE MakeProofs -----------------------------
(***************************************************************************)
(* What the Make screen keeps up however its answers, folders and sessions *)
(* overlap, for any number of messages, conversations and accounts: whose  *)
(* conversations are listed, and what a request id stands for.  And what   *)
(* the dialog of a prompt shows, for any number of comments, likes,        *)
(* reports and calls under way.                                            *)
(***************************************************************************)
EXTENDS WebPageProofs, FiniteSetTheorems, WellFoundedInduction

----------------------------------------------------------------------------
(* Lists *)

(* A set of numbers has a smallest one.                                    *)
LEMMA FirstIsFirst ==
  ASSUME NEW S \in SUBSET Nat, S # {}
  PROVE  First(S) \in S /\ \A j \in S : First(S) <= j
<1> DEFINE Less == OpToRel(<, Nat)
<1>1. IsWellFoundedOn(Less, Nat)
  BY NatLessThanWellFounded, Zenon
<1>2. ASSUME NEW x \in Nat, NEW y \in Nat, x < y PROVE <<x, y>> \in Less
  BY <1>2 DEF OpToRel
<1> HIDE DEF Less
<1>3. PICK m \in S : \A t \in S : ~(<<t, m>> \in Less)
  BY <1>1, WFMin, Zenon
<1>4. ASSUME NEW t \in S PROVE m <= t
  <2>1. t \in Nat /\ m \in Nat /\ ~(<<t, m>> \in Less)
    BY <1>3
  <2>2. ~(t < m)
    BY <1>2, <2>1
  <2> QED
    BY <2>1, <2>2
<1>5. \E i \in S : \A j \in S : i <= j
  BY <1>4
<1> QED
  BY <1>5, Zenon DEF First

(* Among n positions, the one that k of those in S have reached is in S.   *)
LEMMA NthIsIn ==
  ASSUME NEW n \in Nat, NEW S \in SUBSET (1..n), NEW k \in 1..Cardinality(S)
  PROVE  Nth(S, k) \in S /\ Cardinality({j \in S : j <= Nth(S, k)}) = k
<1> DEFINE Upto(i) == {j \in S : j <= i}
           A == {i \in Nat : Cardinality(Upto(i)) >= k}
<1>0. IsFiniteSet(1..n)
  BY FS_Interval
<1>1. IsFiniteSet(S) /\ \A i \in Nat : Upto(i) \subseteq S
  BY <1>0, FS_Subset
<1>2. \A i \in Nat : IsFiniteSet(Upto(i)) /\ Cardinality(Upto(i)) \in Nat
  <2> TAKE i \in Nat
  <2>1. IsFiniteSet(Upto(i))
    BY <1>1, FS_Subset
  <2> QED
    BY <2>1, FS_CardinalityType
<1>3. k \in Nat /\ k >= 1 /\ Cardinality(S) \in Nat /\ k <= Cardinality(S)
  BY <1>1, FS_CardinalityType
<1>bounds. \A j \in S : j \in Nat /\ 1 <= j /\ j <= n
  OBVIOUS
<1>4. n \in A
  <2>1. Upto(n) = S
    BY <1>bounds, Zenon
  <2> QED
    BY <1>3, <2>1
<1>5. First(A) \in A /\ \A j \in A : First(A) <= j
  BY <1>4, FirstIsFirst
<1> DEFINE i == First(A)
<1> HIDE DEF i
<1>6. i \in Nat /\ Cardinality(Upto(i)) >= k /\ \A j \in Nat : Cardinality(Upto(j)) >= k => i <= j
  BY <1>5 DEF i
<1>7. i # 0
  <2>1. \A j \in S : ~(j <= 0)
    BY <1>bounds
  <2>2. Upto(0) = {}
    BY <2>1, Zenon
  <2>3. Cardinality({}) = 0
    BY FS_EmptySet
  <2>4. 0 \in Nat /\ (i = 0 => Cardinality(Upto(0)) >= k)
    BY <1>6
  <2> HIDE DEF Upto
  <2> QED
    BY <1>3, <2>2, <2>3, <2>4
<1>8. i - 1 \in Nat /\ Cardinality(Upto(i - 1)) < k
  <2>1. i - 1 \in Nat
    BY <1>6, <1>7
  <2>2. Cardinality(Upto(i - 1)) \in Nat /\ ~(Cardinality(Upto(i - 1)) >= k)
    <3> HIDE DEF Upto
    <3>1. Cardinality(Upto(i - 1)) \in Nat
      BY <1>2, <2>1
    <3>2. Cardinality(Upto(i - 1)) >= k => i <= i - 1
      BY <1>6, <2>1
    <3> QED
      BY <1>6, <3>1, <3>2
  <2> HIDE DEF Upto
  <2> QED
    BY <1>3, <2>1, <2>2
<1>9. i \in S
  <2>1. ASSUME i \notin S PROVE Upto(i) = Upto(i - 1)
    <3>1. \A j \in S : j <= i <=> j <= i - 1
      BY <1>6, <1>bounds, <2>1
    <3> QED
      BY <3>1, Zenon
  <2>2. Cardinality(Upto(i)) # Cardinality(Upto(i - 1))
    <3> HIDE DEF Upto
    <3> QED
      BY <1>2, <1>3, <1>6, <1>8
  <2> HIDE DEF Upto
  <2> QED
    BY <2>1, <2>2
<1>10. Cardinality(Upto(i)) = Cardinality(Upto(i - 1)) + 1
  <2>1. Upto(i) = Upto(i - 1) \cup {i} /\ i \notin Upto(i - 1)
    <3>1. \A j \in S : j <= i <=> j = i \/ j <= i - 1
      BY <1>6, <1>bounds
    <3>2. ~(i <= i - 1)
      BY <1>6
    <3> QED
      BY <1>9, <3>1, <3>2, Zenon
  <2>2. IsFiniteSet(Upto(i - 1))
    BY <1>2, <1>8
  <2> HIDE DEF Upto
  <2> QED
    BY <2>1, <2>2, FS_AddElement
<1>11. Cardinality(Upto(i)) = k
  <2> HIDE DEF Upto
  <2>1. Cardinality(Upto(i - 1)) \in Nat
    BY <1>2, <1>8
  <2> QED
    BY <1>3, <1>6, <1>8, <1>10, <2>1
<1>12. \E x \in S : Cardinality({j \in S : j <= x}) = k
  BY <1>9, <1>11
<1> QED
  BY <1>12, Zenon DEF Nth

(* What is kept of a list are elements of it, and nothing is kept only of  *)
(* no positions.                                                           *)
LEMMA KeepFacts ==
  ASSUME NEW E, NEW n \in Nat, NEW s, NEW S \in SUBSET (1..n), \A i \in S : s[i] \in E
  PROVE  Keep(s, S) \in Seq(E) /\ (Keep(s, S) # <<>> => Keep(s, S)[1] \in E)
<1>1. IsFiniteSet(1..n)
  BY FS_Interval
<1>2. IsFiniteSet(S)
  BY <1>1, FS_Subset
<1>3. Cardinality(S) \in Nat
  BY <1>2, FS_CardinalityType
<1>4. \A k \in 1..Cardinality(S) : Nth(S, k) \in S
  BY NthIsIn
<1>5. Keep(s, S) = [k \in 1..Cardinality(S) |-> s[Nth(S, k)]]
  BY DEF Keep
<1>6. Keep(s, S) \in [1..Cardinality(S) -> E]
  BY <1>4, <1>5, Zenon
<1>7. Keep(s, S) \in Seq(E)
  BY <1>3, <1>6
<1> QED
  BY <1>7

(* Pairs, for leaves that would not take them apart themselves.            *)
LEMMA Pairs ==
  ASSUME NEW A, NEW B
  PROVE  /\ \A e \in A \X B : e[1] \in A /\ e[2] \in B /\ e = <<e[1], e[2]>>
         /\ \A x \in A, y \in B : <<x, y>> \in A \X B
         /\ \A x, y : <<x, y>> \in A \X B => x \in A /\ y \in B
         /\ \A x, y : <<x, y>>[1] = x /\ <<x, y>>[2] = y
<1>1. \A e \in A \X B : e[1] \in A /\ e[2] \in B /\ e = <<e[1], e[2]>>
  OBVIOUS
<1>2. \A x \in A, y \in B : <<x, y>> \in A \X B
  OBVIOUS
<1>3. \A x, y : <<x, y>> \in A \X B => x \in A /\ y \in B
  OBVIOUS
<1>4. \A x, y : <<x, y>>[1] = x /\ <<x, y>>[2] = y
  OBVIOUS
<1> QED
  BY <1>1, <1>2, <1>3, <1>4

LEMMA MorePairs ==
  ASSUME NEW A, NEW B, NEW C, NEW D, A \subseteq C, B \subseteq D
  PROVE  A \X B \subseteq C \X D
  OBVIOUS

----------------------------------------------------------------------------
(* The screen's data *)

Phrases == Texts \cup {NoText}
Places == {"none", "local", "server"} \X Int
Modes == {"new", "saved", "follow-up", "note", "edit note"}

(* A message with a request id bears the prompt sent under it, or the id   *)
(* is one of those set apart.                                              *)
Message ==
  [by : {"user", "ai"}, key : Int, text : Texts, rid : Nat, sentText : Phrases, mode : Modes, target : Int]
Vouched(m, S) == m.rid # 0 => <<m.rid, SentAs(m)>> \in S \/ <<m.rid, NoText>> \in S
Messages(S) == {m \in Message : Vouched(m, S)}

Talks(L, V) == [id : Places, server : V, messages : L]
Pages(L, V) ==
  [open : Places, messages : L, recent : Seq(Talks(L, V)), draft : Phrases, transfer : Places,
   improved : Places \X V, status : {"idle", "checking", "connected", "fallback"}]

(* Lists that a page may be made of: with an empty one, with the one that  *)
(* begins with a prompt kept, and with every one whose marks changed.      *)
Stories(L) ==
  /\ L \subseteq Seq(Message) /\ <<>> \in L
  /\ \A n \in Int, text \in Texts : n <= 0 => <<Ask(n, text, 0, "follow-up")>> \in L
  /\ \A ms \in L : \A i \in DOMAIN ms, mode \in {"new", "follow-up"} :
       [ms EXCEPT ![i] = [ms[i] EXCEPT !.mode = mode]] \in L

Keeps(M) == [owner : Members, live : BOOLEAN, first : Int, messages : Seq(M)]

(* The numbers that conversations on the page may bear.                    *)
OwnedBy(tok) == {n \in DOMAIN threads : tok # 0 /\ threads[n].owner = Owner(tok)}
Reach == IF strayed THEN Places ELSE {None} \cup {Server(n) : n \in OwnedBy(token)}

Handlers(M) ==
  [kind : Improving \cup {"thread", "list", "recent", "delete", "hydrate"},
   of : Improving \cup {"recent"}, then : {"none", "conflict", "recover", "show"}, n : Nat, token : Nat,
   id : Places, to : Places, key : Int, text : Phrases, rid : Nat, saved : BOOLEAN, old : Seq(M)]
Prompted == Improving \cup {"thread", "list"}
HandlerOk(t, S, tok, k, astray) ==
  /\ t \in Handlers(Messages(S)) /\ t.token <= k
  /\ t.kind \in Prompted => t.text \in Texts /\ (t.rid # 0 => <<t.rid, t.text>> \in S)
  /\ t.kind = "thread" => OnServer(t.to)
  /\ astray \/ t.token = tok

ChoreFields == {"kind", "token", "target", "thread", "to", "made", "stored", "crossed",
                "holdsThread", "holdsFolder", "said"}
ChoreOk(c, S, k) ==
  ChoreFields \subseteq DOMAIN c /\ c.token \in 1..k /\ c.said \in Seq(Messages(S))

PageOk == page \in Pages(Seq(Messages(sent)), Reach)
ThreadsOk == threads \in Seq(Keeps(Messages(sent)))
TasksOk == \A t \in tasks : HandlerOk(t, sent, token, Len(owners), strayed)
ChoresOk == \A c \in chores : ChoreOk(c, sent, Len(owners))
SentOk == sent \subseteq (1..asked) \X Phrases /\ OneIdOnePrompt
MakeInv == PageOk /\ ThreadsOk /\ TasksOk /\ ChoresOk /\ SentOk

(* What the proofs take from the other screens' invariants.                *)
SessionOk ==
  /\ owners \in Seq(Members) /\ token \in 0..Len(owners) /\ asked \in Nat /\ request.version \in Nat
  /\ \A t \in tasks : t.kind \in {"thread", "list"} => t.then \in {"conflict", "recover", "show"}

----------------------------------------------------------------------------
(* What each operator of the page returns, whatever L the lists of         *)
(* messages are taken from and whatever numbers V a conversation may bear  *)

LEMMA PageFacts ==
  ASSUME NEW L, NEW V, NEW p \in Pages(L, V)
  PROVE  /\ p.open \in Places /\ p.messages \in L /\ p.recent \in Seq(Talks(L, V))
         /\ p.draft \in Phrases /\ p.transfer \in Places /\ p.improved \in Places \X V
         /\ \A i \in DOMAIN p.recent :
              /\ p.recent[i] \in Talks(L, V) /\ p.recent[i].id \in Places
              /\ p.recent[i].server \in V /\ p.recent[i].messages \in L
<1>1. p.recent \in Seq(Talks(L, V)) /\ p.messages \in L /\ p.open \in Places
      /\ p.draft \in Phrases /\ p.transfer \in Places /\ p.improved \in Places \X V
  BY DEF Pages
<1>2. \A i \in DOMAIN p.recent : p.recent[i] \in Talks(L, V)
  BY <1>1
<1>3. \A e \in Talks(L, V) : e.id \in Places /\ e.server \in V /\ e.messages \in L
  BY DEF Talks
<1> QED
  BY <1>1, <1>2, <1>3

LEMMA PageMessages ==
  ASSUME NEW M, NEW V, NEW p \in Pages(Seq(M), V)
  PROVE  \A i \in DOMAIN p.messages : p.messages[i] \in M
  BY PageFacts

(* Changes of one field.                                                   *)
LEMMA PageEdits ==
  ASSUME NEW L, NEW V, NEW p \in Pages(L, V)
  PROVE  /\ \A x \in Places : [p EXCEPT !.open = x] \in Pages(L, V) /\ [p EXCEPT !.transfer = x] \in Pages(L, V)
         /\ \A x \in L : [p EXCEPT !.messages = x] \in Pages(L, V)
         /\ \A x \in Phrases : [p EXCEPT !.draft = x] \in Pages(L, V)
         /\ \A x \in {"idle", "checking", "connected", "fallback"} : [p EXCEPT !.status = x] \in Pages(L, V)
         /\ \A x \in Places \X V : [p EXCEPT !.improved = x] \in Pages(L, V)
         /\ \A x \in Seq(Talks(L, V)) : [p EXCEPT !.recent = x] \in Pages(L, V)
  BY DEF Pages

LEMMA TalkFacts ==
  ASSUME NEW L, NEW V
  PROVE  /\ \A i \in Places, s \in V, ms \in L : [id |-> i, server |-> s, messages |-> ms] \in Talks(L, V)
         /\ \A e \in Talks(L, V) : /\ e.id \in Places /\ e.server \in V /\ e.messages \in L
                                   /\ \A s \in V : [e EXCEPT !.server = s] \in Talks(L, V)
                                   /\ \A ms \in L : [e EXCEPT !.messages = ms] \in Talks(L, V)
  BY DEF Talks

LEMMA FirstOf ==
  ASSUME NEW E, NEW s \in Seq(E), NEW S \in SUBSET (DOMAIN s), S # {}
  PROVE  First(S) \in S /\ First(S) \in DOMAIN s /\ s[First(S)] \in E
<1>1. S \subseteq Nat
  OBVIOUS
<1>2. First(S) \in S
  BY <1>1, FirstIsFirst
<1> QED
  BY <1>2

LEMMA KeptOf ==
  ASSUME NEW E, NEW s \in Seq(E), NEW S \in SUBSET (DOMAIN s)
  PROVE  Keep(s, S) \in Seq(E) /\ (Keep(s, S) # <<>> => Keep(s, S)[1] \in E)
<1>1. Len(s) \in Nat /\ DOMAIN s = 1..Len(s) /\ \A i \in S : s[i] \in E
  OBVIOUS
<1> QED
  BY <1>1, KeepFacts

LEMMA EntryIsTalk ==
  ASSUME NEW L, NEW V, NEW p \in Pages(L, V), NEW id, Known(p, id)
  PROVE  Entry(p, id) \in Talks(L, V)
<1>1. Called(p, id) \subseteq DOMAIN p.recent /\ Called(p, id) # {}
  BY DEF Known, Called
<1> QED
  BY <1>1, PageFacts, FirstOf DEF Entry

LEMMA BackendPlace ==
  ASSUME NEW L, NEW V, V \subseteq Places, NEW p \in Pages(L, V), NEW id \in Places
  PROVE  Backend(p, id) \in Places
<1>1. Known(p, id) => Entry(p, id).server \in V
  BY EntryIsTalk, TalkFacts
<1>2. None \in Places
  BY DEF None, Places
<1> QED
  BY <1>1, <1>2 DEF Backend

LEMMA BesidesTalks ==
  ASSUME NEW E, NEW s \in Seq(E), NEW id
  PROVE  Besides(s, id) \in Seq(E)
<1> DEFINE S == {i \in DOMAIN s : s[i].id # id}
<1>1. S \in SUBSET (DOMAIN s)
  OBVIOUS
<1>2. Keep(s, S) \in Seq(E)
  BY <1>1, KeptOf
<1> QED
  BY <1>2 DEF Besides

LEMMA UpdatedPage ==
  ASSUME NEW L, NEW V, None \in V, NEW p \in Pages(L, V), NEW id \in Places
  PROVE  Updated(p, id) \in Pages(L, V)
<1> DEFINE old == {i \in DOMAIN p.recent : p.recent[i].id = id}
           server == IF old = {} THEN None ELSE p.recent[First(old)].server
           top == [id |-> id, server |-> server, messages |-> p.messages]
<1>1. old # {} => p.recent[First(old)] \in Talks(L, V)
  BY PageFacts, FirstOf
<1>2. server \in V
  BY <1>1, TalkFacts
<1>3. top \in Talks(L, V)
  BY <1>2, PageFacts, TalkFacts
<1>4. Besides(p.recent, id) \in Seq(Talks(L, V))
  BY PageFacts, BesidesTalks
<1>5. Updated(p, id) = [p EXCEPT !.recent = <<top>> \o Besides(p.recent, id)]
  BY Zenon DEF Updated
<1> HIDE DEF top
<1>6. <<top>> \o Besides(p.recent, id) \in Seq(Talks(L, V))
  BY <1>3, <1>4
<1>7. \A x \in Seq(Talks(L, V)) : [p EXCEPT !.recent = x] \in Pages(L, V)
  BY PageEdits
<1> QED
  BY <1>5, <1>6, <1>7

LEMMA OpenedPage ==
  ASSUME NEW L, NEW V, NEW p \in Pages(L, V), NEW e \in Talks(L, V)
  PROVE  Opened(p, e) \in Pages(L, V)
<1>1. e.id \in Places /\ e.messages \in L
  BY TalkFacts
<1>2. [[p EXCEPT !.open = e.id] EXCEPT !.messages = e.messages] \in Pages(L, V)
  BY <1>1, PageEdits
<1> QED
  BY <1>2 DEF Opened

LEMMA AddedPage ==
  ASSUME NEW L, NEW V, NEW p \in Pages(L, V), NEW id \in Places, NEW m,
         Append(p.messages, m) \in L
  PROVE  Added(p, id, m) \in Pages(L, V)
<1>2. [[p EXCEPT !.open = id] EXCEPT !.messages = Append(p.messages, m)] \in Pages(L, V)
  BY PageEdits
<1>3. Added(p, id, m) = [[p EXCEPT !.open = id] EXCEPT !.messages = Append(p.messages, m)]
  BY DEF Added, Pages
<1> QED
  BY <1>2, <1>3

LEMMA SaidPage ==
  ASSUME NEW M, NEW V, NEW p \in Pages(Seq(M), V), NEW id \in Places, NEW m \in M
  PROVE  Added(p, id, m) \in Pages(Seq(M), V)
<1>1. Append(p.messages, m) \in Seq(M)
  BY PageFacts
<1> QED
  BY <1>1, AddedPage

LEMMA NumberedPage ==
  ASSUME NEW L, NEW V, NEW p \in Pages(L, V), NEW id, NEW server \in V
  PROVE  Numbered(p, id, server) \in Pages(L, V)
<1> DEFINE new(e) == IF e = Entry(p, id) THEN [e EXCEPT !.server = server] ELSE e
           list == [i \in DOMAIN p.recent |-> new(p.recent[i])]
<1>1. \A e \in Talks(L, V) : new(e) \in Talks(L, V)
  BY TalkFacts
<1> HIDE DEF new
<1>2. list \in Seq(Talks(L, V))
  BY <1>1, PageFacts
<1>3. Numbered(p, id, server) = [p EXCEPT !.recent = list]
  BY DEF Numbered, new
<1> HIDE DEF list
<1>4. \A x \in Seq(Talks(L, V)) : [p EXCEPT !.recent = x] \in Pages(L, V)
  BY PageEdits
<1> QED
  BY <1>2, <1>3, <1>4

LEMMA ImprovedPage ==
  ASSUME NEW L, NEW V, None \in V, NEW p \in Pages(L, V), NEW id \in Places, NEW server \in V
  PROVE  Improved(p, id, server) \in Pages(L, V) /\ Applied(p, id) \in Pages(L, V)
<1> DEFINE q == IF Known(p, id) THEN Numbered(p, id, server) ELSE p
           r == IF Known(p, id) THEN Numbered(p, id, p.improved[2]) ELSE p
<1>1. p.improved[2] \in V /\ <<None, None>> \in Places \X V /\ <<id, server>> \in Places \X V
  BY PageFacts DEF None, Places
<1>2. q \in Pages(L, V) /\ r \in Pages(L, V)
  BY <1>1, NumberedPage
<1>3. Improved(p, id, server) \in {p, [q EXCEPT !.improved = <<id, server>>]}
  BY Zenon DEF Improved
<1>4. Applied(p, id) \in {p, [r EXCEPT !.improved = <<None, None>>]}
  BY Zenon DEF Applied
<1> HIDE DEF q, r
<1>5. /\ [q EXCEPT !.improved = <<id, server>>] \in Pages(L, V)
      /\ [r EXCEPT !.improved = <<None, None>>] \in Pages(L, V)
  BY <1>1, <1>2, PageEdits, Zenon
<1> QED
  BY <1>3, <1>4, <1>5

(* The list of the server, or one conversation of it, on the page.         *)
LEMMA ListedPage ==
  ASSUME NEW L, Stories(L), NEW V, None \in V, NEW p \in Pages(L, V), NEW list \in Seq(Talks(L, V))
  PROVE  Listed(p, list) \in Pages(L, V)
<1> DEFINE lookup == IF Known(p, p.open) /\ Entry(p, p.open).server # None
                     THEN Entry(p, p.open).server ELSE p.open
           kept == Keep(p.recent, Guests(p))
           q == [p EXCEPT !.recent = kept \o list]
           none == [[q EXCEPT !.open = None] EXCEPT !.messages = <<>>]
<1>1. kept \in Seq(Talks(L, V)) /\ (kept # <<>> => kept[1] \in Talks(L, V))
  <2>1. Guests(p) \in SUBSET (DOMAIN p.recent)
    BY DEF Guests
  <2> QED
    BY <2>1, PageFacts, KeptOf
<1>3. \/ Listed(p, list) = q
      \/ Listed(p, list) = Opened(q, Entry(q, lookup)) /\ Known(q, lookup)
      \/ Listed(p, list) = Opened(q, kept[1]) /\ kept # <<>>
      \/ Listed(p, list) = [q EXCEPT !.open = None, !.messages = <<>>]
  BY Zenon DEF Listed
<1> HIDE DEF kept
<1>4. kept \o list \in Seq(Talks(L, V))
  BY <1>1
<1>5. \A x \in Seq(Talks(L, V)) : [p EXCEPT !.recent = x] \in Pages(L, V)
  BY PageEdits
<1>6. q \in Pages(L, V)
  BY <1>4, <1>5
<1> HIDE DEF q, lookup
<1>7. none \in Pages(L, V)
  <2>1. None \in Places /\ <<>> \in L
    BY DEF None, Places, Stories
  <2> QED
    BY <1>6, <2>1, PageEdits
<1>8. Known(q, lookup) => Opened(q, Entry(q, lookup)) \in Pages(L, V)
  BY <1>6, EntryIsTalk, OpenedPage
<1>9. kept # <<>> => Opened(q, kept[1]) \in Pages(L, V)
  BY <1>1, <1>6, OpenedPage
<1> QED
  BY <1>3, <1>6, <1>7, <1>8, <1>9

LEMMA ReadBackPage ==
  ASSUME NEW L, NEW V, NEW p \in Pages(L, V), NEW id, Fetched(id) \in Talks(L, V)
  PROVE  Refreshed(p, id) \in Pages(L, V)
<1> DEFINE rest == {i \in DOMAIN p.recent : id \notin {p.recent[i].id, p.recent[i].server}}
           list == <<Fetched(id)>> \o Keep(p.recent, rest)
<1>1. Keep(p.recent, rest) \in Seq(Talks(L, V))
  BY PageFacts, KeptOf
<1>2. Refreshed(p, id) = Opened([p EXCEPT !.recent = list], Fetched(id))
  BY Zenon DEF Refreshed
<1> HIDE DEF rest
<1>3. list \in Seq(Talks(L, V))
  BY <1>1
<1>4. \A x \in Seq(Talks(L, V)) : [p EXCEPT !.recent = x] \in Pages(L, V)
  BY PageEdits
<1> HIDE DEF list
<1> QED
  BY <1>2, <1>3, <1>4, OpenedPage

LEMMA BlankedPage ==
  ASSUME NEW L, Stories(L), NEW V, NEW p \in Pages(L, V)
  PROVE  BlankChat(p) \in Pages(L, V)
<1>1. None \in Places /\ <<>> \in L /\ NoText \in Phrases
  BY DEF None, Places, Phrases, Stories
<1>2. [[[p EXCEPT !.open = None] EXCEPT !.messages = <<>>] EXCEPT !.draft = NoText] \in Pages(L, V)
  BY <1>1, PageEdits
<1> QED
  BY <1>2 DEF BlankChat

LEMMA DeletedPage ==
  ASSUME NEW L, Stories(L), NEW V, NEW p \in Pages(L, V), NEW id
  PROVE  Deleted(p, id) \in Pages(L, V)
<1> DEFINE list == Besides(p.recent, id)
           transfer == IF p.transfer = id THEN None ELSE p.transfer
           q == [[p EXCEPT !.recent = list] EXCEPT !.transfer = transfer]
<1>1. list \in Seq(Talks(L, V)) /\ transfer \in Places
  BY PageFacts, BesidesTalks DEF None, Places
<1>2. \A x \in Seq(Talks(L, V)) : [p EXCEPT !.recent = x] \in Pages(L, V)
  BY PageEdits
<1>3. [p EXCEPT !.recent = Besides(@, id), !.transfer = IF @ = id THEN None ELSE @] = q
  OBVIOUS
<1>4. Deleted(p, id) \in {q, BlankChat(q)}
  BY <1>3, Zenon DEF Deleted, BlankChat
<1> HIDE DEF list, transfer
<1>5. q \in Pages(L, V)
  BY <1>1, <1>2, PageEdits
<1> QED
  BY <1>4, <1>5, BlankedPage

(* What a logout leaves bears no number, so it may stand on any page.      *)
LEMMA ClearedPage ==
  ASSUME NEW L, Stories(L), NEW V, NEW p \in Pages(L, V), NEW W, None \in W
  PROVE  Cleared(p) \in Pages(L, W)
<1> DEFINE local == {i \in DOMAIN p.recent : p.recent[i].server = None /\ ~OnServer(p.recent[i].id)}
           list == Keep(p.recent, local)
           q == [p EXCEPT !.recent = list, !.draft = NoText, !.improved = <<None, None>>,
                          !.transfer = None, !.status = "idle"]
           open == {i \in local : p.recent[i].id = p.open}
<1>1. local \in SUBSET (DOMAIN p.recent) /\ open \in SUBSET (DOMAIN p.recent)
      /\ open \in SUBSET local /\ \A i \in local : p.recent[i] \in Talks(L, W)
  <2>1. \A i \in local : p.recent[i] \in Talks(L, V) /\ p.recent[i].server = None
    BY PageFacts
  <2> QED
    BY <2>1 DEF Talks
<1>2. list \in Seq(Talks(L, W))
  <2>1. Len(p.recent) \in Nat /\ local \in SUBSET (1..Len(p.recent))
    BY PageFacts
  <2> QED
    BY <1>1, <2>1, KeepFacts
<1>3. open # {} => p.recent[First(open)] \in Talks(L, W)
  <2> HIDE DEF local, open
  <2>1. ASSUME open # {} PROVE First(open) \in open
    BY <1>1, <2>1, PageFacts, FirstOf
  <2> QED
    BY <1>1, <2>1
<1>4. Cleared(p) \in {Opened(q, p.recent[First(open)]), [q EXCEPT !.open = None, !.messages = <<>>]}
      /\ (open = {} => Cleared(p) = [q EXCEPT !.open = None, !.messages = <<>>])
  BY Zenon DEF Cleared
<1> HIDE DEF list, open
<1>5. q \in Pages(L, W)
  <2>1. \A x \in Seq(Talks(L, W)), y \in Places \X W :
          [p EXCEPT !.recent = x, !.improved = y] \in Pages(L, W)
    BY DEF Pages
  <2>2. None \in Places /\ <<None, None>> \in Places \X W /\ NoText \in Phrases
    BY DEF None, Places, Phrases
  <2> DEFINE r == [p EXCEPT !.recent = list, !.improved = <<None, None>>]
  <2>3. r \in Pages(L, W)
    BY <1>2, <2>1, <2>2
  <2>4. q = [[[r EXCEPT !.draft = NoText] EXCEPT !.transfer = None] EXCEPT !.status = "idle"]
    BY DEF Pages
  <2> HIDE DEF q, r
  <2>5. [[[r EXCEPT !.draft = NoText] EXCEPT !.transfer = None] EXCEPT !.status = "idle"] \in Pages(L, W)
    BY <2>2, <2>3, PageEdits
  <2> QED
    BY <2>4, <2>5
<1> HIDE DEF q
<1>6. [[q EXCEPT !.open = None] EXCEPT !.messages = <<>>] \in Pages(L, W)
  <2>1. None \in Places /\ <<>> \in L
    BY DEF None, Places, Stories
  <2> QED
    BY <1>5, <2>1, PageEdits
<1>7. open # {} => Opened(q, p.recent[First(open)]) \in Pages(L, W)
  BY <1>3, <1>5, OpenedPage
<1> QED
  BY <1>4, <1>6, <1>7

(* Messages that bear what was sent under their id.                        *)
LEMMA AskedMessage ==
  ASSUME NEW S, NEW n \in Int, NEW text \in Texts, NEW rid \in Nat, NEW mode \in Modes,
         rid # 0 => <<rid, text>> \in S
  PROVE  /\ Ask(n, text, rid, mode) \in Messages(S)
         /\ \A k \in Int : [Ask(n, text, rid, mode) EXCEPT !.target = k] \in Messages(S)
<1> DEFINE m == Ask(n, text, rid, mode)
<1>1. m \in Message /\ m.rid = rid /\ m.text = text /\ m.sentText = NoText
  BY DEF Ask, Message, Phrases
<1> HIDE DEF m
<1>2. ASSUME NEW x \in Message, x.rid = rid, x.text = text, x.sentText = NoText PROVE x \in Messages(S)
  BY <1>2 DEF Messages, Vouched, SentAs
<1>3. ASSUME NEW k \in Int PROVE [m EXCEPT !.target = k] \in Messages(S)
  <2> DEFINE x == [m EXCEPT !.target = k]
  <2>1. x \in Message /\ x.rid = rid /\ x.text = text /\ x.sentText = NoText
    BY <1>1 DEF Message
  <2> HIDE DEF x
  <2> QED
    BY <1>2, <2>1 DEF x
<1> QED
  BY <1>1, <1>2, <1>3 DEF m

LEMMA RepliedMessage ==
  ASSUME NEW S, NEW n \in Int, NEW text \in Texts
  PROVE  Reply(n, text) \in Messages(S)
<1> DEFINE m == Ask(n, text, 0, "saved")
<1>1. m \in Message /\ m.rid = 0
  BY DEF Ask, Message, Phrases, Modes
<1> HIDE DEF m
<1>2. [m EXCEPT !.by = "ai"] \in Message /\ [m EXCEPT !.by = "ai"].rid = 0
  BY <1>1 DEF Message
<1>3. \A x \in Message : x.rid = 0 => x \in Messages(S)
  BY DEF Messages, Vouched
<1>4. Reply(n, text) = [m EXCEPT !.by = "ai"]
  BY DEF Reply, m
<1> QED
  BY <1>2, <1>3, <1>4

LEMMA MessageFacts ==
  ASSUME NEW S, NEW m \in Messages(S)
  PROVE  /\ m.key \in Int /\ m.text \in Texts /\ m.rid \in Nat /\ m.sentText \in Phrases /\ m.target \in Int
         /\ Vouched(m, S)
         /\ \A x \in Modes : [m EXCEPT !.mode = x] \in Messages(S)
         /\ [m EXCEPT !.rid = 0, !.mode = "new", !.sentText = NoText] \in Messages(S)
<1>1. m \in Message /\ Vouched(m, S)
  BY DEF Messages
<1>2. ASSUME NEW x \in Modes PROVE [m EXCEPT !.mode = x] \in Messages(S)
  BY <1>1 DEF Messages, Message, Vouched, SentAs
<1>3. [m EXCEPT !.rid = 0, !.mode = "new", !.sentText = NoText] \in Messages(S)
  BY <1>1 DEF Messages, Message, Vouched, Phrases, Modes
<1> QED
  BY <1>1, <1>2, <1>3 DEF Message

LEMMA MessagesAreStories ==
  ASSUME NEW S
  PROVE  Stories(Seq(Messages(S)))
<1> DEFINE L == Seq(Messages(S))
<1>1. Messages(S) \subseteq Message
  BY DEF Messages
<1>2. L \subseteq Seq(Message) /\ <<>> \in L
  BY <1>1
<1>3. ASSUME NEW n \in Int, NEW text \in Texts PROVE <<Ask(n, text, 0, "follow-up")>> \in L
  <2>1. Ask(n, text, 0, "follow-up") \in Messages(S)
    BY AskedMessage DEF Modes
  <2> QED
    BY <2>1
<1>4. ASSUME NEW ms \in L, NEW i \in DOMAIN ms, NEW mode \in {"new", "follow-up"}
      PROVE  [ms EXCEPT ![i] = [ms[i] EXCEPT !.mode = mode]] \in L
  <2> DEFINE m == [ms[i] EXCEPT !.mode = mode]
  <2>1. m \in Messages(S)
    <3>1. ms[i] \in Messages(S)
      OBVIOUS
    <3>2. mode \in Modes
      BY DEF Modes
    <3> QED
      BY <3>1, <3>2, MessageFacts
  <2>2. ASSUME NEW x \in Messages(S) PROVE [ms EXCEPT ![i] = x] \in L
    OBVIOUS
  <2> QED
    BY <2>1, <2>2
<1> QED
  BY <1>2, <1>3, <1>4 DEF Stories

LEMMA IndexFacts ==
  ASSUME NEW M, NEW p, p.messages \in Seq(M), NEW key, IndexOf(p, key) # 0
  PROVE  IndexOf(p, key) \in DOMAIN p.messages /\ p.messages[IndexOf(p, key)] \in M
<1> DEFINE at == {i \in DOMAIN p.messages : p.messages[i].by = "user" /\ p.messages[i].key = key}
<1>1. at # {} /\ IndexOf(p, key) = First(at)
  BY DEF IndexOf
<1>2. at \in SUBSET (DOMAIN p.messages) /\ p.messages \in Seq(M)
  BY PageFacts
<1> HIDE DEF at
<1> QED
  BY <1>1, <1>2, FirstOf

LEMMA ModeSetPage ==
  ASSUME NEW L, Stories(L), NEW V, NEW p \in Pages(L, V), NEW key, NEW mode \in {"new", "follow-up"}
  PROVE  SetMode(p, key, mode) \in Pages(L, V)
<1> DEFINE i == IndexOf(p, key)
           m == [p.messages[i] EXCEPT !.mode = mode]
           ms == [p.messages EXCEPT ![i] = m]
<1>1. CASE i = 0
  BY <1>1 DEF SetMode
<1>2. CASE i # 0
  <2>1. p.messages \in L /\ p.messages \in Seq(Message)
    BY PageFacts DEF Stories
  <2>2. i \in DOMAIN p.messages
    BY <1>2, <2>1, IndexFacts
  <2>3. SetMode(p, key, mode) = [p EXCEPT !.messages[i].mode = mode]
    BY <1>2, Zenon DEF SetMode
  <2> HIDE DEF i
  <2>4. [p EXCEPT !.messages[i].mode = mode] = [p EXCEPT !.messages = ms]
    BY DEF Pages
  <2> HIDE DEF m
  <2>5. ms \in L
    BY <2>1, <2>2 DEF Stories, m
  <2> HIDE DEF ms
  <2>6. [p EXCEPT !.messages = ms] \in Pages(L, V)
    BY <2>5, PageEdits
  <2> QED
    BY <2>3, <2>4, <2>6
<1> QED
  BY <1>1, <1>2

LEMMA FailedPage ==
  ASSUME NEW L, Stories(L), NEW V, None \in V, NEW p \in Pages(L, V), NEW t, t.id \in Places
  PROVE  Failed(p, t) \in Pages(L, V)
<1> DEFINE q == IF t.of = "submit" THEN SetMode(p, t.key, "follow-up") ELSE p
           id == IF q.open # None THEN q.open ELSE t.id
<1>1. q \in Pages(L, V)
  BY ModeSetPage
<1>2. Failed(p, t) = Updated(q, id)
  BY Zenon DEF Failed
<1> HIDE DEF q
<1>3. id \in Places
  BY <1>1, PageFacts
<1> HIDE DEF id
<1> QED
  BY <1>1, <1>2, <1>3, UpdatedPage

(* The session ends: what is kept bears no number either.                  *)
LEMMA ExpiredPage ==
  ASSUME NEW L, Stories(L), NEW V, NEW p \in Pages(L, V), NEW prompt \in Phrases, asked \in Nat,
         NEW W, None \in W
  PROVE  Expired(p, prompt) \in Pages(L, W)
<1> DEFINE keep(e) == [Opened(Cleared(p), e) EXCEPT !.recent = <<e>>, !.transfer = e.id]
           guest == p.recent[First(Guests(p))]
           told == [guest EXCEPT !.messages = IF p.open = p.transfer THEN p.messages ELSE @]
           lost == [id |-> Local(-asked), server |-> None,
                    messages |-> <<Ask(-asked, prompt, 0, "follow-up")>>]
<1>1. Cleared(p) \in Pages(L, W)
  BY ClearedPage
<1>2. ASSUME NEW e \in Talks(L, W) PROVE keep(e) \in Pages(L, W)
  <2>1. Opened(Cleared(p), e) \in Pages(L, W) /\ <<e>> \in Seq(Talks(L, W)) /\ e.id \in Places
    BY <1>1, OpenedPage, TalkFacts
  <2> DEFINE q == Opened(Cleared(p), e)
  <2> HIDE DEF q
  <2>2. keep(e) = [[q EXCEPT !.recent = <<e>>] EXCEPT !.transfer = e.id]
    BY DEF q
  <2>3. [q EXCEPT !.recent = <<e>>] \in Pages(L, W)
    BY <2>1, PageEdits DEF q
  <2> QED
    BY <2>1, <2>2, <2>3, PageEdits
<1>3. Guests(p) # {} => told \in Talks(L, W)
  <2>1. Guests(p) \in SUBSET (DOMAIN p.recent) /\ \A i \in Guests(p) : p.recent[i].server = None
    BY DEF Guests
  <2>2. ASSUME Guests(p) # {} PROVE First(Guests(p)) \in Guests(p)
    BY <2>1, <2>2, PageFacts, FirstOf
  <2>3. ASSUME Guests(p) # {} PROVE guest \in Talks(L, V) /\ guest.server = None
    BY <2>1, <2>2, <2>3, PageFacts
  <2> HIDE DEF guest
  <2>4. ASSUME Guests(p) # {} PROVE guest \in Talks(L, W)
    BY <2>3, <2>4 DEF Talks
  <2>5. p.messages \in L
    BY PageFacts
  <2> QED
    BY <2>4, <2>5, TalkFacts
<1>4. prompt # NoText => lost \in Talks(L, W)
  <2>1. ASSUME prompt # NoText PROVE <<Ask(-asked, prompt, 0, "follow-up")>> \in L
    <3>1. prompt \in Texts
      BY <2>1 DEF Phrases
    <3>2. -asked \in Int /\ -asked <= 0
      OBVIOUS
    <3> QED
      BY <3>1, <3>2 DEF Stories
  <2>2. Local(-asked) \in Places
    BY DEF Local, Places
  <2>3. ASSUME NEW ms \in L, prompt # NoText
        PROVE  [id |-> Local(-asked), server |-> None, messages |-> ms] \in Talks(L, W)
    BY <2>2 DEF Talks
  <2> QED
    BY <2>1, <2>3
<1>5. \/ Guests(p) # {} /\ Expired(p, prompt) = keep(told)
      \/ Expired(p, prompt) = Cleared(p)
      \/ prompt # NoText /\ Expired(p, prompt) = keep(lost)
  BY Zenon DEF Expired
<1> HIDE DEF keep, told, lost
<1> QED
  BY <1>1, <1>2, <1>3, <1>4, <1>5

LEMMA SentHistory ==
  ASSUME NEW S, NEW ms \in Seq(Messages(S))
  PROVE  History(ms) \in Seq(Messages(S))
<1> DEFINE asks == Keep(ms, {i \in DOMAIN ms : ~IsNote(ms[i])})
           new(m) == [m EXCEPT !.rid = 0, !.mode = "new", !.sentText = NoText]
<1>1. asks \in Seq(Messages(S))
  BY KeptOf
<1>2. \A m \in Messages(S) : new(m) \in Messages(S)
  BY MessageFacts
<1>3. History(ms) = [i \in DOMAIN asks |-> new(asks[i])]
  BY Zenon DEF History
<1> HIDE DEF asks, new
<1> QED
  BY <1>1, <1>2, <1>3

LEMMA HandledPage ==
  ASSUME NEW L, Stories(L), NEW V, NEW W, None \in W, NEW p \in Pages(L, V), asked \in Nat,
         NEW why, NEW prompt \in Phrases, (why = "auth" /\ LoggedIn) \/ V = W
  PROVE  HandleError(why, p, prompt) \in Pages(L, W)
<1>1. Expired(p, prompt) \in Pages(L, W)
  BY ExpiredPage
<1>2. [p EXCEPT !.transfer = p.open] \in Pages(L, V)
  BY PageFacts, PageEdits
<1>3. CASE why = "auth" /\ LoggedIn
  BY <1>1, <1>3 DEF HandleError
<1>4. CASE ~(why = "auth" /\ LoggedIn)
  BY <1>2, <1>4 DEF HandleError
<1> QED
  BY <1>3, <1>4

----------------------------------------------------------------------------
(* More prompts sent, more conversations, a page that has moved on: what   *)
(* was well-formed stays so                                                *)

LEMMA WiderMessages ==
  ASSUME NEW S, NEW T, S \subseteq T
  PROVE  /\ Messages(S) \subseteq Messages(T)
         /\ \A ms \in Seq(Messages(S)) : ms \in Seq(Messages(T))
<1>1. Messages(S) \subseteq Messages(T)
  BY DEF Messages, Vouched
<1>2. ASSUME NEW ms \in Seq(Messages(S)) PROVE ms \in Seq(Messages(T))
  BY <1>1
<1> QED
  BY <1>1, <1>2

LEMMA WiderPages ==
  ASSUME NEW L, NEW K, \A ms \in L : ms \in K, NEW V, NEW W, V \subseteq W
  PROVE  \A p \in Pages(L, V) : p \in Pages(K, W)
<1>1. Talks(L, V) \subseteq Talks(K, W)
  BY DEF Talks
<1>2. \A x \in Seq(Talks(L, V)) : x \in Seq(Talks(K, W))
  BY <1>1
<1>3. Places \X V \subseteq Places \X W
  OBVIOUS
<1> QED
  BY <1>2, <1>3 DEF Pages

LEMMA WiderThreads ==
  ASSUME NEW M, NEW N, \A ms \in Seq(M) : ms \in Seq(N)
  PROVE  \A x \in Seq(Keeps(M)) : x \in Seq(Keeps(N))
<1>1. Keeps(M) \subseteq Keeps(N)
  BY DEF Keeps
<1> QED
  BY <1>1

LEMMA HandlerStays ==
  ASSUME NEW S, NEW T, S \subseteq T, NEW tok, NEW tok2, NEW k \in Nat, NEW k2 \in Nat, k <= k2,
         NEW a, NEW b, a => b, b \/ tok2 = tok, NEW t, HandlerOk(t, S, tok, k, a)
  PROVE  HandlerOk(t, T, tok2, k2, b)
<1>1. t \in Handlers(Messages(S)) /\ t.token <= k /\ t.token \in Nat
  BY DEF HandlerOk, Handlers
<1>2. t \in Handlers(Messages(T))
  BY <1>1, WiderMessages DEF Handlers
<1> QED
  BY <1>1, <1>2 DEF HandlerOk

LEMMA ChoreStays ==
  ASSUME NEW S, NEW T, S \subseteq T, NEW k \in Nat, NEW k2 \in Nat, k <= k2, NEW c, ChoreOk(c, S, k)
  PROVE  ChoreOk(c, T, k2)
  BY WiderMessages DEF ChoreOk

LEMMA ReachFacts ==
  ASSUME ThreadsOk
  PROVE  None \in Reach /\ Reach \subseteq Places
<1>1. None \in Places /\ \A n \in Int : Server(n) \in Places
  BY DEF None, Server, Places
<1>2. \A n \in OwnedBy(token) : n \in Int
  BY DEF OwnedBy, ThreadsOk
<1> QED
  BY <1>1, <1>2 DEF Reach

ThreadsGrow ==
  /\ DOMAIN threads \subseteq DOMAIN threads'
  /\ \A n \in DOMAIN threads : threads'[n].owner = threads[n].owner

LEMMA ReachGrows ==
  ASSUME ThreadsOk, ThreadsGrow, UNCHANGED <<token, owners>>, strayed => strayed'
  PROVE  Reach \subseteq Reach'
<1>1. CASE strayed'
  BY <1>1, ReachFacts DEF Reach
<1>2. CASE ~strayed'
  <2>1. OwnedBy(token) \subseteq OwnedBy(token)'
    BY DEF OwnedBy, Owner, ThreadsGrow
  <2> QED
    BY <1>2, <2>1 DEF Reach
<1> QED
  BY <1>1, <1>2

Grows ==
  /\ sent \subseteq sent' /\ (strayed => strayed') /\ ThreadsGrow
  /\ Len(owners) <= Len(owners') /\ Len(owners') \in Nat /\ (strayed' \/ token' = token)

LEMMA GrowingKeeps ==
  ASSUME SessionOk, MakeInv, Grows
  PROVE  /\ \A ms \in Seq(Messages(sent)) : ms \in Seq(Messages(sent'))
         /\ page \in Pages(Seq(Messages(sent')), Reach)
         /\ UNCHANGED <<token, owners>> => page \in Pages(Seq(Messages(sent')), Reach') /\ Reach \subseteq Reach'
         /\ threads \in Seq(Keeps(Messages(sent')))
         /\ \A t \in tasks : HandlerOk(t, sent', token', Len(owners'), strayed')
         /\ \A c \in chores : ChoreOk(c, sent', Len(owners'))
<1>1. sent \subseteq sent' /\ Len(owners) \in Nat /\ Len(owners') \in Nat /\ Len(owners) <= Len(owners')
  BY DEF SessionOk, Grows
<1>2. \A ms \in Seq(Messages(sent)) : ms \in Seq(Messages(sent'))
  BY <1>1, WiderMessages
<1>3. page \in Pages(Seq(Messages(sent')), Reach)
  BY <1>2, WiderPages DEF MakeInv, PageOk
<1>4. ASSUME UNCHANGED <<token, owners>>
      PROVE  page \in Pages(Seq(Messages(sent')), Reach') /\ Reach \subseteq Reach'
  <2>1. Reach \subseteq Reach'
    BY <1>4, ReachGrows DEF MakeInv, Grows
  <2> QED
    BY <1>2, <2>1, WiderPages DEF MakeInv, PageOk
<1>5. threads \in Seq(Keeps(Messages(sent')))
  BY <1>2, WiderThreads DEF MakeInv, ThreadsOk
<1>6. ASSUME NEW t \in tasks PROVE HandlerOk(t, sent', token', Len(owners'), strayed')
  BY <1>1, HandlerStays DEF MakeInv, TasksOk, Grows
<1>7. \A c \in chores : ChoreOk(c, sent', Len(owners'))
  BY <1>1, ChoreStays DEF MakeInv, ChoresOk
<1> QED
  BY <1>2, <1>3, <1>4, <1>5, <1>6, <1>7

----------------------------------------------------------------------------
(* Handlers, and the server's side of an improvement                       *)

LEMMA HandlerFacts ==
  ASSUME NEW t, NEW S, NEW tok, NEW k, NEW a, HandlerOk(t, S, tok, k, a)
  PROVE  /\ t.id \in Places /\ t.to \in Places /\ t.key \in Int /\ t.rid \in Nat /\ t.text \in Phrases
         /\ t.n \in Nat /\ t.token \in Nat /\ t.token <= k /\ t.old \in Seq(Messages(S))
         /\ (t.kind \in Prompted => t.text \in Texts /\ (t.rid # 0 => <<t.rid, t.text>> \in S))
         /\ (a \/ t.token = tok)
  BY DEF HandlerOk, Handlers

LEMMA ReadingOk ==
  ASSUME SessionOk, ThreadsOk, NEW S, NEW V, V \subseteq Places, NEW p \in Pages(Seq(Messages(S)), V), NEW a,
         NEW t, HandlerOk(t, S, token, Len(owners), a), t.kind \in Prompted,
         NEW then \in {"conflict", "recover", "show"}
  PROVE  HandlerOk(Reading(t, then, p), S, token, Len(owners), a)
<1> DEFINE b == IF Backend(p, t.id) # None THEN Backend(p, t.id) ELSE t.id
           kind == IF LoggedIn /\ OnServer(b) THEN "thread" ELSE "list"
           old == IF then = "recover" THEN p.messages ELSE <<>>
           u == [t EXCEPT !.kind = kind, !.then = then, !.token = token, !.to = b, !.old = old]
<1>1. t \in Handlers(Messages(S)) /\ t.text \in Texts /\ (t.rid # 0 => <<t.rid, t.text>> \in S)
  BY DEF HandlerOk
<1>2. b \in Places
  BY HandlerFacts, BackendPlace
<1>3. kind \in {"thread", "list"} /\ (kind = "thread" => OnServer(b))
  OBVIOUS
<1>4. old \in Seq(Messages(S))
  BY PageFacts
<1>5. token \in Nat /\ token <= Len(owners)
  BY DEF SessionOk
<1>6. Reading(t, then, p) = u
  BY DEF Reading
<1> HIDE DEF b, kind, old
<1>7. /\ u \in Handlers(Messages(S)) /\ u.kind = kind /\ u.to = b /\ u.text = t.text /\ u.rid = t.rid
      /\ u.token = token
  BY <1>1, <1>2, <1>3, <1>4, <1>5 DEF Handlers
<1> QED
  BY <1>1, <1>3, <1>5, <1>6, <1>7 DEF HandlerOk

LEMMA RecentOk ==
  ASSUME SessionOk, NEW S, NEW a
  PROVE  /\ \A n \in Nat : HandlerOk(Recent(n), S, token, Len(owners), a)
         /\ \A key \in Int, to \in Places :
              HandlerOk([Recent(0) EXCEPT !.kind = "delete", !.key = key, !.to = to], S, token, Len(owners), a)
         /\ \A key \in Int :
              HandlerOk([Recent(0) EXCEPT !.kind = "hydrate", !.key = key], S, token, Len(owners), a)
<1>1. token \in Nat /\ token <= Len(owners) /\ None \in Places /\ NoText \in Phrases
  BY DEF SessionOk, None, Places, Phrases
<1>2. ASSUME NEW n \in Nat
      PROVE  Recent(n) \in Handlers(Messages(S)) /\ Recent(n).kind = "recent" /\ Recent(n).token = token
  <2>1. \A none \in Places, nil \in Seq(Messages(S)), text \in Phrases, tok \in Nat :
          LET t == [kind |-> "recent", of |-> "recent", then |-> "none", n |-> n, token |-> tok,
                    id |-> none, to |-> none, key |-> 0, text |-> text, rid |-> 0,
                    saved |-> FALSE, old |-> nil]
          IN  t \in Handlers(Messages(S)) /\ t.kind = "recent" /\ t.token = tok
    BY DEF Handlers
  <2>2. <<>> \in Seq(Messages(S))
    OBVIOUS
  <2> QED
    BY <1>1, <2>1, <2>2, Zenon DEF Recent
<1>3. ASSUME NEW t \in Handlers(Messages(S)), t.token = token, t.kind \in {"recent", "delete", "hydrate"}
      PROVE  HandlerOk(t, S, token, Len(owners), a)
  BY <1>1, <1>3 DEF HandlerOk, Prompted, Improving
<1>4. ASSUME NEW t \in Handlers(Messages(S)), t.token = token, NEW key \in Int, NEW to \in Places
      PROVE  /\ HandlerOk([t EXCEPT !.kind = "delete", !.key = key, !.to = to], S, token, Len(owners), a)
             /\ HandlerOk([t EXCEPT !.kind = "hydrate", !.key = key], S, token, Len(owners), a)
  <2> DEFINE x == [t EXCEPT !.kind = "delete", !.key = key, !.to = to]
             y == [t EXCEPT !.kind = "hydrate", !.key = key]
  <2>1. x \in Handlers(Messages(S)) /\ x.token = token /\ x.kind = "delete"
    BY <1>4 DEF Handlers
  <2>2. y \in Handlers(Messages(S)) /\ y.token = token /\ y.kind = "hydrate"
    BY <1>4 DEF Handlers
  <2> HIDE DEF x, y
  <2> QED
    BY <1>3, <2>1, <2>2 DEF x, y
<1>5. Recent(0) \in Handlers(Messages(S)) /\ Recent(0).token = token
  BY <1>2
<1>6. ASSUME NEW key \in Int, NEW to \in Places
      PROVE  /\ HandlerOk([Recent(0) EXCEPT !.kind = "delete", !.key = key, !.to = to], S, token, Len(owners), a)
             /\ HandlerOk([Recent(0) EXCEPT !.kind = "hydrate", !.key = key], S, token, Len(owners), a)
  BY <1>4, <1>5, Zenon
<1>7. \A n \in Nat : HandlerOk(Recent(n), S, token, Len(owners), a)
  BY <1>2, <1>3
<1> QED
  BY <1>1, <1>6, <1>7, Zenon

LEMMA CallOk ==
  ASSUME SessionOk, NEW S, NEW a, NEW V, V \subseteq Places, NEW p \in Pages(Seq(Messages(S)), V),
         NEW kind \in Improving, NEW id \in Places, NEW key \in Int, NEW text \in Texts, NEW rid \in Nat,
         rid # 0 => <<rid, text>> \in S, NEW old \in Seq(Messages(S))
  PROVE  HandlerOk(Call(kind, p, id, key, text, rid, old), S, token, Len(owners), a)
<1> DEFINE to == IF LoggedIn THEN Backend(p, id) ELSE None
           saved == IndexOf(p, key) # 0 /\ p.messages[IndexOf(p, key)].mode = "saved"
           past == IF to = None THEN old ELSE <<>>
           t == [kind |-> kind, of |-> kind, then |-> "none", n |-> asked + 1, token |-> token,
                 id |-> id, to |-> to, key |-> key, text |-> text, rid |-> rid, saved |-> saved, old |-> past]
<1>1. to \in Places
  BY BackendPlace DEF None, Places
<1>2. saved \in BOOLEAN /\ past \in Seq(Messages(S))
  OBVIOUS
<1>3. token \in Nat /\ token <= Len(owners) /\ asked + 1 \in Nat
  BY DEF SessionOk
<1>7. text \in Phrases
  BY DEF Phrases
<1>4. Call(kind, p, id, key, text, rid, old) = t
  BY Zenon DEF Call
<1> HIDE DEF to, saved, past
<1>5. t \in Handlers(Messages(S)) /\ t.kind = kind /\ t.token = token /\ t.text = text /\ t.rid = rid
  BY <1>1, <1>2, <1>3, <1>7 DEF Handlers
<1>6. kind # "thread"
  BY DEF Improving
<1> HIDE DEF t
<1> QED
  BY <1>3, <1>4, <1>5, <1>6 DEF HandlerOk

(* What the server makes of it: the conversations are the same or longer,  *)
(* and the number it answers with is one of the asking account's.          *)
Outcome(r, t, S) ==
  /\ r.after \in Seq(Keeps(Messages(S)))
  /\ DOMAIN threads \subseteq DOMAIN r.after
  /\ \A n \in DOMAIN threads : r.after[n].owner = threads[n].owner
  /\ \/ r.server = None
     \/ t.token # 0 /\ \E n \in DOMAIN r.after : r.server = Server(n) /\ r.after[n].owner = Owner(t.token)

LEMMA ThreadFacts ==
  ASSUME NEW M, NEW ths \in Seq(Keeps(M))
  PROVE  /\ \A n \in DOMAIN ths : ths[n] \in Keeps(M) /\ ths[n].messages \in Seq(M) /\ n \in Nat
         /\ \A n \in DOMAIN ths, ms \in Seq(M) :
              LET new == [ths EXCEPT ![n].messages = ms]
              IN  /\ new \in Seq(Keeps(M)) /\ DOMAIN new = DOMAIN ths
                  /\ \A i \in DOMAIN ths : new[i].owner = ths[i].owner
         /\ \A x \in Keeps(M) :
              LET new == Append(ths, x)
              IN  /\ new \in Seq(Keeps(M)) /\ DOMAIN new = 1..Len(ths) + 1
                  /\ new[Len(ths) + 1] = x /\ \A i \in DOMAIN ths : new[i] = ths[i] /\ i \in DOMAIN new
<1>1. \A n \in DOMAIN ths : ths[n] \in Keeps(M) /\ ths[n].messages \in Seq(M) /\ n \in Nat
  <2>1. \A x \in Keeps(M) : x.messages \in Seq(M)
    BY DEF Keeps
  <2> QED
    BY <2>1
<1>2. ASSUME NEW n \in DOMAIN ths, NEW ms \in Seq(M)
      PROVE  LET new == [ths EXCEPT ![n].messages = ms]
             IN  /\ new \in Seq(Keeps(M)) /\ DOMAIN new = DOMAIN ths
                 /\ \A i \in DOMAIN ths : new[i].owner = ths[i].owner
  <2> DEFINE e == [ths[n] EXCEPT !.messages = ms]
  <2>1. e \in Keeps(M) /\ e.owner = ths[n].owner
    BY <1>1 DEF Keeps
  <2> HIDE DEF e
  <2> DEFINE new == [ths EXCEPT ![n] = e]
  <2>2. new \in Seq(Keeps(M)) /\ DOMAIN new = DOMAIN ths /\ \A i \in DOMAIN ths : new[i].owner = ths[i].owner
    BY <2>1
  <2> QED
    BY <2>2 DEF e
<1>3. ASSUME NEW x \in Keeps(M)
      PROVE  LET new == Append(ths, x)
             IN  /\ new \in Seq(Keeps(M)) /\ DOMAIN new = 1..Len(ths) + 1
                 /\ new[Len(ths) + 1] = x /\ \A i \in DOMAIN ths : new[i] = ths[i] /\ i \in DOMAIN new
  OBVIOUS
<1> QED
  BY <1>1, <1>2, <1>3

LEMMA ImproveOutcome ==
  ASSUME SessionOk, MakeInv, NEW t \in tasks, t.kind \in Improving
  PROVE  Outcome(Improve(t), t, sent)
<1> DEFINE n == Home(t)
           M == Messages(sent)
           ms == threads[n].messages
           pair == <<Ask(t.key, t.text, t.rid, "saved"), Reply(t.key, t.text)>>
           at == {i \in DOMAIN ms : ms[i].by = "user" /\ ms[i].key = t.key /\ ms[i].mode = "saved"}
           put(new) == [answer |-> "ok", server |-> Server(n), after |-> [threads EXCEPT ![n].messages = new]]
           refuse(why) == [answer |-> why, server |-> None, after |-> threads]
           first == [owner |-> Owner(t.token), live |-> TRUE, first |-> t.rid, messages |-> t.old \o pair]
<1>1. HandlerOk(t, sent, token, Len(owners), strayed) /\ threads \in Seq(Keeps(M))
  BY DEF MakeInv, TasksOk, ThreadsOk
<1>2. pair \in Seq(M)
  <2>1. /\ t.key \in Int /\ t.text \in Texts /\ t.rid \in Nat /\ (t.rid # 0 => <<t.rid, t.text>> \in sent)
        /\ "saved" \in Modes
    BY <1>1, HandlerFacts DEF Prompted, Modes
  <2>2. Ask(t.key, t.text, t.rid, "saved") \in M /\ Reply(t.key, t.text) \in M
    BY <2>1, AskedMessage, RepliedMessage
  <2> QED
    BY <2>2
<1>3. ASSUME NEW why PROVE Outcome(refuse(why), t, sent)
  BY <1>1 DEF Outcome
<1>4. ASSUME NEW new \in Seq(M), Owned(t, n) PROVE Outcome(put(new), t, sent)
  <2> DEFINE after == [threads EXCEPT ![n].messages = new]
  <2>1. n \in DOMAIN threads /\ t.token # 0 /\ threads[n].owner = Owner(t.token)
    BY <1>4 DEF Owned
  <2>2. after \in Seq(Keeps(M)) /\ DOMAIN after = DOMAIN threads
        /\ \A i \in DOMAIN threads : after[i].owner = threads[i].owner
    BY <1>1, <2>1, ThreadFacts
  <2> HIDE DEF after, n
  <2> QED
    BY <2>1, <2>2 DEF Outcome, after
<1>5. ASSUME t.token # 0
      PROVE  Outcome([answer |-> "ok", server |-> Server(Len(threads) + 1), after |-> Append(threads, first)],
                     t, sent)
  <2> DEFINE after == Append(threads, first)
  <2>1. t.old \in Seq(M) /\ t.rid \in Nat /\ t.token \in 1..Len(owners)
    <3>1. t.old \in Seq(M) /\ t.rid \in Nat /\ t.token \in Nat /\ t.token <= Len(owners)
      BY <1>1, HandlerFacts
    <3>2. Len(owners) \in Nat
      BY DEF SessionOk
    <3> QED
      BY <1>5, <3>1, <3>2
  <2>2. Owner(t.token) \in Members
    BY <2>1 DEF Owner, SessionOk
  <2> HIDE DEF pair
  <2>3. t.old \o pair \in Seq(M)
    BY <1>2, <2>1
  <2>4. first \in Keeps(M) /\ first.owner = Owner(t.token)
    BY <2>1, <2>2, <2>3 DEF Keeps
  <2> HIDE DEF first
  <2>5. after \in Seq(Keeps(M)) /\ DOMAIN after = 1..Len(threads) + 1 /\ after[Len(threads) + 1] = first
        /\ \A i \in DOMAIN threads : after[i] = threads[i] /\ i \in DOMAIN after
    BY <1>1, <2>4, ThreadFacts
  <2>6. Len(threads) + 1 \in DOMAIN after
    BY <1>1, <2>5
  <2> HIDE DEF after
  <2> QED
    BY <1>5, <2>4, <2>5, <2>6 DEF Outcome, after
<1>6. ASSUME Owned(t, n) PROVE ms \in Seq(M) /\ ms \o pair \in Seq(M)
                               /\ (at # {} => SubSeq(ms, 1, First(at) - 1) \o pair \in Seq(M))
  <2>1. ms \in Seq(M)
    BY <1>1, <1>6, ThreadFacts DEF Owned
  <2>2. at # {} => First(at) \in DOMAIN ms
    BY <2>1, FirstOf
  <2> HIDE DEF at, ms, pair
  <2>3. at # {} => SubSeq(ms, 1, First(at) - 1) \in Seq(M)
    BY <2>1, <2>2
  <2> QED
    BY <1>2, <2>1, <2>3
<1> HIDE DEF M
<1>7. CASE t.token = 0
  BY <1>3, <1>7, Zenon DEF Improve
<1>8. CASE t.token # 0 /\ n = 0
  BY <1>5, <1>8, Zenon DEF Improve
<1>9. CASE t.token # 0 /\ n # 0 /\ ~Owned(t, n)
  BY <1>3, <1>9, Zenon DEF Improve
<1>10. CASE t.token # 0 /\ n # 0 /\ Owned(t, n)
  BY <1>3, <1>4, <1>6, <1>10, Zenon DEF Improve
<1> QED
  BY <1>7, <1>8, <1>9, <1>10

----------------------------------------------------------------------------
(* Prompts are sent                                                        *)

ChatOk == PageOk /\ ThreadsOk /\ TasksOk /\ SentOk

SentAfter(rid, text, spoilt) == sent \cup (IF rid = 0 THEN {} ELSE {<<rid, text>>}) \cup spoilt

LEMMA CallSends ==
  ASSUME NEW kind, NEW p, NEW id, NEW key, NEW text, NEW rid, NEW old
  PROVE  /\ Call(kind, p, id, key, text, rid, old).text = text
         /\ Call(kind, p, id, key, text, rid, old).rid = rid
<1>1. \A x, y, z :
        LET c == [kind |-> kind, of |-> kind, then |-> "none", n |-> asked + 1, token |-> token,
                  id |-> id, to |-> x, key |-> key, text |-> text, rid |-> rid, saved |-> y, old |-> z]
        IN  c.text = text /\ c.rid = rid
  OBVIOUS
<1> QED
  BY <1>1, Zenon DEF Call

(* A prompt sent under a new number, its own old id or one set apart, and  *)
(* more ids set apart, leave the history as it should be.                  *)
Unmixed(S, k) ==
  /\ S \subseteq (1..k) \X Phrases
  /\ \A a, b \in S : a[1] = b[1] => a[2] = b[2] \/ <<a[1], NoText>> \in S

LEMMA LaterSent ==
  ASSUME NEW k \in Nat, NEW S, Unmixed(S, k)
  PROVE  Unmixed(S, k + 1)
<1>1. (1..k) \X Phrases \subseteq (1..k + 1) \X Phrases
  <2>1. 1..k \subseteq 1..k + 1
    OBVIOUS
  <2> QED
    BY <2>1, MorePairs, Zenon
<1> QED
  BY <1>1, Zenon DEF Unmixed

LEMMA MoreApart ==
  ASSUME NEW k \in Nat, NEW S, Unmixed(S, k), NEW T \in SUBSET ((1..k) \X {NoText})
  PROVE  Unmixed(S \cup T, k)
<1> DEFINE N == 1..k
<1>1. S \subseteq N \X Phrases /\ T \subseteq N \X {NoText}
  BY DEF Unmixed
<1> HIDE DEF N
<1>2. \A e \in T : e \in N \X Phrases /\ <<e[1], NoText>> \in T
  <2> TAKE e \in T
  <2>1. e[1] \in N /\ e[2] \in {NoText} /\ e = <<e[1], e[2]>>
    <3>1. e \in N \X {NoText}
      BY <1>1
    <3> QED
      BY <3>1, Pairs
  <2>2. e[2] = NoText /\ NoText \in Phrases
    BY <2>1 DEF Phrases
  <2>3. <<e[1], NoText>> \in N \X Phrases
    BY <2>1, <2>2, Pairs
  <2> QED
    BY <2>1, <2>2, <2>3
<1>3. ASSUME NEW a \in S \cup T, NEW b \in S \cup T, a[1] = b[1]
      PROVE  a[2] = b[2] \/ <<a[1], NoText>> \in S \cup T
  <2>1. CASE a \in T \/ b \in T
    BY <1>2, <1>3, <2>1
  <2>2. CASE a \in S /\ b \in S
    BY <1>3, <2>2 DEF Unmixed
  <2> QED
    BY <2>1, <2>2
<1> QED
  BY <1>1, <1>2, <1>3 DEF Unmixed, N

LEMMA OneMoreSent ==
  ASSUME NEW k \in Nat, NEW S, Unmixed(S, k), NEW rid \in Nat, NEW text \in Phrases, rid # 0,
         rid = k + 1 \/ <<rid, text>> \in S \/ <<rid, NoText>> \in S
  PROVE  Unmixed(S \cup {<<rid, text>>}, k + 1)
<1> DEFINE T == S \cup {<<rid, text>>}
           N == 1..k
           L == 1..k + 1
<1>1. S \subseteq N \X Phrases /\ S \subseteq L \X Phrases
  BY LaterSent DEF Unmixed
<1>2. k + 1 \in L /\ k + 1 \notin N /\ N \subseteq L
  <2>1. k + 1 \in 1..k + 1 /\ ~(k + 1 \in 1..k)
    OBVIOUS
  <2>2. 1..k \subseteq 1..k + 1
    OBVIOUS
  <2> QED
    BY <2>1, <2>2
<1> HIDE DEF N, L
<1>3. \A e \in S : e[1] # k + 1
  BY <1>1, <1>2, Pairs
<1>4. <<rid, text>> \in L \X Phrases /\ <<rid, text>>[1] = rid /\ <<rid, text>>[2] = text
  <2>1. \A x : <<rid, x>> \in S => rid \in N
    BY <1>1, Pairs
  <2>2. rid \in L
    BY <1>2, <2>1
  <2> QED
    BY <2>2, Pairs
<1>5. ASSUME NEW e \in S, e[1] = rid PROVE e[2] = text \/ <<rid, NoText>> \in S
  <2>1. rid # k + 1
    BY <1>3, <1>5
  <2>2. <<rid, text>> \in S => e[2] = <<rid, text>>[2] \/ <<e[1], NoText>> \in S
    BY <1>4, <1>5 DEF Unmixed
  <2> QED
    BY <1>4, <1>5, <2>1, <2>2
<1>6. ASSUME NEW a \in T, NEW b \in T, a[1] = b[1]
      PROVE  a[2] = b[2] \/ <<a[1], NoText>> \in T
  <2>1. CASE a \in S /\ b \in S
    BY <1>6, <2>1 DEF Unmixed
  <2>2. CASE a = <<rid, text>>
    BY <1>4, <1>5, <1>6, <2>2
  <2>3. CASE b = <<rid, text>>
    BY <1>4, <1>5, <1>6, <2>3
  <2> QED
    BY <1>6, <2>1, <2>2, <2>3
<1>7. T \subseteq L \X Phrases
  BY <1>1, <1>4
<1> HIDE DEF T
<1> QED
  BY <1>6, <1>7 DEF Unmixed, T, L

LEMMA BeginOk ==
  ASSUME SessionOk, MakeInv, SessionStays,
         NEW q, NEW task, NEW version, NEW spoilt \in SUBSET ((1..asked) \X {NoText}),
         NEW rid \in Nat, NEW text \in Texts,
         Begin(q, task, version, spoilt), task.rid = rid, task.text = text,
         rid # 0 => rid = asked + 1 \/ <<rid, text>> \in sent \/ <<rid, NoText>> \in sent,
         q \in Pages(Seq(Messages(SentAfter(rid, text, spoilt))), Reach),
         HandlerOk(task, SentAfter(rid, text, spoilt), token, Len(owners), strayed)
  PROVE  ChatOk' /\ sent \subseteq sent'
<1>1. /\ sent' = SentAfter(rid, text, spoilt) /\ page' = q /\ tasks' = tasks \cup {task}
      /\ asked' = asked + 1
  BY Zenon DEF Begin, SentAfter
<1>2. threads' = threads /\ strayed' = strayed /\ token' = token /\ owners' = owners
  BY DEF Begin, SessionStays
<1>3. sent \subseteq sent'
  BY <1>1 DEF SentAfter
<1>4. Grows
  <2>1. Len(owners) \in Nat /\ Len(owners) <= Len(owners)
    <3>1. Len(owners) \in Nat
      BY DEF SessionOk
    <3> QED
      BY <3>1
  <2>2. ThreadsGrow
    BY <1>2 DEF ThreadsGrow
  <2> QED
    BY <1>2, <1>3, <2>1, <2>2 DEF Grows
<1>5. PageOk'
  <2>1. Reach' = Reach
    BY <1>2 DEF Reach, OwnedBy, Owner
  <2> QED
    BY <1>1, <2>1 DEF PageOk
<1>6. ThreadsOk'
  BY <1>2, <1>4, GrowingKeeps DEF ThreadsOk
<1>7. TasksOk'
  <2>1. \A t \in tasks : HandlerOk(t, sent', token', Len(owners'), strayed')
    BY <1>4, GrowingKeeps
  <2>2. HandlerOk(task, sent', token', Len(owners'), strayed')
    BY <1>1, <1>2
  <2> QED
    BY <1>1, <2>1, <2>2 DEF TasksOk
<1>8. Unmixed(sent, asked) /\ asked \in Nat
  BY DEF MakeInv, SentOk, SessionOk, OneIdOnePrompt, Unmixed
<1>9. Unmixed(sent \cup spoilt, asked)
  BY <1>8, MoreApart
<1>10. Unmixed(sent', asked + 1)
  <2>1. CASE rid = 0
    <3>1. sent' = sent \cup spoilt
      BY <1>1, <2>1 DEF SentAfter
    <3> QED
      BY <1>8, <1>9, <3>1, LaterSent
  <2>2. CASE rid # 0
    <3>1. sent' = (sent \cup spoilt) \cup {<<rid, text>>}
      BY <1>1, <2>2 DEF SentAfter
    <3>2. text \in Phrases
      BY DEF Phrases
    <3> QED
      BY <1>8, <1>9, <2>2, <3>1, <3>2, OneMoreSent
  <2> QED
    BY <2>1, <2>2
<1>11. SentOk'
  BY <1>1, <1>10 DEF SentOk, OneIdOnePrompt, Unmixed
<1> QED
  BY <1>3, <1>5, <1>6, <1>7, <1>11 DEF ChatOk

LEMMA ThreadOfFacts ==
  ASSUME SessionOk, NEW M, NEW V, NEW p \in Pages(Seq(M), V)
  PROVE  ThreadOf(p) \in Places
  BY PageFacts DEF ThreadOf, Local, Places, SessionOk

(* A new prompt, from the composer.                                        *)
LEMMA SubmitOk ==
  ASSUME SessionOk, MakeInv, SessionStays, NEW p \in Pages(Seq(Messages(sent)), Reach), NEW text \in Texts,
         SubmitOn(p, text)
  PROVE  ChatOk' /\ sent \subseteq sent'
<1> DEFINE n == asked + 1
           id == ThreadOf(p)
           rid == IF LoggedIn THEN n ELSE 0
           m == Ask(n, text, rid, "new")
           blank == [p EXCEPT !.draft = NoText]
           q == Updated(Added(blank, id, m), id)
           old == History(p.messages)
           S == SentAfter(rid, text, {})
           task == Call("submit", q, id, n, text, rid, old)
<1>1. Begin(q, task, request.version + 1, {})
  BY Zenon DEF SubmitOn
<1>2. asked \in Nat /\ n \in Int /\ rid \in Nat /\ rid \in {0, n} /\ id \in Places
  BY ThreadOfFacts DEF SessionOk
<1>3. sent \subseteq S /\ (rid # 0 => <<rid, text>> \in S)
  BY DEF SentAfter
<1>4. None \in Reach /\ Reach \subseteq Places
  BY ReachFacts DEF MakeInv
<1> HIDE DEF n, id, rid, S
<1>5. p \in Pages(Seq(Messages(S)), Reach) /\ p.messages \in Seq(Messages(S))
  BY <1>3, WiderMessages, WiderPages, PageFacts
<1>6. m \in Messages(S)
  BY <1>2, <1>3, AskedMessage DEF Modes
<1> HIDE DEF m
<1>7. blank \in Pages(Seq(Messages(S)), Reach)
  BY <1>5, PageEdits DEF Phrases
<1> HIDE DEF blank
<1>8. q \in Pages(Seq(Messages(S)), Reach)
  BY <1>2, <1>4, <1>6, <1>7, SaidPage, UpdatedPage
<1>9. old \in Seq(Messages(S))
  BY <1>5, SentHistory
<1> HIDE DEF q, old
<1>10. HandlerOk(task, S, token, Len(owners), strayed) /\ task.text = text /\ task.rid = rid
  <2>1. "submit" \in Improving
    BY DEF Improving
  <2>2. HandlerOk(task, S, token, Len(owners), strayed)
    BY <1>2, <1>3, <1>4, <1>8, <1>9, <2>1, CallOk
  <2> QED
    BY <2>2, CallSends
<1> HIDE DEF task
<1> QED
  BY <1>1, <1>2, <1>8, <1>10, BeginOk DEF n, S

(* The prompt that is sent again goes under its old id only as it was.     *)
LEMMA ResendOk ==
  ASSUME SessionOk, MakeInv, SessionStays, NEW p \in Pages(Seq(Messages(sent)), Reach),
         NEW key \in Int, IndexOf(p, key) # 0, NEW text \in Texts, ResendOn(p, key, text)
  PROVE  ChatOk' /\ sent \subseteq sent'
<1> DEFINE i == IndexOf(p, key)
           m == p.messages[i]
           id == ThreadOf(p)
           rid == IF LoggedIn THEN RequestId(m, text, asked + 1) ELSE 0
           marked == IF rid = 0 THEN m ELSE [m EXCEPT !.rid = rid, !.sentText = text]
           edited == [marked EXCEPT !.text = text]
           spoilt == IF m.rid # 0 /\ m.sentText = NoText /\ text # m.text THEN {<<m.rid, NoText>>} ELSE {}
           apart == IF LoggedIn THEN {} ELSE spoilt
           there == LoggedIn /\ Backend(p, id) # None /\ m.mode # "follow-up"
           ms == [p.messages EXCEPT ![i] = marked]
           before == SubSeq(p.messages, 1, i - 1)
           q == IF there THEN Updated([p EXCEPT !.messages[i] = marked], id)
                ELSE [p EXCEPT !.messages = Edited(@, i, [marked EXCEPT !.text = text])]
           kind == IF there THEN "edit" ELSE "local"
           old == History(SubSeq(p.messages, 1, i - 1))
           S == SentAfter(rid, text, apart)
           task == Call(kind, q, id, key, text, rid, old)
<1>1. Begin(q, task, request.version, apart)
  BY Zenon DEF ResendOn
<1>2. asked \in Nat /\ id \in Places /\ text # NoText
  BY ThreadOfFacts, TextsAssumption DEF SessionOk
<1>3. i \in DOMAIN p.messages /\ m \in Messages(sent) /\ p.messages \in Seq(Messages(sent))
  BY IndexFacts, PageFacts
<1>4. m.rid \in Nat /\ Vouched(m, sent) /\ m \in Message
  BY <1>3 DEF Messages, Message
<1>5. sent \subseteq (1..asked) \X Phrases
  BY DEF MakeInv, SentOk
<1> HIDE DEF i, id, m
<1>6. /\ rid \in Nat /\ (LoggedIn => rid # 0) /\ (~LoggedIn => rid = 0)
      /\ rid # 0 => rid = asked + 1 \/ <<rid, text>> \in sent \/ <<rid, NoText>> \in sent
  <2>1. CASE m.rid # 0 /\ text = SentAs(m)
    <3>1. RequestId(m, text, asked + 1) = m.rid
      BY <2>1 DEF RequestId
    <3> QED
      BY <1>4, <2>1, <3>1 DEF Vouched
  <2>2. CASE ~(m.rid # 0 /\ text = SentAs(m))
    <3>1. RequestId(m, text, asked + 1) = asked + 1
      BY <2>2 DEF RequestId
    <3>2. asked + 1 \in Nat /\ asked + 1 # 0
      BY <1>2
    <3>3. rid = IF LoggedIn THEN asked + 1 ELSE 0
      BY <3>1
    <3> HIDE DEF rid
    <3> QED
      BY <3>2, <3>3
  <2> QED
    BY <2>1, <2>2
<1>7. apart \in SUBSET ((1..asked) \X {NoText})
  <2>1. m.rid # 0 => m.rid \in 1..asked
    BY <1>4, <1>5, Pairs DEF Vouched
  <2>2. m.rid # 0 => <<m.rid, NoText>> \in (1..asked) \X {NoText}
    BY <2>1, Pairs
  <2> QED
    BY <2>2
<1>8. sent \subseteq S /\ (rid # 0 => <<rid, text>> \in S) /\ (~LoggedIn => spoilt \subseteq S)
  BY DEF SentAfter
<1> HIDE DEF S, rid
<1>9. marked \in Messages(S) /\ edited \in Messages(S)
  <2>1. CASE rid = 0
    <3>1. marked = m /\ m \in Messages(S)
      BY <1>3, <1>8, <2>1, WiderMessages
    <3>2. edited = [m EXCEPT !.text = text] /\ edited \in Message /\ edited.rid = m.rid
          /\ edited.sentText = m.sentText /\ edited.text = text
      BY <1>4, <2>1 DEF Message
    <3> HIDE DEF edited
    <3>3. Vouched(edited, S)
      <4>1. CASE m.sentText # NoText \/ text = m.text
        BY <1>4, <1>8, <3>2, <4>1 DEF Vouched, SentAs
      <4>2. CASE ~(m.sentText # NoText \/ text = m.text)
        BY <1>6, <1>8, <2>1, <3>2, <4>2 DEF Vouched
      <4> QED
        BY <4>1, <4>2
    <3> QED
      BY <3>1, <3>2, <3>3 DEF Messages
  <2>2. CASE rid # 0
    <3> DEFINE x == [m EXCEPT !.rid = rid, !.sentText = text]
    <3>1. x \in Message /\ x.rid = rid /\ x.sentText = text
      BY <1>4, <1>6 DEF Message, Phrases
    <3>2. marked = x
      BY <2>2
    <3> HIDE DEF x, marked
    <3>3. edited \in Message /\ edited.rid = rid /\ edited.sentText = text
      BY <3>1, <3>2 DEF Message
    <3> HIDE DEF edited
    <3>4. \A y \in Message : y.rid = rid /\ y.sentText = text => y \in Messages(S)
      BY <1>2, <1>8, <2>2 DEF Messages, Vouched, SentAs
    <3> QED
      BY <3>1, <3>2, <3>3, <3>4
  <2> QED
    BY <2>1, <2>2
<1>10. None \in Reach /\ Reach \subseteq Places
  BY ReachFacts DEF MakeInv
<1>11. p \in Pages(Seq(Messages(S)), Reach) /\ p.messages \in Seq(Messages(S)) /\ i \in DOMAIN p.messages
  BY <1>3, <1>8, WiderMessages, WiderPages
<1> HIDE DEF marked, there, apart
<1>12. ms \in Seq(Messages(S)) /\ before \in Seq(Messages(S))
  BY <1>9, <1>11
<1>13. Append(before, edited) \in Seq(Messages(S))
  BY <1>9, <1>12
<1>14. q \in Pages(Seq(Messages(S)), Reach)
  <2>1. [p EXCEPT !.messages = ms] \in Pages(Seq(Messages(S)), Reach)
        /\ [p EXCEPT !.messages = Append(before, edited)] \in Pages(Seq(Messages(S)), Reach)
    BY <1>11, <1>12, <1>13, PageEdits, Zenon
  <2>2. [p EXCEPT !.messages[i] = marked] = [p EXCEPT !.messages = ms]
    BY DEF Pages
  <2>3. [p EXCEPT !.messages = Edited(@, i, [marked EXCEPT !.text = text])]
          = [p EXCEPT !.messages = Append(before, edited)]
    BY DEF Edited
  <2> HIDE DEF ms, before, edited
  <2>4. q \in {Updated([p EXCEPT !.messages = ms], id), [p EXCEPT !.messages = Append(before, edited)]}
    BY <2>2, <2>3
  <2>5. Updated([p EXCEPT !.messages = ms], id) \in Pages(Seq(Messages(S)), Reach)
    BY <1>2, <1>10, <2>1, UpdatedPage
  <2> HIDE DEF q
  <2> QED
    BY <2>1, <2>4, <2>5
<1>15. old \in Seq(Messages(S))
  BY <1>12, SentHistory
<1>16. kind \in Improving
  BY DEF Improving
<1> HIDE DEF q, old, kind
<1>17. HandlerOk(task, S, token, Len(owners), strayed) /\ task.text = text /\ task.rid = rid
  <2>1. HandlerOk(task, S, token, Len(owners), strayed)
    BY <1>2, <1>6, <1>8, <1>10, <1>14, <1>15, <1>16, CallOk
  <2> QED
    BY <2>1, CallSends
<1> HIDE DEF task
<1> QED
  BY <1>1, <1>6, <1>7, <1>14, <1>17, BeginOk DEF S

----------------------------------------------------------------------------
(* What the user does on the screen                                        *)

LEMMA SentOkStays ==
  ASSUME SessionOk, MakeInv, sent' = sent, asked' \in {asked, asked + 1}
  PROVE  SentOk'
<1>1. Unmixed(sent, asked) /\ asked \in Nat
  BY DEF MakeInv, SentOk, SessionOk, OneIdOnePrompt, Unmixed
<1>2. Unmixed(sent, asked + 1)
  BY <1>1, LaterSent
<1>3. Unmixed(sent', asked')
  BY <1>1, <1>2
<1> QED
  BY <1>3 DEF SentOk, OneIdOnePrompt, Unmixed

LEMMA SameReach ==
  ASSUME UNCHANGED <<token, owners, threads, strayed>>
  PROVE  Reach' = Reach
  BY DEF Reach, OwnedBy, Owner

LEMMA EditOk ==
  ASSUME SessionOk, MakeInv, SessionStays, strayed => strayed', sent' = sent, threads' = threads,
         asked' \in {asked, asked + 1}, page' \in Pages(Seq(Messages(sent)), Reach'),
         \A t \in tasks' : t \in tasks \/ HandlerOk(t, sent, token, Len(owners), strayed')
  PROVE  ChatOk' /\ sent \subseteq sent'
<1>1. token' = token /\ owners' = owners
  BY DEF SessionStays
<1>2. Grows
  <2>1. Len(owners) \in Nat /\ Len(owners) <= Len(owners)
    <3>1. Len(owners) \in Nat
      BY DEF SessionOk
    <3> QED
      BY <3>1
  <2>2. ThreadsGrow
    BY DEF ThreadsGrow
  <2> QED
    BY <1>1, <2>1, <2>2 DEF Grows
<1>3. PageOk'
  BY DEF PageOk
<1>4. ThreadsOk'
  BY DEF ThreadsOk, MakeInv
<1>5. TasksOk'
  BY <1>1, <1>2, GrowingKeeps DEF TasksOk
<1>6. SentOk'
  BY SentOkStays
<1> QED
  BY <1>3, <1>4, <1>5, <1>6 DEF ChatOk

(* The open conversation changes, or the list.                             *)
LEMMA TurnOk ==
  ASSUME SessionOk, MakeInv, SessionStays, Moves, UNCHANGED <<tasks, threads, asked, sent>>,
         page' \in Pages(Seq(Messages(sent)), Reach)
  PROVE  ChatOk' /\ sent \subseteq sent'
<1>1. strayed => strayed'
  BY DEF Moves
<1>2. Reach \subseteq Reach'
  <2>1. ThreadsGrow
    BY DEF ThreadsGrow
  <2> QED
    BY <1>1, <2>1, ReachGrows DEF MakeInv, SessionStays
<1>3. page' \in Pages(Seq(Messages(sent)), Reach')
  BY <1>2, WiderPages
<1> QED
  BY <1>1, <1>3, EditOk

LEMMA ReachNow ==
  ASSUME MakeInv
  PROVE  /\ page \in Pages(Seq(Messages(sent)), Reach) /\ None \in Reach /\ Reach \subseteq Places
         /\ None \in Places /\ <<>> \in Seq(Messages(sent)) /\ NoText \in Phrases
  BY ReachFacts DEF MakeInv, PageOk, Phrases, None, Places

LEMMA OpenOk ==
  ASSUME SessionOk, MakeInv, NEW i, OpenThread(i)
  PROVE  ChatOk' /\ sent \subseteq sent'
<1>1. SessionStays /\ Moves /\ UNCHANGED <<tasks, threads, asked, sent>>
  BY DEF OpenThread
<1>2. page' = Opened(page, page.recent[i]) /\ i \in DOMAIN page.recent
  BY DEF OpenThread
<1>3. page' \in Pages(Seq(Messages(sent)), Reach)
  BY <1>2, ReachNow, PageFacts, OpenedPage
<1> QED
  BY <1>1, <1>3, TurnOk

LEMMA NewOk ==
  ASSUME SessionOk, MakeInv, NewChat \/ \E i : NewChatFromConflict(i)
  PROVE  ChatOk' /\ sent \subseteq sent'
<1>1. SessionStays /\ Moves /\ UNCHANGED <<tasks, threads, asked, sent>>
  BY DEF NewChat, NewChatFromConflict
<1>2. \/ page' = BlankChat(page)
      \/ \E i \in DOMAIN page.messages : page' = [BlankChat(page) EXCEPT !.draft = page.messages[i].text]
  BY Zenon DEF NewChat, NewChatFromConflict
<1>3. BlankChat(page) \in Pages(Seq(Messages(sent)), Reach)
  BY ReachNow, BlankedPage, MessagesAreStories
<1>4. \A i \in DOMAIN page.messages : page.messages[i].text \in Phrases
  BY ReachNow, PageMessages, MessageFacts DEF Phrases
<1>5. \A x \in Phrases : [BlankChat(page) EXCEPT !.draft = x] \in Pages(Seq(Messages(sent)), Reach)
  BY <1>3, PageEdits
<1>6. page' \in Pages(Seq(Messages(sent)), Reach)
  BY <1>2, <1>3, <1>4, <1>5
<1> QED
  BY <1>1, <1>6, TurnOk

LEMMA SubmitsOk ==
  ASSUME SessionOk, MakeInv, NEW text \in Texts, Submit(text)
  PROVE  ChatOk' /\ sent \subseteq sent'
  BY ReachNow, SubmitOk DEF Submit

LEMMA ResendsOk ==
  ASSUME SessionOk, MakeInv, NEW i \in DOMAIN page.messages, NEW text \in Texts,
         Resend(page.messages[i].key, text)
  PROVE  ChatOk' /\ sent \subseteq sent'
<1>1. page.messages[i].key \in Int
  BY ReachNow, PageMessages, MessageFacts
<1>2. SessionStays /\ IndexOf(page, page.messages[i].key) # 0 /\ ResendOn(page, page.messages[i].key, text)
  BY DEF Resend
<1> QED
  BY <1>1, <1>2, ReachNow, ResendOk

(* A failed answer is asked for again.                                     *)
LEMMA RetryOk ==
  ASSUME SessionOk, MakeInv, NEW i, RetryConcurrent(i)
  PROVE  ChatOk' /\ sent \subseteq sent'
<1> DEFINE m == page.messages[i]
           rest == {j \in DOMAIN page.messages : page.messages[j].key # m.key \/ page.messages[j].by # "user"}
           left1 == Keep(page.messages, rest)
           q == [page EXCEPT !.messages = left1, !.draft = m.text]
           p == Updated(q, q.open)
<1>1. i \in DOMAIN page.messages /\ SessionStays
  BY DEF RetryConcurrent
<1>2. \/ page' = p /\ Moves /\ UNCHANGED <<tasks, threads, asked, sent>>
      \/ IndexOf(p, m.target) # 0 /\ ResendOn(p, m.target, m.text)
      \/ SubmitOn(p, m.text)
  BY Zenon DEF RetryConcurrent
<1>3. m.text \in Texts /\ m.target \in Int /\ m.text \in Phrases
  BY <1>1, ReachNow, PageMessages, MessageFacts DEF Phrases
<1>4. left1 \in Seq(Messages(sent))
  BY ReachNow, PageFacts, KeptOf
<1> HIDE DEF left1, m
<1>5. [[page EXCEPT !.messages = left1] EXCEPT !.draft = m.text] \in Pages(Seq(Messages(sent)), Reach)
  BY <1>3, <1>4, ReachNow, PageEdits
<1>6. q \in Pages(Seq(Messages(sent)), Reach)
  BY <1>5
<1> HIDE DEF q
<1>7. p \in Pages(Seq(Messages(sent)), Reach)
  BY <1>6, ReachNow, PageFacts, UpdatedPage
<1> HIDE DEF p
<1> QED
  BY <1>1, <1>2, <1>3, <1>7, TurnOk, ResendOk, SubmitOk

----------------------------------------------------------------------------
(* Answers                                                                 *)

LEMMA SessionAfterwards ==
  ASSUME NEW why, SessionAfter(why)
  PROVE  Ends /\ (~(why = "auth" /\ LoggedIn) => SessionStays)
  BY DEF SessionAfter, Ends

LEMMA AnswerOk ==
  ASSUME SessionOk, MakeInv, NEW t \in tasks, Applies(t), Ends, sent' = sent,
         asked' \in {asked, asked + 1},
         threads' \in Seq(Keeps(Messages(sent))), ThreadsGrow,
         page' \in Pages(Seq(Messages(sent)), Reach'),
         \A u \in tasks' : \/ u \in tasks
                           \/ SessionStays /\ HandlerOk(u, sent, token, Len(owners), strayed')
  PROVE  ChatOk' /\ sent \subseteq sent'
<1>1. strayed => strayed'
  BY DEF Applies
<1>2. token' # token /\ tasks' # {} => strayed'
  BY DEF Applies
<1>3. Len(owners) \in Nat /\ owners' = owners
  BY DEF SessionOk, Ends, SignOut, SessionStays
<1>4. ASSUME NEW u \in tasks' PROVE HandlerOk(u, sent', token', Len(owners'), strayed')
  <2>1. strayed' \/ token' = token
    BY <1>2
  <2>2. CASE u \in tasks
    <3>1. HandlerOk(u, sent, token, Len(owners), strayed)
      BY <2>2 DEF MakeInv, TasksOk
    <3>2. Len(owners) <= Len(owners) /\ sent \subseteq sent'
      BY <1>3
    <3> QED
      BY <1>1, <1>3, <2>1, <3>1, <3>2, HandlerStays
  <2>3. CASE u \notin tasks
    BY <1>3, <2>3 DEF SessionStays
  <2> QED
    BY <2>2, <2>3
<1>5. TasksOk'
  BY <1>4 DEF TasksOk
<1>6. PageOk' /\ ThreadsOk'
  BY DEF PageOk, ThreadsOk
<1>7. SentOk'
  BY SentOkStays
<1> QED
  BY <1>5, <1>6, <1>7 DEF ChatOk

(* While the session stays, the page it found is as good afterwards.       *)
LEMMA ReachAfter ==
  ASSUME SessionOk, MakeInv, NEW t, Applies(t), SessionStays, ThreadsGrow, sent' = sent
  PROVE  /\ page \in Pages(Seq(Messages(sent)), Reach') /\ Reach \subseteq Reach'
         /\ None \in Reach'
<1>1. strayed => strayed'
  BY DEF Applies
<1>2. Reach \subseteq Reach'
  BY <1>1, ReachGrows DEF MakeInv, SessionStays
<1> QED
  BY <1>2, ReachNow, WiderPages

LEMMA NoneInReach == None \in Reach'
  BY DEF Reach, None, Places

LEMMA OutcomeReach ==
  ASSUME SessionOk, MakeInv, NEW t \in tasks, NEW r, Outcome(r, t, sent), Applies(t), SessionStays,
         threads' = r.after
  PROVE  r.server \in Reach' /\ ThreadsGrow
<1>1. ThreadsGrow
  BY DEF Outcome, ThreadsGrow
<1>2. token' = token /\ owners' = owners /\ (strayed => strayed')
  BY DEF SessionStays, Applies
<1>3. HandlerOk(t, sent, token, Len(owners), strayed)
  BY DEF MakeInv, TasksOk
<1>4. CASE r.server = None
  BY <1>1, <1>4, NoneInReach
<1>5. CASE r.server # None /\ strayed'
  <2>1. r.server \in Places
    <3>1. PICK n \in DOMAIN r.after : r.server = Server(n)
      BY <1>5 DEF Outcome
    <3>2. n \in Int
      BY <3>1, ThreadFacts DEF Outcome
    <3> QED
      BY <3>1, <3>2 DEF Server, Places
  <2> QED
    BY <1>1, <1>5, <2>1 DEF Reach
<1>6. CASE r.server # None /\ ~strayed'
  <2>1. t.token = token
    BY <1>2, <1>3, <1>6 DEF HandlerOk
  <2>2. PICK n \in DOMAIN r.after : token # 0 /\ r.server = Server(n) /\ r.after[n].owner = Owner(token)
    BY <1>6, <2>1 DEF Outcome
  <2>3. n \in OwnedBy(token)'
    BY <1>2, <2>2 DEF OwnedBy, Owner
  <2> QED
    BY <1>1, <1>2, <1>6, <2>2, <2>3 DEF Reach
<1> QED
  BY <1>1, <1>4, <1>5, <1>6

LEMMA AnsweredOk ==
  ASSUME SessionOk, MakeInv, NEW t \in tasks, t.kind \in Improving, Answered(t), Applies(t),
         UNCHANGED <<asked, sent>>
  PROVE  ChatOk' /\ sent \subseteq sent'
<1> DEFINE M == Messages(sent)
           res == Improve(t)
           told == Improved(page, t.id, res.server)
           p == [told EXCEPT !.status = "connected"]
           q0 == IF t.of = "submit" THEN [p EXCEPT !.draft = NoText] ELSE
                 IF IndexOf(p, t.key) # 0 /\ p.messages[IndexOf(p, t.key)].mode = "follow-up"
                 THEN SetMode(p, t.key, "new") ELSE p
           q == [q0 EXCEPT !.messages = Append(@, Reply(t.key, t.text))]
           r == Applied(Updated(q, t.id), t.id)
           sync == IF t.of = "submit" THEN LoggedIn ELSE t.rid # 0
           done == IF sync /\ Backend(r, t.id) # None /\ r.transfer = t.id
                   THEN [r EXCEPT !.transfer = None] ELSE r
           rest == tasks \ {t}
<1>1. SessionStays /\ threads' = res.after
  BY Zenon DEF Answered
<1>2. \/ page' = p /\ tasks' = rest
      \/ page' = p /\ tasks' = rest \cup {Reading(t, "show", p)}
      \/ page' = done /\ tasks' = rest \cup (IF sync THEN {Reading(t, "show", done)} ELSE {})
  BY Zenon DEF Answered
<1>3. HandlerOk(t, sent, token, Len(owners), strayed) /\ Outcome(res, t, sent)
  BY ImproveOutcome DEF MakeInv, TasksOk
<1>4. t.id \in Places /\ t.key \in Int /\ t.text \in Texts
  BY <1>3, HandlerFacts DEF Prompted
<1> HIDE DEF res, sync
<1>5. res.server \in Reach' /\ ThreadsGrow /\ threads' \in Seq(Keeps(M))
  BY <1>1, <1>3, OutcomeReach DEF Outcome
<1>6. page \in Pages(Seq(M), Reach') /\ None \in Reach' /\ None \in Places /\ NoText \in Phrases
  BY <1>1, <1>5, ReachAfter, ReachNow
<1>7. told \in Pages(Seq(M), Reach')
  BY <1>4, <1>5, <1>6, ImprovedPage
<1> HIDE DEF told
<1>8. p \in Pages(Seq(M), Reach')
  BY <1>7, PageEdits
<1> HIDE DEF p
<1>9. q0 \in Pages(Seq(M), Reach')
  <2>1. [p EXCEPT !.draft = NoText] \in Pages(Seq(M), Reach')
    BY <1>6, <1>8, PageEdits
  <2>2. SetMode(p, t.key, "new") \in Pages(Seq(M), Reach')
    BY <1>8, ModeSetPage, MessagesAreStories
  <2> QED
    BY <1>8, <2>1, <2>2
<1> HIDE DEF q0
<1>10. q \in Pages(Seq(M), Reach')
  <2>1. Append(q0.messages, Reply(t.key, t.text)) \in Seq(M)
    BY <1>4, <1>9, PageFacts, RepliedMessage
  <2>2. [q0 EXCEPT !.messages = Append(q0.messages, Reply(t.key, t.text))] \in Pages(Seq(M), Reach')
    BY <1>9, <2>1, PageEdits
  <2> QED
    BY <2>2
<1> HIDE DEF q
<1>11. r \in Pages(Seq(M), Reach')
  <2>1. Updated(q, t.id) \in Pages(Seq(M), Reach')
    BY <1>4, <1>6, <1>10, UpdatedPage
  <2> QED
    BY <1>4, <1>6, <2>1, ImprovedPage
<1> HIDE DEF r
<1>12. done \in Pages(Seq(M), Reach')
  <2>1. [r EXCEPT !.transfer = None] \in Pages(Seq(M), Reach')
    BY <1>6, <1>11, PageEdits
  <2> QED
    BY <1>11, <2>1
<1> HIDE DEF done
<1>13. page' \in Pages(Seq(M), Reach')
  BY <1>2, <1>8, <1>12
<1>14. ThreadsOk /\ Reach' \subseteq Places
  <2>1. ThreadsOk'
    BY <1>5 DEF ThreadsOk
  <2>2. Reach' \subseteq Places
    <3>1. \A n \in OwnedBy(token)' : n \in Int
      BY <1>5, ThreadFacts DEF OwnedBy
    <3> QED
      BY <3>1 DEF Reach, None, Server, Places
  <2> QED
    BY <2>2 DEF MakeInv
<1>15. ASSUME NEW x \in Pages(Seq(M), Reach') PROVE HandlerOk(Reading(t, "show", x), sent, token, Len(owners), strayed')
  <2>1. strayed => strayed'
    BY DEF Applies
  <2>2. HandlerOk(t, sent, token, Len(owners), strayed')
    <3>1. Len(owners) \in Nat /\ sent \subseteq sent
      BY DEF SessionOk
    <3>2. Len(owners) <= Len(owners)
      BY <3>1
    <3> QED
      BY <1>3, <2>1, <3>1, <3>2, HandlerStays
  <2> QED
    BY <1>14, <1>15, <2>2, ReadingOk DEF Prompted
<1>16. \A u \in tasks' : u \in tasks \/ HandlerOk(u, sent, token, Len(owners), strayed')
  <2>1. tasks' \subseteq tasks \cup {Reading(t, "show", p), Reading(t, "show", done)}
    BY <1>2
  <2> QED
    BY <1>8, <1>12, <1>15, <2>1
<1>17. Ends
  BY <1>1 DEF Ends
<1> QED
  BY <1>1, <1>5, <1>13, <1>16, <1>17, AnswerOk

(* The page after a failed call: it is cleared if the session has ended.   *)
LEMMA FailureReach ==
  ASSUME SessionOk, MakeInv, NEW t, Applies(t), NEW why, SessionAfter(why), ThreadsGrow, sent' = sent,
         NEW prompt \in Phrases, NEW status \in {"idle", "checking", "connected", "fallback"}
  PROVE  /\ HandleError(why, page, prompt) \in Pages(Seq(Messages(sent)), Reach')
         /\ HandleError(why, [page EXCEPT !.status = status], prompt) \in Pages(Seq(Messages(sent)), Reach')
<1>1. None \in Reach' /\ asked \in Nat
  BY NoneInReach DEF SessionOk
<1>2. CASE why = "auth" /\ LoggedIn
  <2>1. page \in Pages(Seq(Messages(sent)), Reach)
    BY ReachNow
  <2>2. [page EXCEPT !.status = status] \in Pages(Seq(Messages(sent)), Reach)
    BY <2>1, PageEdits
  <2> QED
    BY <1>1, <1>2, <2>1, <2>2, HandledPage, MessagesAreStories
<1>3. CASE ~(why = "auth" /\ LoggedIn)
  <2>1. page \in Pages(Seq(Messages(sent)), Reach')
    BY <1>3, ReachAfter, SessionAfterwards
  <2>2. [page EXCEPT !.status = status] \in Pages(Seq(Messages(sent)), Reach')
    BY <2>1, PageEdits
  <2> QED
    BY <1>1, <2>1, <2>2, HandledPage, MessagesAreStories
<1> QED
  BY <1>2, <1>3

LEMMA FailsOk ==
  ASSUME SessionOk, MakeInv, NEW t \in tasks, t.kind \in Improving, NEW why, Fails(t, why), Applies(t),
         UNCHANGED <<asked, sent>>, threads' \in {threads, Improve(t).after}
  PROVE  ChatOk' /\ sent \subseteq sent'
<1> DEFINE M == Messages(sent)
           p == HandleError(why, [page EXCEPT !.status = "fallback"], t.text)
           again == HandleError(why, Failed(p, t), t.text)
           rest == tasks \ {t}
           read == {Reading(t, then, p) : then \in {"conflict", "recover", "show"}}
<1>1. /\ SessionAfter(why)
      /\ \/ page' \in {p, again} /\ tasks' = rest
         \/ why # "auth" /\ page' = p /\ \E u \in read \cup {Recent(t.n)} : tasks' = rest \cup {u}
  <2>1. SessionAfter(why)
    BY Zenon DEF Fails
  <2>2. \/ page' = p /\ tasks' = rest
        \/ page' = again /\ tasks' = rest
        \/ /\ why # "auth" /\ page' = p
           /\ \/ \E then \in {"conflict", "recover", "show"} : tasks' = rest \cup {Reading(t, then, p)}
              \/ tasks' = rest \cup {Recent(t.n)}
    BY Zenon DEF Fails
  <2> QED
    BY <2>1, <2>2
<1>2. HandlerOk(t, sent, token, Len(owners), strayed) /\ Outcome(Improve(t), t, sent)
  BY ImproveOutcome DEF MakeInv, TasksOk
<1>3. t.id \in Places /\ t.text \in Phrases /\ t.n \in Nat
  BY <1>2, HandlerFacts
<1>4. ThreadsGrow /\ threads' \in Seq(Keeps(M))
  <2>1. CASE threads' = threads
    BY <2>1 DEF ThreadsGrow, MakeInv, ThreadsOk
  <2>2. CASE threads' = Improve(t).after
    BY <1>2, <2>2 DEF ThreadsGrow, Outcome
  <2> QED
    BY <2>1, <2>2
<1>5. p \in Pages(Seq(M), Reach')
  BY <1>1, <1>3, <1>4, FailureReach
<1>6. again \in Pages(Seq(M), Reach')
  <2>1. None \in Reach' /\ asked \in Nat
    BY NoneInReach DEF SessionOk
  <2>2. Failed(p, t) \in Pages(Seq(M), Reach')
    BY <1>3, <1>5, <2>1, FailedPage, MessagesAreStories
  <2> QED
    BY <1>3, <2>1, <2>2, HandledPage, MessagesAreStories
<1>7. Ends /\ (why # "auth" => SessionStays)
  BY <1>1, SessionAfterwards
<1> HIDE DEF p, again
<1>8. Reach' \subseteq Places
  <2>1. \A n \in OwnedBy(token)' : n \in Int
    BY <1>4, ThreadFacts DEF OwnedBy
  <2> QED
    BY <2>1 DEF Reach, None, Server, Places
<1>9. HandlerOk(t, sent, token, Len(owners), strayed')
  <2>1. strayed => strayed'
    BY DEF Applies
  <2>2. Len(owners) \in Nat /\ sent \subseteq sent
    BY DEF SessionOk
  <2>3. Len(owners) <= Len(owners)
    BY <2>2
  <2> QED
    BY <1>2, <2>1, <2>2, <2>3, HandlerStays
<1>10. \A u \in read \cup {Recent(t.n)} : HandlerOk(u, sent, token, Len(owners), strayed')
  <2>1. ThreadsOk
    BY DEF MakeInv
  <2>2. \A then \in {"conflict", "recover", "show"} :
          HandlerOk(Reading(t, then, p), sent, token, Len(owners), strayed')
    BY <1>5, <1>8, <1>9, <2>1, ReadingOk DEF Prompted
  <2> QED
    BY <1>3, <2>2, RecentOk
<1> HIDE DEF read
<1>11. page' \in Pages(Seq(M), Reach')
  BY <1>1, <1>5, <1>6
<1>12. \A u \in tasks' : u \in tasks \/ (SessionStays /\ HandlerOk(u, sent, token, Len(owners), strayed'))
  BY <1>1, <1>7, <1>10
<1> QED
  BY <1>4, <1>7, <1>11, <1>12, AnswerOk

LEMMA ImproveAnswerOk ==
  ASSUME SessionOk, MakeInv, NEW t, NEW how, ImproveAnswer(t, how)
  PROVE  ChatOk' /\ sent \subseteq sent'
<1>1. t \in tasks /\ t.kind \in Improving /\ Applies(t) /\ UNCHANGED <<asked, sent>>
  BY DEF ImproveAnswer
<1>2. \/ Answered(t)
      \/ threads' \in {threads, Improve(t).after} /\ \E why : Fails(t, why)
  <2>1. \/ Answered(t)
        \/ threads' = threads /\ \E why : Fails(t, why)
        \/ threads' = Improve(t).after /\ \E why : Fails(t, why)
    BY Zenon DEF ImproveAnswer
  <2> QED
    BY <2>1
<1> QED
  BY <1>1, <1>2, AnsweredOk, FailsOk

(* The user stops it.                                                      *)
LEMMA CancelOk ==
  ASSUME SessionOk, MakeInv, NEW t, Cancel(t)
  PROVE  ChatOk' /\ sent \subseteq sent'
<1> DEFINE q == IF t.of = "edit" THEN [page EXCEPT !.draft = t.text] ELSE page
<1>1. /\ t \in tasks /\ t.kind \in Improving /\ Applies(t) /\ UNCHANGED <<asked, sent>> /\ SessionStays
      /\ threads' \in {threads, Improve(t).after} /\ page' = Updated(q, t.id) /\ tasks' = tasks \ {t}
  BY DEF Cancel
<1>2. HandlerOk(t, sent, token, Len(owners), strayed) /\ Outcome(Improve(t), t, sent)
  BY <1>1, ImproveOutcome DEF MakeInv, TasksOk
<1>3. t.id \in Places /\ t.text \in Phrases
  BY <1>2, HandlerFacts
<1>4. ThreadsGrow /\ threads' \in Seq(Keeps(Messages(sent)))
  <2>1. CASE threads' = threads
    BY <2>1 DEF ThreadsGrow, MakeInv, ThreadsOk
  <2>2. CASE threads' = Improve(t).after
    BY <1>2, <2>2 DEF ThreadsGrow, Outcome
  <2> QED
    BY <1>1, <2>1, <2>2
<1>5. page \in Pages(Seq(Messages(sent)), Reach') /\ None \in Reach'
  BY <1>1, <1>4, ReachAfter
<1>6. q \in Pages(Seq(Messages(sent)), Reach')
  BY <1>3, <1>5, PageEdits
<1> HIDE DEF q
<1>7. page' \in Pages(Seq(Messages(sent)), Reach')
  BY <1>1, <1>3, <1>5, <1>6, UpdatedPage
<1>8. Ends /\ \A u \in tasks' : u \in tasks
  BY <1>1 DEF Ends
<1> QED
  BY <1>1, <1>4, <1>7, <1>8, AnswerOk

(* What waited for a conversation goes on.                                 *)
LEMMA GoesOnPage ==
  ASSUME SessionOk, NEW S, NEW V, None \in V, NEW t, t.kind \in {"thread", "list"},
         t.then \in {"conflict", "recover", "show"}, NEW a, HandlerOk(t, S, token, Len(owners), a),
         NEW p \in Pages(Seq(Messages(S)), V), NEW found, GoesOn(t, p, found)
  PROVE  page' \in Pages(Seq(Messages(S)), V) /\ asked' \in {asked, asked + 1}
<1> DEFINE there == found /\ \E i \in DOMAIN p.messages :
                                p.messages[i].by = "user" /\ p.messages[i].text = t.text
           wanted == [p EXCEPT !.draft = t.text]
           noted == Updated(Added(wanted, t.id, Note(t)), t.id)
           back == Restored(p, t)
<1>1. /\ t.id \in Places /\ t.key \in Int /\ t.rid \in Nat /\ t.text \in Texts /\ t.text \in Phrases
      /\ (t.rid # 0 => <<t.rid, t.text>> \in S) /\ t.old \in Seq(Messages(S))
  BY HandlerFacts DEF Prompted
<1>2. noted \in Pages(Seq(Messages(S)), V)
  <2> DEFINE mode == IF t.of = "edit" THEN "edit note" ELSE "note"
             target == IF t.of = "edit" THEN t.key ELSE 0
  <2>1. mode \in Modes /\ target \in Int /\ asked + 1 \in Int
    BY <1>1 DEF Modes, SessionOk
  <2>2. Note(t) = [Ask(asked + 1, t.text, t.rid, mode) EXCEPT !.target = target]
    BY Zenon DEF Note
  <2> HIDE DEF mode, target
  <2>3. Note(t) \in Messages(S)
    BY <1>1, <2>1, <2>2, AskedMessage
  <2>4. wanted \in Pages(Seq(Messages(S)), V)
    BY <1>1, PageEdits
  <2> HIDE DEF wanted
  <2>5. Added(wanted, t.id, Note(t)) \in Pages(Seq(Messages(S)), V)
    BY <1>1, <2>3, <2>4, SaidPage
  <2> QED
    BY <1>1, <2>5, UpdatedPage
<1>3. back \in Pages(Seq(Messages(S)), V) /\ Failed(back, t) \in Pages(Seq(Messages(S)), V)
  <2>1. back \in Pages(Seq(Messages(S)), V)
    BY <1>1, PageEdits DEF Restored
  <2> QED
    BY <1>1, <2>1, FailedPage, MessagesAreStories
<1>4. CASE t.then = "conflict"
  <2>1. page' = noted /\ asked' = asked + 1
    BY <1>4, Zenon DEF GoesOn
  <2> QED
    BY <1>2, <2>1
<1>5. CASE t.then = "recover" /\ ~there
  <2>1. page' = (IF t.of = "edit" THEN back ELSE Failed(back, t)) /\ asked' = asked
    BY <1>5, Zenon DEF GoesOn
  <2> QED
    BY <1>3, <2>1
<1>6. CASE t.then = "show" \/ (t.then = "recover" /\ there)
  <2>1. page' = p /\ asked' = asked
    BY <1>6, Zenon DEF GoesOn
  <2> QED
    BY <2>1
<1> QED
  BY <1>4, <1>5, <1>6

(* A conversation of the asking account, read for the account signed in.   *)
LEMMA FetchedOk ==
  ASSUME SessionOk, MakeInv, NEW t \in tasks, Applies(t), SessionStays, UNCHANGED threads,
         NEW n \in DOMAIN threads, t.token # 0, threads[n].owner = Owner(t.token)
  PROVE  Fetched(Server(n)) \in Talks(Seq(Messages(sent)), Reach')
<1>1. token' = token /\ owners' = owners /\ (strayed => strayed')
  BY DEF SessionStays, Applies
<1>2. threads[n].messages \in Seq(Messages(sent)) /\ n \in Int
  BY ThreadFacts DEF MakeInv, ThreadsOk
<1>3. Server(n) \in Places /\ Server(n)[2] = n
  BY <1>2 DEF Server, Places
<1>4. Server(n) \in Reach'
  <2>1. CASE strayed'
    BY <1>3, <2>1 DEF Reach
  <2>2. CASE ~strayed'
    <3>1. t.token = token
      BY <1>1, <2>2 DEF MakeInv, TasksOk, HandlerOk
    <3>2. n \in OwnedBy(token)'
      BY <1>1, <3>1 DEF OwnedBy, Owner
    <3> QED
      BY <2>2, <3>2 DEF Reach
  <2> QED
    BY <2>1, <2>2
<1>5. Fetched(Server(n)) = [id |-> Server(n), server |-> Server(n), messages |-> threads[n].messages]
  BY <1>3 DEF Fetched
<1> QED
  BY <1>2, <1>3, <1>4, <1>5, TalkFacts

LEMMA AllMineOk ==
  ASSUME SessionOk, MakeInv, NEW t \in tasks, Applies(t), SessionStays, UNCHANGED threads
  PROVE  AllMine(t.token) \in Seq(Talks(Seq(Messages(sent)), Reach'))
<1> DEFINE S == Mine(t.token)
           k == Cardinality(S)
           E == Talks(Seq(Messages(sent)), Reach')
           at(i) == Fetched(Server(Nth(S, k + 1 - i)))
<1>1. threads \in Seq(Keeps(Messages(sent)))
  BY DEF MakeInv, ThreadsOk
<1>2. Len(threads) \in Nat /\ DOMAIN threads = 1..Len(threads)
  BY <1>1
<1>3. S \in SUBSET (1..Len(threads))
  BY <1>2 DEF Mine
<1>4. k \in Nat
  <2>1. IsFiniteSet(1..Len(threads))
    BY <1>2, FS_Interval
  <2>2. IsFiniteSet(S)
    BY <1>3, <2>1, FS_Subset
  <2> QED
    BY <2>2, FS_CardinalityType
<1>5. ASSUME NEW n \in S PROVE Fetched(Server(n)) \in E
  <2>1. n \in DOMAIN threads /\ t.token # 0 /\ threads[n].owner = Owner(t.token)
    BY <1>5 DEF Mine
  <2> QED
    BY <2>1, FetchedOk
<1> HIDE DEF E
<1>6. ASSUME NEW i \in 1..k PROVE at(i) \in E
  <2>1. k + 1 - i \in 1..k
    BY <1>4
  <2>2. Nth(S, k + 1 - i) \in S
    BY <1>2, <1>3, <2>1, NthIsIn
  <2> QED
    BY <1>5, <2>2
<1>7. AllMine(t.token) = [i \in 1..k |-> at(i)]
  BY Zenon DEF AllMine
<1> HIDE DEF at, k
<1>8. [i \in 1..k |-> at(i)] \in Seq(E)
  BY <1>4, <1>6
<1> QED
  BY <1>7, <1>8 DEF E

LEMMA ThreadAnswerOk ==
  ASSUME SessionOk, MakeInv, NEW t, NEW ok, ThreadAnswer(t, ok)
  PROVE  ChatOk' /\ sent \subseteq sent'
<1> DEFINE M == Messages(sent)
           p == IF ok THEN Refreshed(page, t.to) ELSE page
           u == [t EXCEPT !.kind = "list"]
<1>1. t \in tasks /\ t.kind = "thread" /\ SessionStays /\ UNCHANGED <<threads, sent>>
  BY DEF ThreadAnswer
<1>2. HandlerOk(t, sent, token, Len(owners), strayed) /\ t.then \in {"conflict", "recover", "show"}
  BY <1>1 DEF MakeInv, TasksOk, SessionOk
<1>3. \/ tasks' = (tasks \ {t}) \cup {u} /\ UNCHANGED <<page, request, asked, strayed>>
      \/ /\ tasks' = tasks \ {t} /\ Applies(t) /\ GoesOn(t, p, ok)
         /\ ~(ok /\ ~Owned(t, t.to[2]))
  BY Zenon DEF ThreadAnswer
<1>4. CASE tasks' = (tasks \ {t}) \cup {u} /\ UNCHANGED <<page, request, asked, strayed>>
  <2>1. HandlerOk(u, sent, token, Len(owners), strayed)
    <3>1. u \in Handlers(M) /\ u.kind = "list" /\ u.token = t.token /\ u.text = t.text /\ u.rid = t.rid
      BY <1>2 DEF HandlerOk, Handlers
    <3> HIDE DEF u
    <3> QED
      BY <1>1, <1>2, <3>1 DEF HandlerOk, Prompted
  <2>2. Reach' = Reach
    BY <1>1, <1>4, SameReach DEF SessionStays
  <2>3. page' \in Pages(Seq(M), Reach')
    BY <1>4, <2>2, ReachNow
  <2> HIDE DEF u
  <2> QED
    BY <1>1, <1>4, <2>1, <2>3, EditOk
<1>5. CASE tasks' = tasks \ {t} /\ Applies(t) /\ GoesOn(t, p, ok) /\ ~(ok /\ ~Owned(t, t.to[2]))
  <2>1. ThreadsGrow
    BY <1>1 DEF ThreadsGrow
  <2>2. page \in Pages(Seq(M), Reach') /\ None \in Reach'
    BY <1>1, <1>5, <2>1, ReachAfter
  <2>3. p \in Pages(Seq(M), Reach')
    <3>1. CASE ok
      <4>1. t.to = Server(t.to[2])
        <5>1. t.to \in Places /\ t.to[1] = "server"
          BY <1>1, <1>2 DEF HandlerOk, Handlers, OnServer
        <5>2. t.to = <<t.to[1], t.to[2]>>
          BY <5>1, Pairs DEF Places
        <5> QED
          BY <5>1, <5>2 DEF Server
      <4>2. t.to[2] \in DOMAIN threads /\ t.token # 0 /\ threads[t.to[2]].owner = Owner(t.token)
        BY <1>5, <3>1 DEF Owned
      <4>3. Fetched(Server(t.to[2])) \in Talks(Seq(M), Reach')
        BY <1>1, <1>5, <4>2, FetchedOk
      <4>4. Fetched(t.to) \in Talks(Seq(M), Reach')
        BY <4>1, <4>3, Zenon
      <4> QED
        BY <2>2, <3>1, <4>4, ReadBackPage
    <3>2. CASE ~ok
      BY <2>2, <3>2
    <3> QED
      BY <3>1, <3>2
  <2> HIDE DEF p
  <2>4. page' \in Pages(Seq(M), Reach') /\ asked' \in {asked, asked + 1}
    BY <1>1, <1>2, <1>5, <2>2, <2>3, GoesOnPage
  <2>5. Ends /\ threads' \in Seq(Keeps(M)) /\ \A x \in tasks' : x \in tasks
    BY <1>1, <1>5 DEF Ends, MakeInv, ThreadsOk
  <2> QED
    BY <1>1, <1>5, <2>1, <2>4, <2>5, AnswerOk
<1> QED
  BY <1>3, <1>4, <1>5

LEMMA ListAnswerOk ==
  ASSUME SessionOk, MakeInv, NEW t, NEW ok, ListAnswer(t, ok)
  PROVE  ChatOk' /\ sent \subseteq sent'
<1> DEFINE M == Messages(sent)
           p == IF ok /\ t.token # 0 THEN Listed(page, AllMine(t.token)) ELSE page
           found == Known(p, t.to)
           q == IF found THEN Opened(p, Entry(p, t.to)) ELSE p
<1>1. t \in tasks /\ t.kind = "list" /\ SessionStays /\ UNCHANGED <<threads, sent>> /\ tasks' = tasks \ {t}
      /\ Applies(t)
  BY DEF ListAnswer
<1>2. HandlerOk(t, sent, token, Len(owners), strayed) /\ t.then \in {"conflict", "recover", "show"}
  BY <1>1 DEF MakeInv, TasksOk, SessionOk
<1>3. GoesOn(t, q, found)
  BY Zenon DEF ListAnswer
<1>4. ThreadsGrow
  BY <1>1 DEF ThreadsGrow
<1>5. page \in Pages(Seq(M), Reach') /\ None \in Reach'
  BY <1>1, <1>4, ReachAfter
<1>6. AllMine(t.token) \in Seq(Talks(Seq(M), Reach'))
  BY <1>1, AllMineOk
<1>7. p \in Pages(Seq(M), Reach')
  BY <1>5, <1>6, ListedPage, MessagesAreStories
<1> HIDE DEF p
<1>8. q \in Pages(Seq(M), Reach')
  BY <1>7, EntryIsTalk, OpenedPage
<1> HIDE DEF q, found
<1>9. page' \in Pages(Seq(M), Reach') /\ asked' \in {asked, asked + 1}
  BY <1>1, <1>2, <1>3, <1>5, <1>8, GoesOnPage
<1>10. Ends /\ threads' \in Seq(Keeps(M)) /\ \A x \in tasks' : x \in tasks
  BY <1>1 DEF Ends, MakeInv, ThreadsOk
<1> QED
  BY <1>1, <1>4, <1>9, <1>10, AnswerOk

(* The list of the member's conversations, and one of them, arrive.        *)
LEMMA RecentAnswerOk ==
  ASSUME SessionOk, MakeInv, NEW t, NEW how, RecentAnswer(t, how)
  PROVE  ChatOk' /\ sent \subseteq sent'
<1> DEFINE M == Messages(sent)
<1>1. /\ t \in tasks /\ SessionAfter(how) /\ UNCHANGED <<threads, sent, asked>> /\ tasks' = tasks \ {t}
      /\ Applies(t)
  BY DEF RecentAnswer
<1>2. ThreadsGrow /\ Ends /\ threads' \in Seq(Keeps(M)) /\ \A u \in tasks' : u \in tasks
  BY <1>1, SessionAfterwards DEF ThreadsGrow, MakeInv, ThreadsOk
<1>3. CASE how = "ok"
  <2>1. SessionStays /\ page' = Listed(page, AllMine(t.token))
    BY <1>1, <1>3, SessionAfterwards DEF RecentAnswer
  <2>2. page \in Pages(Seq(M), Reach') /\ None \in Reach'
    BY <1>1, <1>2, <2>1, ReachAfter
  <2>3. AllMine(t.token) \in Seq(Talks(Seq(M), Reach'))
    BY <1>1, <2>1, AllMineOk
  <2>4. page' \in Pages(Seq(M), Reach')
    BY <2>1, <2>2, <2>3, ListedPage, MessagesAreStories
  <2> QED
    BY <1>1, <1>2, <2>4, AnswerOk
<1>4. CASE how # "ok"
  <2>1. page' = HandleError(how, page, NoText)
    BY <1>4 DEF RecentAnswer
  <2>2. page' \in Pages(Seq(M), Reach')
    BY <1>1, <1>2, <2>1, ReachNow, FailureReach
  <2> QED
    BY <1>1, <1>2, <2>2, AnswerOk
<1> QED
  BY <1>3, <1>4

LEMMA HydrateAnswerOk ==
  ASSUME SessionOk, MakeInv, NEW t, NEW how, HydrateAnswer(t, how)
  PROVE  ChatOk' /\ sent \subseteq sent'
<1> DEFINE M == Messages(sent)
<1>1. t \in tasks /\ UNCHANGED <<threads, sent, asked>> /\ tasks' = tasks \ {t}
  BY DEF HydrateAnswer
<1>2. ThreadsGrow /\ threads' \in Seq(Keeps(M)) /\ \A u \in tasks' : u \in tasks
  BY <1>1 DEF ThreadsGrow, MakeInv, ThreadsOk
<1>3. CASE t.key # request.version
  <2>1. SessionStays /\ UNCHANGED <<page, strayed>>
    BY <1>3 DEF HydrateAnswer
  <2>2. Reach' = Reach
    BY <1>1, <2>1, SameReach DEF SessionStays
  <2>3. page' \in Pages(Seq(M), Reach')
    BY <2>1, <2>2, ReachNow
  <2> QED
    BY <1>1, <1>2, <2>1, <2>3, EditOk
<1>4. CASE t.key = request.version /\ how = "ok"
  <2>1. /\ SessionAfter(how) /\ Applies(t)
        /\ page' = [Listed(page, AllMine(t.token)) EXCEPT !.status = "connected"]
    BY <1>4 DEF HydrateAnswer
  <2>2. SessionStays /\ Ends
    BY <1>4, <2>1, SessionAfterwards
  <2>3. page \in Pages(Seq(M), Reach') /\ None \in Reach'
    BY <1>1, <1>2, <2>1, <2>2, ReachAfter
  <2>4. AllMine(t.token) \in Seq(Talks(Seq(M), Reach'))
    BY <1>1, <2>1, <2>2, AllMineOk
  <2>5. page' \in Pages(Seq(M), Reach')
    BY <2>1, <2>3, <2>4, ListedPage, MessagesAreStories, PageEdits
  <2> QED
    BY <1>1, <1>2, <2>1, <2>2, <2>5, AnswerOk
<1>5. CASE t.key = request.version /\ how # "ok"
  <2>1. /\ SessionAfter(how) /\ Applies(t)
        /\ page' = [HandleError(how, page, NoText) EXCEPT !.status = "fallback"]
    BY <1>5 DEF HydrateAnswer
  <2>2. Ends
    BY <2>1, SessionAfterwards
  <2>3. HandleError(how, page, NoText) \in Pages(Seq(M), Reach')
    BY <1>1, <1>2, <2>1, ReachNow, FailureReach
  <2>4. page' \in Pages(Seq(M), Reach')
    BY <2>1, <2>3, PageEdits
  <2> QED
    BY <1>1, <1>2, <2>1, <2>2, <2>4, AnswerOk
<1> QED
  BY <1>3, <1>4, <1>5

LEMMA DeleteAnswerOk ==
  ASSUME SessionOk, MakeInv, NEW t, NEW how, DeleteAnswer(t, how)
  PROVE  ChatOk' /\ sent \subseteq sent'
<1> DEFINE M == Messages(sent)
           gone == [threads EXCEPT ![t.key].live = FALSE]
<1>1. /\ t \in tasks /\ UNCHANGED <<sent, asked>> /\ Applies(t) /\ SessionAfter(how)
      /\ threads' = (IF how # "auth" /\ Owned(t, t.key) THEN gone ELSE threads)
      /\ page' = (IF how = "ok" THEN Deleted(page, t.to) ELSE HandleError(how, page, NoText))
      /\ tasks' = (tasks \ {t}) \cup (IF how = "ok" /\ LoggedIn THEN {Recent(0)} ELSE {})
  BY DEF DeleteAnswer
<1>2. threads \in Seq(Keeps(M))
  BY DEF MakeInv, ThreadsOk
<1>3. Owned(t, t.key) =>
        gone \in Seq(Keeps(M)) /\ DOMAIN gone = DOMAIN threads /\ \A n \in DOMAIN threads : gone[n].owner = threads[n].owner
  <2> SUFFICES ASSUME Owned(t, t.key)
               PROVE  gone \in Seq(Keeps(M)) /\ DOMAIN gone = DOMAIN threads
                      /\ \A n \in DOMAIN threads : gone[n].owner = threads[n].owner
    OBVIOUS
  <2> DEFINE e == [threads[t.key] EXCEPT !.live = FALSE]
             new == [threads EXCEPT ![t.key] = e]
  <2>1. t.key \in DOMAIN threads
    BY DEF Owned
  <2>2. e \in Keeps(M) /\ e.owner = threads[t.key].owner
    <3>1. \A x \in Keeps(M) : [x EXCEPT !.live = FALSE] \in Keeps(M) /\ [x EXCEPT !.live = FALSE].owner = x.owner
      BY DEF Keeps
    <3> QED
      BY <1>2, <2>1, <3>1, ThreadFacts
  <2>3. gone = new
    OBVIOUS
  <2> HIDE DEF e, gone
  <2>4. new \in Seq(Keeps(M)) /\ DOMAIN new = DOMAIN threads
        /\ \A n \in DOMAIN threads : new[n].owner = threads[n].owner
    BY <1>2, <2>1, <2>2
  <2> QED
    BY <2>3, <2>4
<1> HIDE DEF gone
<1>4. ThreadsGrow /\ threads' \in Seq(Keeps(M))
  BY <1>1, <1>2, <1>3 DEF ThreadsGrow
<1>5. Ends /\ (how = "ok" => SessionStays)
  BY <1>1, SessionAfterwards
<1>6. page' \in Pages(Seq(M), Reach')
  <2>1. CASE how = "ok"
    <3>1. page \in Pages(Seq(M), Reach')
      BY <1>1, <1>4, <1>5, <2>1, ReachAfter
    <3> QED
      BY <1>1, <2>1, <3>1, DeletedPage, MessagesAreStories
  <2>2. CASE how # "ok"
    BY <1>1, <1>4, <2>2, ReachNow, FailureReach
  <2> QED
    BY <2>1, <2>2
<1>7. \A u \in tasks' : u \in tasks \/ (SessionStays /\ HandlerOk(u, sent, token, Len(owners), strayed'))
  <2>1. HandlerOk(Recent(0), sent, token, Len(owners), strayed')
    BY RecentOk
  <2> QED
    BY <1>1, <1>5, <2>1
<1> QED
  BY <1>1, <1>4, <1>5, <1>6, <1>7, AnswerOk

(* A conversation is deleted.                                              *)
LEMMA DeleteOk ==
  ASSUME SessionOk, MakeInv, NEW i, DeleteThread(i)
  PROVE  ChatOk' /\ sent \subseteq sent'
<1> DEFINE e == page.recent[i]
           b == IF e.server # None THEN e.server ELSE e.id
           call(key, to) == [Recent(0) EXCEPT !.kind = "delete", !.key = key, !.to = to]
<1>1. i \in DOMAIN page.recent /\ SessionStays /\ Moves /\ UNCHANGED <<threads, asked, sent>>
  BY DEF DeleteThread
<1>2. \/ tasks' = tasks \cup {call(b[2], e.id)} /\ page' = page
      \/ page' = Deleted(page, e.id) /\ tasks' = tasks
  BY Zenon DEF DeleteThread
<1>3. e.id \in Places /\ b \in Places
  BY <1>1, ReachNow, PageFacts
<1>4. b[2] \in Int
  BY <1>3, Pairs DEF Places
<1> HIDE DEF e, b
<1>5. HandlerOk(call(b[2], e.id), sent, token, Len(owners), strayed')
  BY <1>3, <1>4, RecentOk
<1> HIDE DEF call
<1>6. page' \in Pages(Seq(Messages(sent)), Reach)
  BY <1>2, ReachNow, DeletedPage, MessagesAreStories
<1>7. strayed => strayed'
  BY <1>1 DEF Moves
<1>8. page' \in Pages(Seq(Messages(sent)), Reach')
  <2>1. ThreadsGrow
    BY <1>1 DEF ThreadsGrow
  <2>2. Reach \subseteq Reach'
    BY <1>1, <1>7, <2>1, ReachGrows DEF MakeInv, SessionStays
  <2> QED
    BY <1>6, <2>2, WiderPages
<1>9. \A u \in tasks' : u \in tasks \/ HandlerOk(u, sent, token, Len(owners), strayed')
  BY <1>2, <1>5
<1> QED
  BY <1>1, <1>7, <1>8, <1>9, EditOk

LEMMA HydrateOk ==
  ASSUME SessionOk, MakeInv, Hydrate
  PROVE  ChatOk' /\ sent \subseteq sent'
<1> DEFINE call == [Recent(0) EXCEPT !.kind = "hydrate", !.key = request.version]
<1>1. SessionStays /\ UNCHANGED <<threads, asked, sent, strayed>>
  BY DEF Hydrate
<1>2. /\ \E s \in {"checking", "fallback"} : page' = [page EXCEPT !.status = s]
      /\ tasks' = tasks \/ tasks' = tasks \cup {call}
  BY Zenon DEF Hydrate
<1>3. HandlerOk(call, sent, token, Len(owners), strayed')
  <2>1. request.version \in Int
    BY DEF SessionOk
  <2> QED
    BY <2>1, RecentOk
<1>4. Reach' = Reach
  BY <1>1, SameReach DEF SessionStays
<1>5. page' \in Pages(Seq(Messages(sent)), Reach')
  <2>1. \A s \in {"checking", "fallback"} : [page EXCEPT !.status = s] \in Pages(Seq(Messages(sent)), Reach)
    BY ReachNow, PageEdits
  <2> QED
    BY <1>2, <1>4, <2>1
<1> HIDE DEF call
<1>6. \A u \in tasks' : u \in tasks \/ HandlerOk(u, sent, token, Len(owners), strayed')
  BY <1>2, <1>3
<1> QED
  BY <1>1, <1>5, <1>6, EditOk

----------------------------------------------------------------------------
(* The session comes and goes                                              *)

LEMMA SessionTurnOk ==
  ASSUME SessionOk, MakeInv, Moves, UNCHANGED <<tasks, threads, asked, sent>>,
         Len(owners) <= Len(owners'), Len(owners') \in Nat,
         page' \in Pages(Seq(Messages(sent)), Reach')
  PROVE  ChatOk' /\ sent \subseteq sent'
<1>1. (strayed => strayed') /\ (tasks # {} => strayed')
  BY DEF Moves
<1>2. ASSUME NEW t \in tasks PROVE HandlerOk(t, sent', token', Len(owners'), strayed')
  <2>1. HandlerOk(t, sent, token, Len(owners), strayed) /\ strayed' /\ Len(owners) \in Nat /\ sent \subseteq sent'
    BY <1>1, <1>2 DEF MakeInv, TasksOk, SessionOk
  <2> QED
    BY <1>1, <2>1, HandlerStays
<1>3. TasksOk' /\ PageOk' /\ ThreadsOk'
  BY <1>2 DEF TasksOk, PageOk, ThreadsOk, MakeInv
<1>4. SentOk'
  BY SentOkStays
<1> QED
  BY <1>3, <1>4 DEF ChatOk

LEMMA SignInOk ==
  ASSUME SessionOk, MakeInv, ~LoggedIn, NEW a, SignIn(a), ChatSignIn
  PROVE  ChatOk' /\ sent \subseteq sent'
<1>1. Moves /\ UNCHANGED <<tasks, threads, asked, sent>> /\ page' = [page EXCEPT !.status = "idle"]
  BY DEF ChatSignIn
<1>2. Len(owners) <= Len(owners') /\ Len(owners') \in Nat
  <2>1. Len(owners') = Len(owners) + 1 /\ Len(owners) \in Nat
    BY DEF SignIn, SessionOk
  <2> QED
    BY <2>1
<1>3. Reach \subseteq Reach'
  <2>1. strayed => strayed'
    BY <1>1 DEF Moves
  <2>2. OwnedBy(token) = {}
    BY DEF OwnedBy, LoggedIn
  <2>3. ~strayed => Reach = {None}
    BY <2>2 DEF Reach
  <2> QED
    BY <2>1, <2>3, ReachNow, NoneInReach DEF Reach
<1>4. page' \in Pages(Seq(Messages(sent)), Reach')
  <2>1. page \in Pages(Seq(Messages(sent)), Reach')
    BY <1>3, ReachNow, WiderPages
  <2> QED
    BY <1>1, <2>1, PageEdits
<1> QED
  BY <1>1, <1>2, <1>4, SessionTurnOk

LEMMA SignOutOk ==
  ASSUME SessionOk, MakeInv, owners' = owners, ChatSignOut \/ ChatExpired
  PROVE  ChatOk' /\ sent \subseteq sent'
<1>1. Moves /\ UNCHANGED <<tasks, threads, asked, sent>> /\ (page' = Cleared(page) \/ page' = Expired(page, NoText))
  BY DEF ChatSignOut, ChatExpired
<1>2. Len(owners) <= Len(owners') /\ Len(owners') \in Nat
  <2>1. Len(owners) \in Nat
    BY DEF SessionOk
  <2> QED
    BY <2>1
<1>3. page' \in Pages(Seq(Messages(sent)), Reach')
  BY <1>1, ReachNow, NoneInReach, ClearedPage, MessagesAreStories, ExpiredPage DEF SessionOk
<1> QED
  BY <1>1, <1>2, <1>3, SessionTurnOk

LEMMA UnloadOk ==
  ASSUME SessionOk, MakeInv, Ends, ChatUnload
  PROVE  ChatOk' /\ sent \subseteq sent'
<1> DEFINE q == IF token' = token THEN page ELSE Cleared(page)
<1>1. /\ tasks' = {} /\ UNCHANGED <<threads, asked, strayed, sent>>
      /\ page' = [q EXCEPT !.improved = <<None, None>>, !.status = "idle"]
  BY DEF ChatUnload
<1>2. None \in Reach'
  BY NoneInReach
<1>3. q \in Pages(Seq(Messages(sent)), Reach')
  <2>1. CASE token' = token
    <3>1. Reach' = Reach
      BY <1>1, <2>1, SameReach DEF Ends, SessionStays, SignOut
    <3> QED
      BY <2>1, <3>1, ReachNow
  <2>2. CASE token' # token
    BY <1>2, <2>2, ReachNow, ClearedPage, MessagesAreStories
  <2> QED
    BY <2>1, <2>2
<1> HIDE DEF q
<1>4. <<None, None>> \in Places \X Reach'
  BY <1>2, ReachNow, Pairs
<1>5. [[q EXCEPT !.improved = <<None, None>>] EXCEPT !.status = "idle"] \in Pages(Seq(Messages(sent)), Reach')
  BY <1>3, <1>4, PageEdits
<1>6. PageOk'
  BY <1>1, <1>5 DEF PageOk
<1>7. TasksOk' /\ ThreadsOk'
  BY <1>1 DEF TasksOk, ThreadsOk, MakeInv
<1>8. SentOk'
  BY <1>1, SentOkStays
<1> QED
  BY <1>1, <1>6, <1>7, <1>8 DEF ChatOk

----------------------------------------------------------------------------
(* The folders' handlers                                                   *)

(* A handler that goes on keeps its session and the messages it took up.   *)
Same(d, c) == DOMAIN d = DOMAIN c /\ d.token = c.token /\ d.said = c.said

LEMMA ChoreEdits ==
  ASSUME NEW c, ChoreFields \subseteq DOMAIN c
  PROVE  /\ \A x : Same([c EXCEPT !.holdsFolder = x], c) /\ Same([c EXCEPT !.crossed = x], c)
         /\ \A x, y : Same([c EXCEPT !.kind = x, !.to = y], c) /\ Same([c EXCEPT !.target = x, !.made = y], c)
         /\ \A x, y, z : Same([c EXCEPT !.kind = x, !.to = y, !.stored = z], c)
         /\ Same(Moving(c), c)
<1>1. \A x, y : Same([c EXCEPT !.kind = x, !.to = y], c)
  BY DEF Same, ChoreFields
<1>2. Same(Moving(c), c)
  BY <1>1, Zenon DEF Moving
<1>3. \A x : Same([c EXCEPT !.holdsFolder = x], c) /\ Same([c EXCEPT !.crossed = x], c)
  BY DEF Same, ChoreFields
<1>4. \A x, y : Same([c EXCEPT !.target = x, !.made = y], c)
  BY DEF Same, ChoreFields
<1>5. \A x, y, z : Same([c EXCEPT !.kind = x, !.to = y, !.stored = z], c)
  BY DEF Same, ChoreFields
<1> QED
  BY <1>1, <1>2, <1>3, <1>4, <1>5

LEMMA ChoresGoOn ==
  ASSUME SessionOk, MakeInv, sent \subseteq sent', Len(owners) <= Len(owners'), Len(owners') \in Nat,
         \A d \in chores' : ChoreOk(d, sent, Len(owners)) \/ \E c \in chores : Same(d, c)
  PROVE  ChoresOk'
<1> SUFFICES ASSUME NEW d \in chores' PROVE ChoreOk(d, sent', Len(owners'))
  BY DEF ChoresOk
<1>1. ChoreOk(d, sent, Len(owners))
  <2>1. ASSUME NEW c \in chores, Same(d, c) PROVE ChoreOk(d, sent, Len(owners))
    BY <2>1 DEF MakeInv, ChoresOk, ChoreOk, Same
  <2> QED
    BY <2>1
<1>2. Len(owners) \in Nat
  BY DEF SessionOk
<1> QED
  BY <1>1, <1>2, ChoreStays

(* What the panel does when the conversation takes a step.                 *)
FoldersMove ==
  \/ \E heard : FoldersHear(heard)
  \/ \E t, listed, got : FoldersHydrated(t, listed, got)
  \/ FoldersSignOut \/ FoldersUnload \/ UNCHANGED chores

LEMMA MovingKeepsOn ==
  ASSUME MakeInv, FoldersMove
  PROVE  \A d \in chores' : \E c \in chores : Same(d, c)
<1>1. \A c \in chores : ChoreFields \subseteq DOMAIN c /\ Same(c, c)
  BY DEF MakeInv, ChoresOk, ChoreOk, Same
<1>2. ASSUME NEW ids, NEW folders, NEW d \in Dropped(ids, folders) PROVE \E c \in chores : Same(d, c)
  <2>1. PICK c \in chores :
          d = [c EXCEPT !.holdsThread = @ /\ c.thread \notin ids, !.holdsFolder = @ /\ ~folders]
    BY <1>2, Zenon DEF Dropped
  <2>2. Same([c EXCEPT !.holdsThread = @ /\ c.thread \notin ids, !.holdsFolder = @ /\ ~folders], c)
    BY <1>1 DEF Same, ChoreFields
  <2> QED
    BY <2>1, <2>2
<1>3. \/ \E ids, folders : chores' = Dropped(ids, folders)
      \/ chores' = chores \/ chores' = {}
  <2>1. ASSUME NEW heard, FoldersHear(heard) PROVE \E ids, folders : chores' = Dropped(ids, folders)
    BY <2>1, Zenon DEF FoldersHear
  <2>2. ASSUME NEW t, NEW listed, NEW got, FoldersHydrated(t, listed, got)
        PROVE  \E ids, folders : chores' = Dropped(ids, folders)
    BY <2>2, Zenon DEF FoldersHydrated
  <2>3. FoldersSignOut \/ FoldersUnload => chores' = chores \/ chores' = {}
    BY Zenon DEF FoldersSignOut, FoldersUnload
  <2> QED
    BY <2>1, <2>2, <2>3 DEF FoldersMove
<1> QED
  BY <1>1, <1>2, <1>3

LEMMA MovingKeepsChores ==
  ASSUME SessionOk, MakeInv, sent \subseteq sent', Len(owners) <= Len(owners'), Len(owners') \in Nat,
         FoldersMove
  PROVE  ChoresOk'
  BY MovingKeepsOn, ChoresGoOn

(* A handler begins: it takes up a conversation that is on the page.       *)
LEMMA SaidOk ==
  ASSUME MakeInv, NEW thread \in {None} \cup Ids(page)
  PROVE  Said(thread) \in Seq(Messages(sent))
<1>1. <<>> \in Seq(Messages(sent)) /\ page.messages \in Seq(Messages(sent))
      /\ page \in Pages(Seq(Messages(sent)), Reach)
  BY ReachNow, PageFacts
<1>2. ASSUME thread # None PROVE Entry(page, thread).messages \in Seq(Messages(sent))
  <2>1. PICK i \in DOMAIN page.recent : page.recent[i].id = thread
    BY <1>2 DEF Ids
  <2>2. Known(page, thread)
    BY <1>2, <2>1 DEF Known, Called
  <2> QED
    BY <1>1, <2>2, EntryIsTalk, TalkFacts
<1> QED
  BY <1>1, <1>2 DEF Said

(* A handler that sets out with the messages of a listed conversation.      *)
TakenUp(c) == ChoreOk(c, sent, Len(owners)) /\ \E thread \in {None} \cup Ids(page) : c.said = Said(thread)

LEMMA ChoreFresh ==
  ASSUME SessionOk, MakeInv, LoggedIn, NEW thread \in {None} \cup Ids(page),
         NEW kind, NEW d, NEW f, NEW name, NEW to, NEW back
  PROVE  TakenUp(Chore(kind, d, f, name, thread, to, back))
<1>1. \A x, y, z, u :
        LET c == [kind |-> kind, n |-> x, token |-> token, folder |-> f, target |-> y, name |-> name,
                  thread |-> thread, to |-> to, back |-> back, made |-> FALSE, stored |-> FALSE,
                  crossed |-> FALSE, holdsThread |-> TRUE, holdsFolder |-> TRUE, said |-> z, was |-> u]
        IN  ChoreFields \subseteq DOMAIN c /\ c.token = token /\ c.said = z
  BY DEF ChoreFields
<1>2. LET c == Chore(kind, d, f, name, thread, to, back)
      IN  ChoreFields \subseteq DOMAIN c /\ c.token = token /\ c.said = Said(thread)
  BY <1>1, Zenon DEF Chore
<1>3. token \in 1..Len(owners)
  BY DEF LoggedIn, SessionOk
<1> QED
  BY <1>2, <1>3, SaidOk DEF ChoreOk, TakenUp

LEMMA FoldersEventIs ==
  ASSUME SessionOk, MakeInv,
         \/ \E f \in drawer.folders : FolderButtons(f)
         \/ \E f : OpenFolder(f)
         \/ \E name, thread : CreateFolder(name, thread)
         \/ \E id : ThreadMenu(id)
  PROVE  \A d \in chores' : TakenUp(d) \/ \E c \in chores : Same(d, c)
<1>1. \A c \in chores : Same(c, c)
  BY DEF Same
<1>2. None \in {None} \cup Ids(page)
  OBVIOUS
<1>3. ASSUME NEW f, OpenFolder(f) PROVE chores' = chores
  BY <1>3, Zenon DEF OpenFolder
<1>4. ASSUME NEW name, NEW thread, CreateFolder(name, thread)
      PROVE  \E c : chores' = chores \cup {c} /\ TakenUp(c)
  <2>1. LoggedIn /\ thread \in {None} \cup Ids(page)
    BY <1>4, Zenon DEF CreateFolder, Guarded
  <2>2. \E d, f, back : chores' = chores \cup {Chore("create", d, f, name, thread, None, back)}
    BY <1>4, Zenon DEF CreateFolder
  <2> QED
    BY <2>1, <2>2, ChoreFresh
<1>5. ASSUME NEW f, NEW name, RenameFolder(f, name)
      PROVE  chores' = chores \/ \E c : chores' = chores \cup {c} /\ TakenUp(c)
  <2>1. LoggedIn /\ (chores' = chores
                     \/ \E d : chores' = chores \cup {Chore("rename", d, f.id, name, None, None, None)})
    BY <1>5, Zenon DEF RenameFolder, Guarded
  <2> QED
    BY <1>2, <2>1, ChoreFresh
<1>6. ASSUME NEW f, DeleteFolder(f)
      PROVE  chores' = chores \/ \E c : chores' = chores \cup {c} /\ TakenUp(c)
  <2>1. LoggedIn /\ (chores' = chores
                     \/ \E d : chores' = chores \cup {Chore("delete", d, f.id, NoText, None, None, None)})
    BY <1>6, Zenon DEF DeleteFolder, Guarded
  <2> QED
    BY <1>2, <2>1, ChoreFresh
<1>7. ASSUME NEW id, NEW f, Move(id, f)
      PROVE  \E c : chores' = chores \cup {c} /\ TakenUp(c)
  <2>1. LoggedIn /\ id \in {None} \cup Ids(page)
    BY <1>7, Zenon DEF Move, Guarded
  <2>2. PICK d, back : chores' = chores \cup {Moving(Chore("move", d, f, NoText, id, None, back))}
    BY <1>7, Zenon DEF Move
  <2> DEFINE c == Chore("move", d, f, NoText, id, None, back)
  <2>3. TakenUp(c)
    BY <2>1, ChoreFresh
  <2> HIDE DEF c
  <2>4. Same(Moving(c), c)
    BY <2>3, ChoreEdits DEF ChoreOk, TakenUp
  <2>5. TakenUp(Moving(c))
    BY <2>3, <2>4 DEF ChoreOk, Same, TakenUp
  <2> QED
    BY <2>2, <2>5 DEF c
<1> QED
  BY <1>1, <1>3, <1>4, <1>5, <1>6, <1>7 DEF FolderButtons, ThreadMenu

LEMMA FoldersEventOk ==
  ASSUME SessionOk, MakeInv, UNCHANGED chatVars, SessionStays,
         \/ \E f \in drawer.folders : FolderButtons(f)
         \/ \E f : OpenFolder(f)
         \/ \E name, thread : CreateFolder(name, thread)
         \/ \E id : ThreadMenu(id)
  PROVE  MakeInv'
<1>1. \A d \in chores' : ChoreOk(d, sent, Len(owners)) \/ \E c \in chores : Same(d, c)
  BY FoldersEventIs DEF TakenUp
<1>2. ChatOk' /\ sent \subseteq sent'
  BY EditOk, ReachNow, SameReach DEF chatVars, SessionStays
<1>3. Len(owners') \in Nat /\ Len(owners) <= Len(owners')
  <2>1. Len(owners) \in Nat /\ owners' = owners
    BY DEF SessionOk, SessionStays
  <2> QED
    BY <2>1
<1> QED
  BY <1>1, <1>2, <1>3, ChoresGoOn DEF MakeInv, ChatOk

(* What is stored is a history of messages; the ids it breaks are set apart. *)
LEMMA StoredMessage ==
  ASSUME NEW S, NEW T, S \subseteq T, NEW m \in Messages(S),
         m.rid # 0 /\ SentAs(m) # m.text => <<m.rid, NoText>> \in T
  PROVE  [m EXCEPT !.mode = "new", !.sentText = NoText] \in Messages(T)
<1> DEFINE x == [m EXCEPT !.mode = "new", !.sentText = NoText]
<1>1. m \in Message /\ (m.rid # 0 => <<m.rid, SentAs(m)>> \in T \/ <<m.rid, NoText>> \in T)
  BY DEF Messages, Vouched
<1>2. x \in Message /\ x.rid = m.rid /\ x.text = m.text /\ x.sentText = NoText
  BY <1>1 DEF Message, Phrases, Modes
<1> HIDE DEF x
<1>3. x.rid # 0 => <<x.rid, SentAs(x)>> \in T \/ <<x.rid, NoText>> \in T
  <2>1. SentAs(x) = m.text
    BY <1>2 DEF SentAs
  <2> QED
    BY <1>1, <1>2, <2>1
<1>4. x \in Messages(T)
  BY <1>2, <1>3 DEF Messages, Vouched
<1> QED
  BY <1>4 DEF x

LEMMA SpoiltApart ==
  ASSUME SessionOk, MakeInv, NEW ms \in Seq(Messages(sent))
  PROVE  /\ Spoilt(ms) \in SUBSET ((1..asked) \X {NoText})
         /\ \A i \in DOMAIN ms : ms[i].rid # 0 /\ SentAs(ms[i]) # ms[i].text => <<ms[i].rid, NoText>> \in Spoilt(ms)
<1>1. ASSUME NEW i \in DOMAIN ms, ms[i].rid # 0 PROVE <<ms[i].rid, NoText>> \in (1..asked) \X {NoText}
  <2>1. ms[i] \in Messages(sent)
    OBVIOUS
  <2>2. ms[i].rid \in 1..asked
    <3>1. \E x : <<ms[i].rid, x>> \in sent
      BY <1>1, <2>1 DEF Messages, Vouched
    <3>2. sent \subseteq (1..asked) \X Phrases
      BY DEF MakeInv, SentOk
    <3> QED
      BY <3>1, <3>2, Pairs
  <2> QED
    BY <2>2, Pairs
<1>2. Spoilt(ms) \subseteq (1..asked) \X {NoText}
  BY <1>1, Zenon DEF Spoilt
<1>3. \A i \in DOMAIN ms : ms[i].rid # 0 /\ SentAs(ms[i]) # ms[i].text => <<ms[i].rid, NoText>> \in Spoilt(ms)
  BY Zenon DEF Spoilt
<1> QED
  BY <1>2, <1>3

(* A conversation is stored at the server for a folder's sake.             *)
LEMMA StoreOk ==
  ASSUME SessionOk, MakeInv, NEW c \in chores, Store(c), SessionStays, strayed => strayed'
  PROVE  /\ Grows /\ SentOk' /\ ThreadsOk' /\ TasksOk' /\ sent \subseteq sent'
         /\ page \in Pages(Seq(Messages(sent')), Reach') /\ None \in Reach'
         /\ strayed' \/ token = c.token => Server(Len(threads) + 1) \in Reach'
<1> DEFINE k == Len(threads) + 1
           stored(m) == [m EXCEPT !.mode = "new", !.sentText = NoText]
           ms == [i \in DOMAIN c.said |-> stored(c.said[i])]
           new == [owner |-> Owner(c.token), live |-> TRUE, first |-> 0, messages |-> ms]
<1>1. threads' = Append(threads, new) /\ sent' = sent \cup Spoilt(c.said) /\ UNCHANGED <<tasks, asked>>
  BY Zenon DEF Store
<1>2. ChoreOk(c, sent, Len(owners)) /\ owners \in Seq(Members) /\ Len(owners) \in Nat /\ asked \in Nat
  BY DEF MakeInv, ChoresOk, SessionOk
<1>3. c.said \in Seq(Messages(sent)) /\ c.token \in 1..Len(owners)
  BY <1>2 DEF ChoreOk
<1>4. \A i \in DOMAIN c.said : stored(c.said[i]) \in Messages(sent')
  <2> TAKE i \in DOMAIN c.said
  <2>1. c.said[i] \in Messages(sent)
    BY <1>3
  <2>2. c.said[i].rid # 0 /\ SentAs(c.said[i]) # c.said[i].text => <<c.said[i].rid, NoText>> \in sent'
    BY <1>1, <1>3, SpoiltApart
  <2> HIDE DEF stored
  <2>3. sent \subseteq sent'
    BY <1>1
  <2> QED
    BY <2>1, <2>2, <2>3, StoredMessage DEF stored
<1> HIDE DEF stored
<1>5. ms \in Seq(Messages(sent'))
  BY <1>3, <1>4
<1> HIDE DEF ms
<1>6. new \in Keeps(Messages(sent')) /\ new.owner = Owner(c.token)
  BY <1>2, <1>3, <1>5 DEF Keeps, Owner
<1> HIDE DEF new
<1>7. threads \in Seq(Keeps(Messages(sent'))) /\ threads \in Seq(Keeps(Messages(sent)))
  <2>1. \A x \in Seq(Messages(sent)) : x \in Seq(Messages(sent'))
    BY <1>1, WiderMessages
  <2> QED
    BY <2>1, WiderThreads DEF MakeInv, ThreadsOk
<1>8. /\ threads' \in Seq(Keeps(Messages(sent'))) /\ DOMAIN threads' = 1..k /\ threads'[k] = new
      /\ \A n \in DOMAIN threads : threads'[n] = threads[n] /\ n \in DOMAIN threads'
  BY <1>1, <1>6, <1>7, ThreadFacts
<1>9. Len(owners) <= Len(owners) /\ token' = token /\ owners' = owners
  BY <1>2 DEF SessionStays
<1>10. Grows
  BY <1>1, <1>2, <1>8, <1>9 DEF Grows, ThreadsGrow
<1>11. SentOk'
  <2>1. Unmixed(sent, asked)
    BY DEF MakeInv, SentOk, OneIdOnePrompt, Unmixed
  <2>2. Unmixed(sent', asked')
    BY <1>1, <1>2, <1>3, <2>1, SpoiltApart, MoreApart
  <2> QED
    BY <2>2 DEF SentOk, OneIdOnePrompt, Unmixed
<1>12. ThreadsOk' /\ TasksOk' /\ sent \subseteq sent' /\ page \in Pages(Seq(Messages(sent')), Reach')
  BY <1>1, <1>8, <1>9, <1>10, GrowingKeeps DEF ThreadsOk, TasksOk
<1>13. Server(k) \in Places /\ k \in DOMAIN threads'
  <2>1. Len(threads) \in Nat
    BY <1>7
  <2>2. k \in Int /\ k \in 1..k
    BY <2>1
  <2> QED
    BY <1>8, <2>2 DEF Server, Places
<1>14. ASSUME strayed' \/ token = c.token PROVE Server(k) \in Reach'
  <2>1. CASE strayed'
    BY <1>13, <2>1 DEF Reach
  <2>2. CASE ~strayed'
    <3>1. token # 0 /\ threads'[k].owner = Owner(token)'
      <4>1. token # 0 /\ Owner(token)' = Owner(c.token)
        BY <1>3, <1>9, <1>14, <2>2 DEF Owner
      <4> QED
        BY <1>6, <1>8, <4>1
    <3>2. k \in OwnedBy(token)'
      BY <1>9, <1>13, <3>1 DEF OwnedBy
    <3> QED
      BY <2>2, <3>2 DEF Reach
  <2> QED
    BY <2>1, <2>2
<1> QED
  BY <1>10, <1>11, <1>12, <1>14, NoneInReach DEF k

LEMMA DoneKeepsOn ==
  ASSUME MakeInv, NEW c, ChoreDone(c)
  PROVE  \A d \in chores' : \E x \in chores : Same(d, x)
<1> DEFINE rest == {[x EXCEPT !.crossed = TRUE] : x \in chores \ {c}}
<1>1. c \in chores
  BY Zenon DEF ChoreDone
<1>2. \/ chores' = rest
      \/ \E x, y : chores' = rest \cup {Moving([c EXCEPT !.target = x, !.made = y])}
      \/ \E x, y, z : chores' = rest \cup {[c EXCEPT !.kind = x, !.to = y, !.stored = z]}
  BY Zenon DEF ChoreDone
<1>3. \A x \in chores : ChoreFields \subseteq DOMAIN x
  BY DEF MakeInv, ChoresOk, ChoreOk
<1>4. \A d \in chores' : \E x \in chores : Same(d, x)
  <2>1. \A d \in rest : \E x \in chores : Same(d, x)
    <3> TAKE d \in rest
    <3>1. PICK x \in chores : d = [x EXCEPT !.crossed = TRUE]
      BY Zenon
    <3> QED
      BY <1>3, <3>1, ChoreEdits
  <2>2. \A x, y : Same(Moving([c EXCEPT !.target = x, !.made = y]), c)
    <3> TAKE x, y
    <3> DEFINE d == [c EXCEPT !.target = x, !.made = y]
    <3>1. Same(d, c)
      BY <1>1, <1>3, ChoreEdits
    <3> HIDE DEF d
    <3>2. ChoreFields \subseteq DOMAIN d
      BY <1>1, <1>3, <3>1 DEF Same
    <3>3. Same(Moving(d), d)
      BY <3>2, ChoreEdits
    <3> QED
      BY <3>1, <3>3 DEF Same, d
  <2>3. \A x, y, z : Same([c EXCEPT !.kind = x, !.to = y, !.stored = z], c)
    BY <1>1, <1>3, ChoreEdits
  <2> HIDE DEF rest
  <2>4. ASSUME NEW d \in chores' PROVE d \in rest \/ Same(d, c)
    <3>1. CASE chores' = rest
      BY <2>4, <3>1
    <3>2. CASE \E x, y : chores' = rest \cup {Moving([c EXCEPT !.target = x, !.made = y])}
      <4>1. PICK x, y : chores' = rest \cup {Moving([c EXCEPT !.target = x, !.made = y])}
        BY <3>2
      <4>2. Same(Moving([c EXCEPT !.target = x, !.made = y]), c)
        BY <2>2
      <4> QED
        BY <2>4, <4>1, <4>2
    <3>3. CASE \E x, y, z : chores' = rest \cup {[c EXCEPT !.kind = x, !.to = y, !.stored = z]}
      <4>1. PICK x, y, z : chores' = rest \cup {[c EXCEPT !.kind = x, !.to = y, !.stored = z]}
        BY <3>3
      <4>2. Same([c EXCEPT !.kind = x, !.to = y, !.stored = z], c)
        BY <2>3
      <4> QED
        BY <2>4, <4>1, <4>2
    <3> QED
      BY <1>2, <3>1, <3>2, <3>3
  <2> QED
    BY <1>1, <2>1, <2>4
<1> QED
  BY <1>4

LEMMA ChoreDoneOk ==
  ASSUME SessionOk, MakeInv, NEW c, ChoreDone(c)
  PROVE  MakeInv'
<1> DEFINE moved == Numbered(page, c.thread, Server(Len(threads) + 1))
<1>1. c \in chores /\ SessionStays
  BY Zenon DEF ChoreDone
<1>2. \/ UNCHANGED chatVars
      \/ Store(c) /\ page' \in {page, moved} /\ strayed' = (strayed \/ token # c.token)
  <2>1. \/ UNCHANGED chatVars
        \/ Store(c) /\ page' = page /\ strayed' = (strayed \/ token # c.token)
        \/ Store(c) /\ page' = moved /\ strayed' = (strayed \/ token # c.token)
    BY Zenon DEF ChoreDone
  <2> QED
    BY <2>1
<1>3. \A d \in chores' : \E x \in chores : Same(d, x)
  BY DoneKeepsOn
<1> HIDE DEF moved
<1>4. ChatOk' /\ sent \subseteq sent'
  <2>1. CASE UNCHANGED chatVars
    BY <1>1, <2>1, EditOk, ReachNow, SameReach DEF chatVars, SessionStays
  <2>2. CASE Store(c) /\ page' \in {page, moved} /\ strayed' = (strayed \/ token # c.token)
    <3>1. /\ SentOk' /\ ThreadsOk' /\ TasksOk' /\ sent \subseteq sent' /\ page \in Pages(Seq(Messages(sent')), Reach')
          /\ Server(Len(threads) + 1) \in Reach'
      BY <1>1, <2>2, StoreOk
    <3>2. moved \in Pages(Seq(Messages(sent')), Reach')
      BY <3>1, NumberedPage DEF moved
    <3> QED
      BY <2>2, <3>1, <3>2 DEF ChatOk, PageOk
  <2> QED
    BY <1>2, <2>1, <2>2
<1>5. Len(owners') \in Nat /\ Len(owners) <= Len(owners')
  <2>1. Len(owners) \in Nat /\ owners' = owners
    BY <1>1 DEF SessionOk, SessionStays
  <2> QED
    BY <2>1
<1> QED
  BY <1>3, <1>4, <1>5, ChoresGoOn DEF MakeInv, ChatOk

LEMMA FailingKeepsOn ==
  ASSUME MakeInv, NEW c, NEW why, ChoreFails(c, why)
  PROVE  \A d \in chores' : \E x \in chores : Same(d, x)
<1>1. \A x \in chores : ChoreFields \subseteq DOMAIN x
  BY DEF MakeInv, ChoresOk, ChoreOk
<1> TAKE d \in chores'
<1>2. PICK x \in chores : d = x \/ d = [x EXCEPT !.holdsFolder = FALSE]
  <2>1. PICK x \in chores : d = IF c.kind = "delete" THEN [x EXCEPT !.holdsFolder = FALSE] ELSE x
    BY Zenon DEF ChoreFails
  <2> QED
    BY <2>1
<1>3. Same(x, x)
  BY DEF Same
<1> QED
  BY <1>1, <1>2, <1>3, ChoreEdits

LEMMA ChoreFailsOk ==
  ASSUME SessionOk, MakeInv, NEW c, NEW why, ChoreFails(c, why)
  PROVE  MakeInv'
<1>1. c \in chores /\ Ends
  BY OthersEnd, Zenon DEF ChoreFails
<1>2. \/ Store(c) /\ UNCHANGED <<page, strayed>> /\ SessionStays
      \/ token' = token /\ UNCHANGED chatVars
      \/ ChatExpired
  BY Zenon DEF ChoreFails
<1>3. \A d \in chores' : \E x \in chores : Same(d, x)
  BY FailingKeepsOn
<1>4. owners' = owners
  BY <1>1 DEF Ends, SessionStays, SignOut
<1>5. ChatOk' /\ sent \subseteq sent'
  <2>1. CASE Store(c) /\ UNCHANGED <<page, strayed>> /\ SessionStays
    <3>1. /\ SentOk' /\ ThreadsOk' /\ TasksOk' /\ sent \subseteq sent' /\ page \in Pages(Seq(Messages(sent')), Reach')
      BY <1>1, <2>1, StoreOk
    <3> QED
      BY <2>1, <3>1 DEF ChatOk, PageOk
  <2>2. CASE token' = token /\ UNCHANGED chatVars
    BY <1>4, <2>2, EditOk, ReachNow, SameReach DEF chatVars, SessionStays
  <2>3. CASE ChatExpired
    BY <1>4, <2>3, SignOutOk
  <2> QED
    BY <1>2, <2>1, <2>2, <2>3
<1>6. Len(owners') \in Nat /\ Len(owners) <= Len(owners')
  <2>1. Len(owners) \in Nat
    BY DEF SessionOk
  <2> QED
    BY <1>4, <2>1
<1> QED
  BY <1>3, <1>5, <1>6, ChoresGoOn DEF MakeInv, ChatOk

----------------------------------------------------------------------------
(* The steps of the page                                                   *)

(* What the answers of the other screens do to the session.                *)
LEMMA BillingEnds ==
  /\ \A c : WriteDone(c) \/ RegisterFails(c) \/ (\E force : HydrateSummary(force)) => SessionStays
  /\ \A c, ok, auth, latest :
       RefreshAnswer(c, ok, auth, latest) \/ SummaryAnswer(c, ok, auth, latest) \/ QuoteAnswer(c, ok) => Ends
  /\ \A c, why : WriteFails(c, why) => Ends
  /\ \A c : \A result \in {"success", "fail", "signed out"} : Redirected(c, result) => Ends
<1>0. SessionStays => Ends
  BY DEF Ends
<1>1. ASSUME NEW c, WriteDone(c) \/ RegisterFails(c) \/ \E force : HydrateSummary(force) PROVE SessionStays
  BY <1>1, Zenon DEF WriteDone, RegisterFails, HydrateSummary, Complain
<1>2. \A s : Expire(s) => Ends
  BY Zenon DEF Expire, Ends
<1>3. ASSUME NEW c, NEW ok, NEW auth, NEW latest,
             RefreshAnswer(c, ok, auth, latest) \/ SummaryAnswer(c, ok, auth, latest) \/ QuoteAnswer(c, ok)
      PROVE  Ends
  <2>1. \A d, s : EndRefresh(d, s) => Ends
    BY <1>2, Zenon DEF EndRefresh, Ends
  <2>2. RefreshAnswer(c, ok, auth, latest) => Ends
    BY <1>0, <2>1, Zenon DEF RefreshAnswer
  <2>3. SummaryAnswer(c, ok, auth, latest) => Ends
    BY <1>0, <1>2, Zenon DEF SummaryAnswer
  <2>4. QuoteAnswer(c, ok) => Ends
    BY <1>0, <2>1, Zenon DEF QuoteAnswer
  <2> QED
    BY <1>3, <2>2, <2>3, <2>4
<1>4. ASSUME NEW c, NEW why, WriteFails(c, why) PROVE Ends
  BY <1>0, <1>2, <1>4, Zenon DEF WriteFails
<1>5. ASSUME NEW c, NEW result \in {"success", "fail", "signed out"}, Redirected(c, result) PROVE Ends
  BY <1>5 DEF Redirected, Ends
<1> QED
  BY <1>1, <1>3, <1>4, <1>5

LEMMA ListsEnd ==
  /\ \A l, ok, total : HomeAnswer(l, ok, total) => SessionStays
  /\ \A w : WorkDone(w) => SessionStays
  /\ \A x, to : Elsewhere(x, to) => SessionStays
  /\ \A j, got, late : ReadAnswer(j, got, late) => SessionStays
  /\ \A j : DecideDone(j) => SessionStays
  /\ \A c : TalkDone(c) => SessionStays
  /\ \A c, ok, late : TalkRead(c, ok, late) => SessionStays
<1>1. ASSUME NEW l, NEW ok, NEW total, HomeAnswer(l, ok, total) PROVE SessionStays
  BY <1>1, Zenon DEF HomeAnswer
<1>2. ASSUME NEW w, WorkDone(w) PROVE SessionStays
  BY <1>2, Zenon DEF WorkDone
<1>3. ASSUME NEW x, NEW to, Elsewhere(x, to) PROVE SessionStays
  BY <1>3, Zenon DEF Elsewhere
<1>4. ASSUME NEW j, NEW got, NEW late, ReadAnswer(j, got, late) PROVE SessionStays
  BY <1>4, Zenon DEF ReadAnswer
<1>5. ASSUME NEW j, DecideDone(j) PROVE SessionStays
  BY <1>5, Zenon DEF DecideDone
<1>6. ASSUME NEW c, TalkDone(c) PROVE SessionStays
  BY <1>6, Zenon DEF TalkDone
<1>7. ASSUME NEW c, NEW ok, NEW late, TalkRead(c, ok, late) PROVE SessionStays
  BY <1>7, Zenon DEF TalkRead
<1> QED
  BY <1>1, <1>2, <1>3, <1>4, <1>5, <1>6, <1>7

MakeStep ==
  \/ SessionStays /\ UNCHANGED <<chatVars, folderVars>>
  \/ ~LoggedIn /\ \E a \in Members : SignIn(a) /\ ChatSignIn /\ FoldersHear({})
  \/ SignOut /\ ChatSignOut /\ FoldersSignOut
  \/ Ends /\ ChatUnload /\ FoldersUnload
  \/ Ends /\ ChatFollows
  \/ MakeEvents \/ MakeAnswers

LEMMA BillingAnswersEnd ==
  ASSUME BillingAnswers
  PROVE  MakeStep
  BY BillingEnds DEF BillingAnswers, BillingAlone, MakeStep

LEMMA OtherAnswersMove ==
  ASSUME ListAnswers \/ AdminAnswers \/ TalkAnswers
  PROVE  MakeStep
  BY ListsEnd, OthersEnd
  DEF ListAnswers, AdminAnswers, TalkAnswers, HomeAlone, LibraryAlone, AdminAlone, TalkAlone, MakeStep

LEMMA NextMovesMake == [Next]_vars => MakeStep
<1>1. CASE UNCHANGED vars
  BY <1>1 DEF vars, sessionVars, SessionStays, MakeStep
<1>2. ASSUME NEW a \in Accounts \cup Staff, Login(a) PROVE MakeStep
  BY <1>2 DEF Login, MakeStep, Members
<1>3. CASE Logout \/ LoadAgain
  BY <1>3 DEF Logout, LoadAgain, MakeStep, Ends
<1>4. CASE BillingEvents
  <2>1. BillingEvents => SessionStays
    BY Zenon DEF BillingEvents, Open, StartPro, Close, Reload, Mutate, ConfirmUpgrade, Register
  <2> QED
    BY <1>4, <2>1 DEF BillingEvents, BillingAlone, MakeStep
<1>5. CASE HomeEvents \/ TalkEvents \/ AdminEvents
  BY <1>5, HomeStays, TalkStays, AdminStays
  DEF HomeEvents, AtHomeAlone, HomeAlone, TalkEvents, TalkAlone, AdminEvents, AdminAlone, MakeStep
<1>6. CASE LibraryEvents
  BY <1>6, LibraryStays DEF LibraryEvents, VisitLibrary, LibraryAlone, MakeStep
<1>7. CASE MakeEvents \/ MakeAnswers
  BY <1>7 DEF MakeStep
<1> QED
  BY <1>1, <1>2, <1>3, <1>4, <1>5, <1>6, <1>7, BillingAnswersEnd, OtherAnswersMove DEF Next

(* A step of the conversation, with what the panel makes of it.            *)
LEMMA BothOk ==
  ASSUME SessionOk, MakeInv, ChatOk', sent \subseteq sent', FoldersMove,
         Ends \/ \E a : SignIn(a)
  PROVE  MakeInv'
<1>1. Len(owners) <= Len(owners') /\ Len(owners') \in Nat
  <2>1. owners \in Seq(Members) /\ Len(owners) \in Nat
    BY DEF SessionOk
  <2>2. Len(owners') \in {Len(owners), Len(owners) + 1}
    BY <2>1 DEF Ends, SessionStays, SignOut, SignIn
  <2> QED
    BY <2>1, <2>2
<1> QED
  BY <1>1, MovingKeepsChores DEF MakeInv, ChatOk

(* A step of another screen leaves the conversation as it was.             *)
LEMMA StayingKeepsMake ==
  ASSUME SessionOk, MakeInv, SessionStays, UNCHANGED <<chatVars, folderVars>>
  PROVE  MakeInv'
<1>1. ChatOk' /\ sent \subseteq sent'
  BY EditOk, ReachNow, SameReach DEF chatVars, SessionStays
<1> QED
  BY <1>1, BothOk DEF FoldersMove, folderVars, Ends

LEMMA MakeEventsOk ==
  ASSUME SessionOk, MakeInv, MakeEvents
  PROVE  MakeInv'
<1>1. SessionStays
  BY MakeStays
<1>2. FoldersHear({}) => FoldersMove
  BY DEF FoldersMove
<1>3. CASE ChatOk' /\ sent \subseteq sent' /\ FoldersHear({})
  BY <1>1, <1>2, <1>3, BothOk DEF Ends
<1>4. CASE SidePanel
  <2>1. CASE /\ FoldersAlone
             /\ \/ \E f \in drawer.folders : FolderButtons(f)
                \/ \E f \in {None, All} : OpenFolder(f)
                \/ \E name \in Names : CreateFolder(name, None)
                \/ \E id \in DOMAIN drawer.filed : InSight(id) /\ ThreadMenu(id)
    BY <1>1, <2>1, FoldersEventOk DEF FoldersAlone
  <2>2. CASE NewChat /\ ChatAlone
    BY <1>3, <2>2, NewOk DEF ChatAlone
  <2>3. ASSUME NEW i, OpenThread(i) \/ DeleteThread(i), ChatAlone PROVE MakeInv'
    BY <1>3, <2>3, OpenOk, DeleteOk DEF ChatAlone
  <2> QED
    BY <1>4, <2>1, <2>2, <2>3 DEF SidePanel
<1>5. ASSUME NEW i \in DOMAIN page.messages, MessageButtons(i), ChatAlone PROVE MakeInv'
  BY <1>3, <1>5, NewOk, ResendsOk, RetryOk DEF MessageButtons, ChatAlone
<1>6. ASSUME NEW t, Cancel(t), ChatAlone PROVE MakeInv'
  BY <1>3, <1>6, CancelOk DEF ChatAlone
<1>7. ASSUME NEW text \in Texts, Submit(text), ChatAlone PROVE MakeInv'
  BY <1>3, <1>7, SubmitsOk DEF ChatAlone
<1> QED
  BY <1>4, <1>5, <1>6, <1>7 DEF MakeEvents, Feed

LEMMA MakeAnswersOk ==
  ASSUME SessionOk, MakeInv, MakeAnswers
  PROVE  MakeInv'
<1>1. ASSUME ChatOk', sent \subseteq sent', Ends, \E heard : FoldersHear(heard) \/ FoldersFollow(heard) PROVE MakeInv'
  BY <1>1, BothOk DEF FoldersFollow, FoldersMove
<1>2. CASE Hydrate /\ ChatAlone
  BY <1>1, <1>2, HydrateOk, ChatStays DEF ChatAlone, Ends
<1>3. ASSUME NEW t, NEW how, ImproveAnswer(t, how), FoldersFollow({}) PROVE MakeInv'
  BY <1>1, <1>3, ImproveAnswerOk, OthersEnd
<1>4. ASSUME NEW t, NEW ok, ThreadAnswer(t, ok) \/ ListAnswer(t, ok), FoldersHear(Brought(t, ok)) PROVE MakeInv'
  BY <1>1, <1>4, ThreadAnswerOk, ListAnswerOk, ChatStays DEF Ends
<1>5. ASSUME NEW t, NEW how, \/ RecentAnswer(t, how) /\ FoldersFollow(Brought(t, how = "ok"))
                             \/ DeleteAnswer(t, how) /\ FoldersFollow({})
      PROVE  MakeInv'
  BY <1>1, <1>5, RecentAnswerOk, DeleteAnswerOk, OthersEnd
<1>6. ASSUME NEW t, NEW how, NEW got, HydrateAnswer(t, how),
             IF token' = token THEN FoldersHydrated(t, how = "ok", got) ELSE ~got /\ FoldersSignOut
      PROVE  MakeInv'
  <2>1. FoldersMove
    BY <1>6 DEF FoldersMove
  <2> QED
    BY <1>6, <2>1, HydrateAnswerOk, OthersEnd, BothOk
<1>7. ASSUME NEW c, ChoreDone(c) \/ \E why : ChoreFails(c, why) PROVE MakeInv'
  BY <1>7, ChoreDoneOk, ChoreFailsOk
<1> QED
  BY <1>2, <1>3, <1>4, <1>5, <1>6, <1>7 DEF MakeAnswers

LEMMA StepsKeepMake ==
  ASSUME SessionOk, MakeInv, MakeStep
  PROVE  MakeInv'
<1>1. CASE SessionStays /\ UNCHANGED <<chatVars, folderVars>>
  BY <1>1, StayingKeepsMake
<1>2. ASSUME ~LoggedIn, NEW a \in Members, SignIn(a), ChatSignIn, FoldersHear({}) PROVE MakeInv'
  BY <1>2, SignInOk, BothOk DEF FoldersMove
<1>3. CASE SignOut /\ ChatSignOut /\ FoldersSignOut
  BY <1>3, SignOutOk, BothOk DEF FoldersMove, Ends, SignOut
<1>4. CASE Ends /\ ChatUnload /\ FoldersUnload
  BY <1>4, UnloadOk, BothOk DEF FoldersMove
<1>5. CASE Ends /\ ChatFollows
  <2>1. CASE token' = token
    <3>1. SessionStays /\ UNCHANGED <<chatVars, folderVars>>
      BY <1>5, <2>1 DEF Ends, SignOut, SessionStays, ChatFollows
    <3> QED
      BY <3>1, StayingKeepsMake
  <2>2. CASE token' # token
    <3>1. ChatExpired /\ FoldersSignOut /\ owners' = owners
      BY <1>5, <2>2 DEF Ends, SignOut, SessionStays, ChatFollows
    <3> QED
      BY <1>5, <3>1, SignOutOk, BothOk DEF FoldersMove
  <2> QED
    BY <2>1, <2>2
<1> QED
  BY <1>1, <1>2, <1>3, <1>4, <1>5, MakeEventsOk, MakeAnswersOk DEF MakeStep

(* The first page: nothing sent, at most the member's old conversations.   *)
LEMMA InitMake == Init => MakeInv
<1> SUFFICES ASSUME Init PROVE MakeInv
  OBVIOUS
<1>1. /\ page = BlankPage /\ tasks = {} /\ threads = Before /\ asked = 0 /\ sent = {} /\ chores = {}
  BY DEF Init, ChatInit, FoldersInit
<1>2. None \in Reach /\ None \in Places
  BY DEF Reach, None, Places
<1>3. PageOk
  <2>1. <<None, None>> \in Places \X Reach
    BY <1>2, Pairs
  <2> HIDE DEF Reach
  <2>2. BlankPage \in Pages(Seq(Messages(sent)), Reach)
    BY <1>2, <2>1 DEF BlankPage, Pages, Phrases
  <2> QED
    BY <1>1, <2>2 DEF PageOk
<1>4. ThreadsOk
  <2> DEFINE text == CHOOSE x \in Texts : TRUE
             ms(i) == <<Ask(-i, text, 0, "saved"), Reply(-i, text)>>
             old(i) == [owner |-> owners[1], live |-> TRUE, first |-> 0, messages |-> ms(i)]
  <2>1. \/ threads = <<>>
        \/ owners # <<>> /\ threads = [i \in 1..2 |-> old(i)]
    BY <1>1, Zenon DEF Before
  <2>2. text \in Texts
    BY TextsAssumption
  <2> HIDE DEF text
  <2>3. \A i \in 1..2 : ms(i) \in Seq(Messages(sent))
    <3> TAKE i \in 1..2
    <3>1. -i \in Int /\ 0 \in Nat /\ "saved" \in Modes
      BY DEF Modes
    <3>2. Ask(-i, text, 0, "saved") \in Messages(sent) /\ Reply(-i, text) \in Messages(sent)
      BY <2>2, <3>1, AskedMessage, RepliedMessage
    <3> QED
      BY <3>2
  <2> HIDE DEF ms
  <2>4. ASSUME owners # <<>> PROVE owners[1] \in Members
    <3>1. \E a \in Members : owners = <<a>>
      BY <2>4 DEF Init, SessionInit, Members
    <3> QED
      BY <3>1
  <2>5. ASSUME owners # <<>> PROVE \A i \in 1..2 : old(i) \in Keeps(Messages(sent))
    BY <2>3, <2>4, <2>5 DEF Keeps
  <2> HIDE DEF old
  <2>6. ASSUME owners # <<>> PROVE [i \in 1..2 |-> old(i)] \in Seq(Keeps(Messages(sent)))
    BY <2>5, <2>6
  <2>7. CASE threads = <<>>
    BY <2>7 DEF ThreadsOk
  <2>8. CASE owners # <<>> /\ threads = [i \in 1..2 |-> old(i)]
    BY <2>6, <2>8, Zenon DEF ThreadsOk
  <2> QED
    BY <2>1, <2>7, <2>8
<1>5. TasksOk /\ ChoresOk /\ SentOk
  BY <1>1 DEF TasksOk, ChoresOk, SentOk, OneIdOnePrompt
<1> QED
  BY <1>3, <1>4, <1>5 DEF MakeInv

----------------------------------------------------------------------------
(* The theorems *)

LEMMA SessionFacts == BillingInv /\ ComposerInv => SessionOk
<1> SUFFICES ASSUME BillingInv, ComposerInv PROVE SessionOk
  OBVIOUS
<1>1. owners \in Seq(Members) /\ token \in 0..Len(owners)
  BY DEF BillingInv, BillingTypes
<1>2. asked \in Nat /\ request.version \in Nat
  BY DEF ComposerInv, ComposerGood, IsRequest
<1>3. \A t \in tasks : t.kind \in {"thread", "list"} => t.then \in {"conflict", "recover", "show"}
  BY DEF ComposerInv, ComposerGood, IsTask
<1> QED
  BY <1>1, <1>2, <1>3 DEF SessionOk

LEMMA SpecKeepsMake == Spec => []MakeInv
<1>1. SessionOk /\ MakeInv /\ [Next]_vars => MakeInv'
  BY NextMovesMake, StepsKeepMake
<1> QED
  BY <1>1, InitMake, SessionFacts, SpecKeepsBilling, SpecKeepsComposer, PTL DEF Spec

(* Whatever conversations a session's answers bring to the page, in        *)
(* whatever order they come, those it lists are of the member who is       *)
(* signed in; and so are the subscription, the quote and the refunds.      *)
THEOREM ConversationsAreMine == Spec => []PageIsMine
<1>1. MakeInv => ListIsMine
  <2> SUFFICES ASSUME MakeInv, ~strayed, NEW i \in DOMAIN page.recent, page.recent[i].server # None
               PROVE  LoggedIn /\ threads[page.recent[i].server[2]].owner = Owner(token)
    BY DEF ListIsMine
  <2>1. page.recent[i].server \in Reach
    BY PageFacts DEF MakeInv, PageOk
  <2>2. PICK n \in OwnedBy(token) : page.recent[i].server = Server(n)
    BY <2>1 DEF Reach
  <2> QED
    BY <2>2 DEF OwnedBy, Server, LoggedIn
<1> QED
  BY <1>1, SpecKeepsMake, BillingShowsMine, PTL DEF PageIsMine

(* A request id stands for one prompt, however often it is sent again,     *)
(* edited, recovered or written to another place.                          *)
THEOREM OneIdIsOnePrompt == Spec => []OneIdOnePrompt
<1>1. MakeInv => OneIdOnePrompt
  BY DEF MakeInv, SentOk
<1> QED
  BY <1>1, SpecKeepsMake, PTL

----------------------------------------------------------------------------
(* The dialog of a prompt *)

TalkFields == {"open", "form", "list", "count", "liked", "reported", "calls", "made", "stale", "loose"}
RowFields == {"by", "text", "likers", "under", "gone", "live"}
CommentFields == {"id", "by", "text", "likes", "under", "gone"}
Keepers == Members \cup {Guest}

IsRows(r) ==
  /\ r \in Seq({r[n] : n \in DOMAIN r})
  /\ \A n \in DOMAIN r : DOMAIN r[n] = RowFields /\ IsFiniteSet(r[n].likers)
IsBoard(b) ==
  DOMAIN b = {"rows", "reports"} /\ IsRows(b.rows) /\ b.reports \subseteq Members \X DOMAIN b.rows

(* Comments keep their author, and none is ever taken out of the table.    *)
Elder(a, b) == Len(a.rows) <= Len(b.rows) /\ \A n \in DOMAIN a.rows : b.rows[n].by = a.rows[n].by

(* Comment n, if the server has numbered it, is not written by a.          *)
Foreign(n, a, b) == n \in Int /\ (n > 0 => n \in DOMAIN b.rows /\ b.rows[n].by # a)

(* What is listed and what is sent, of comments of b by the accounts o.    *)
IsComment(c, b) ==
  /\ DOMAIN c = CommentFields /\ c.id \in Int
  /\ c.id > 0 /\ ~c.gone => c.id \in DOMAIN b.rows /\ b.rows[c.id].by = c.by
Sends(c, b, o) ==
  /\ c.kind \in Rewriting \cup {"like", "unlike", "report", "read"}
  /\ IsBoard(c.seen) /\ Elder(c.seen, b)
  /\ c.kind # "read" => c.token \in 1..Len(o)
  /\ Liking(c) => Foreign(c.id, o[c.token], b)
  /\ c.kind = "report" => c.id > 0 /\ Foreign(c.id, o[c.token], b)

(* A like under way is the only one of its comment and changes the mark;   *)
(* the marks are what the server has, but for those under way.             *)
Marking(C, n) == {c \in C : Liking(c) /\ c.id = n}
Marks(C, n, a, o) == \E c \in Marking(C, n) : o[c.token] = a
OfOthers(t, b) == \A a \in Members : \A n \in t.liked[a] \cup t.reported[a] : Foreign(n, a, b)
OneLike(C, n, o, likers) ==
  /\ \A c, d \in Marking(C, n) : c = d
  /\ \A c \in Marking(C, n) : c.kind = "like" <=> o[c.token] \notin likers
LikesOk(t, b, o) ==
  \A n \in DOMAIN b.rows :
    /\ OneLike(t.calls, n, o, b.rows[n].likers)
    /\ \A a \in Members :
         n \in t.liked[a] <=> IF Marks(t.calls, n, a, o) THEN a \notin b.rows[n].likers
                              ELSE a \in b.rows[n].likers
ReportsOk(t, b) ==
  \A n \in DOMAIN b.rows : \A a \in Members : n \in t.reported[a] <=> <<a, n>> \in b.reports

(* Unless the list is being read, or will be, it is the server's, but for  *)
(* the likes under way.                                                    *)
Pending(C) == \E c \in C : c.kind \in Rewriting \cup {"read"}
Weight(C, n) == IF \E c \in Marking(C, n) : c.kind = "like" THEN 1
                ELSE IF Marking(C, n) # {} THEN -1 ELSE 0
Weighed(C, b, n) ==
  LET r == b.rows[n]
  IN  Comment(n, r.by, r.text, Cardinality(r.likers) + Weight(C, n), r.under, r.gone)
Alive(b) == {n \in DOMAIN b.rows : b.rows[n].live}
Spoken(b) == {n \in Alive(b) : ~b.rows[n].gone}
InStep(t, b) ==
  t.open /\ ~t.stale /\ ~Pending(t.calls) =>
    t.list = {Weighed(t.calls, b, n) : n \in Alive(b)} /\ t.count = Cardinality(Spoken(b))

Shape(t) == DOMAIN t = TalkFields /\ t.made \in Nat /\ DOMAIN t.liked = Keepers /\ DOMAIN t.reported = Keepers
Marked(t, b, o) == OfOthers(t, b) /\ LikesOk(t, b, o) /\ ReportsOk(t, b)
Held(t, b, o) ==
  /\ Shape(t) /\ IsBoard(b) /\ (\A c \in t.list : IsComment(c, b)) /\ \A c \in t.calls : Sends(c, b, o)
  /\ ~t.loose => Marked(t, b, o)
TalkGood(t, b, o) == Held(t, b, o) /\ (~t.loose => InStep(t, b))
FormOk(form, b, o, tok) == form # 0 => tok # 0 /\ Foreign(form, o[tok], b)
TalkInv == TalkGood(talk, board, owners) /\ FormOk(talk.form, board, owners, token)

----------------------------------------------------------------------------
(* Comments *)

LEMMA CommentIs ==
  ASSUME NEW id, NEW by, NEW text, NEW likes, NEW under, NEW gone, NEW c,
         c = Comment(id, by, text, likes, under, gone)
  PROVE  /\ DOMAIN c = CommentFields /\ c.id = id /\ c.gone = gone
         /\ ~gone => c.by = by /\ c.likes = likes
<1>1. PICK none : c = [id |-> id, by |-> IF gone THEN Guest ELSE by, text |-> IF gone THEN none ELSE text,
                       likes |-> IF gone THEN 0 ELSE likes, under |-> under, gone |-> gone]
  BY Zenon DEF Comment
<1> QED
  BY <1>1 DEF CommentFields

(* One more like, or one less, changes nothing else of a comment.          *)
LEMMA LikesOfComment ==
  ASSUME NEW id, NEW by, NEW text, NEW l, NEW m, NEW under, NEW gone, NEW c, ~gone,
         c = Comment(id, by, text, l, under, gone)
  PROVE  [c EXCEPT !.likes = m] = Comment(id, by, text, m, under, gone)
<1>1. PICK none :
        /\ c = [id |-> id, by |-> IF gone THEN Guest ELSE by, text |-> IF gone THEN none ELSE text,
                likes |-> IF gone THEN 0 ELSE l, under |-> under, gone |-> gone]
        /\ Comment(id, by, text, m, under, gone)
             = [id |-> id, by |-> IF gone THEN Guest ELSE by, text |-> IF gone THEN none ELSE text,
                likes |-> IF gone THEN 0 ELSE m, under |-> under, gone |-> gone]
  BY Zenon DEF Comment
<1> QED
  BY <1>1

(* A list is one of the elements it has.                                   *)
LEMMA ListOfOwn ==
  ASSUME NEW S, NEW s \in Seq(S)
  PROVE  s \in Seq({s[n] : n \in DOMAIN s})
<1> DEFINE T == {s[n] : n \in DOMAIN s}
<1>1. Len(s) \in Nat /\ DOMAIN s = 1..Len(s) /\ s = [n \in 1..Len(s) |-> s[n]]
  OBVIOUS
<1>2. \A n \in 1..Len(s) : s[n] \in T
  BY <1>1
<1> HIDE DEF T
<1>3. [n \in 1..Len(s) |-> s[n]] \in Seq(T)
  BY <1>1, <1>2
<1> QED
  BY <1>1, <1>3 DEF T

LEMMA RowsFacts ==
  ASSUME NEW r, IsRows(r)
  PROVE  Len(r) \in Nat /\ DOMAIN r = 1..Len(r)
  BY DEF IsRows

LEMMA WeighedIs ==
  ASSUME NEW C, NEW b, IsBoard(b), NEW n \in DOMAIN b.rows
  PROVE  LET c == Weighed(C, b, n)
         IN  /\ c.id = n /\ c.gone = b.rows[n].gone /\ IsComment(c, b)
             /\ ~c.gone => c.by = b.rows[n].by /\ c.likes = Cardinality(b.rows[n].likers) + Weight(C, n)
<1>1. PICK c : c = Weighed(C, b, n)
  OBVIOUS
<1>2. /\ DOMAIN c = CommentFields /\ c.id = n /\ c.gone = b.rows[n].gone
      /\ ~c.gone => c.by = b.rows[n].by /\ c.likes = Cardinality(b.rows[n].likers) + Weight(C, n)
  BY <1>1, CommentIs DEF Weighed
<1>3. n \in Int
  BY RowsFacts DEF IsBoard
<1> QED
  BY <1>1, <1>2, <1>3 DEF IsComment

(* What the server answers is a list of its comments, as nobody likes them *)
(* at the time.                                                            *)
LEMMA ThreadIs ==
  ASSUME NEW b, IsBoard(b), NEW C, \A n \in DOMAIN b.rows : Marking(C, n) = {}
  PROVE  Thread(b) = {Weighed(C, b, n) : n \in Alive(b)}
<1>1. ASSUME NEW n \in DOMAIN b.rows
      PROVE  Cardinality(b.rows[n].likers) + Weight(C, n) = Cardinality(b.rows[n].likers)
  <2>1. Weight(C, n) = 0
    BY DEF Weight
  <2>2. Cardinality(b.rows[n].likers) \in Nat
    BY FS_CardinalityType DEF IsBoard, IsRows
  <2> QED
    BY <2>1, <2>2
<1>2. \A n \in DOMAIN b.rows :
        Weighed(C, b, n) = LET r == b.rows[n] IN Comment(n, r.by, r.text, Cardinality(r.likers), r.under, r.gone)
  BY <1>1, Zenon DEF Weighed
<1>3. Thread(b) = {LET r == b.rows[n] IN Comment(n, r.by, r.text, Cardinality(r.likers), r.under, r.gone)
                     : n \in Alive(b)}
  BY Zenon DEF Thread, Alive
<1> QED
  BY <1>2, <1>3 DEF Alive

(* As many as are not deleted.                                             *)
LEMMA CountedIs ==
  ASSUME NEW b, IsBoard(b)
  PROVE  Counted(Thread(b)) = Cardinality(Spoken(b))
<1> DEFINE at(n) == Weighed({}, b, n)
           T == {c \in Thread(b) : ~c.gone}
           f == [n \in Spoken(b) |-> at(n)]
<1>1. Thread(b) = {at(n) : n \in Alive(b)}
  <2>1. \A n \in DOMAIN b.rows : Marking({}, n) = {}
    BY DEF Marking
  <2> QED
    BY <2>1, ThreadIs
<1>2. ASSUME NEW n \in Alive(b) PROVE at(n).id = n /\ at(n).gone = b.rows[n].gone
  BY <1>2, WeighedIs DEF Alive
<1> HIDE DEF at
<1>3. f \in Bijection(Spoken(b), T)
  <2>1. \A n \in Spoken(b) : n \in Alive(b) /\ at(n) \in T
    BY <1>1, <1>2 DEF Spoken
  <2>2. \A c \in T : \E n \in Spoken(b) : c = at(n)
    BY <1>1, <1>2 DEF Spoken
  <2>3. \A m, n \in Spoken(b) : at(m) = at(n) => m = n
    BY <1>2, <2>1
  <2> QED
    BY <2>1, <2>2, <2>3 DEF Bijection, Injection, Surjection, IsInjective
<1>4. IsFiniteSet(Spoken(b))
  <2>1. Spoken(b) \in SUBSET (1..Len(b.rows)) /\ Len(b.rows) \in Int
    BY RowsFacts DEF Spoken, Alive, IsBoard
  <2>2. IsFiniteSet(1..Len(b.rows))
    BY <2>1, FS_Interval
  <2> QED
    BY <2>1, <2>2, FS_Subset
<1> QED
  BY <1>3, <1>4, FS_Bijection DEF ExistsBijection, Counted

----------------------------------------------------------------------------
(* The table of comments changes *)

SameMarks(a, b) ==
  /\ IsBoard(b) /\ Elder(a, b) /\ b.reports = a.reports
  /\ \A n \in DOMAIN a.rows : b.rows[n].likers = a.rows[n].likers
  /\ \A n \in DOMAIN b.rows \ DOMAIN a.rows : b.rows[n].likers = {}

LEMMA ElderFacts ==
  ASSUME NEW a, NEW b, IsBoard(a), IsBoard(b), Elder(a, b)
  PROVE  /\ \A n \in DOMAIN a.rows : n \in DOMAIN b.rows /\ b.rows[n].by = a.rows[n].by
         /\ \A n, x : Foreign(n, x, a) => Foreign(n, x, b)
         /\ \A c : IsComment(c, a) => IsComment(c, b)
         /\ \A c : IsBoard(c) /\ Elder(c, a) => Elder(c, b)
         /\ \A c, o : Sends(c, a, o) => Sends(c, b, o)
<1>1. \A n \in DOMAIN a.rows : n \in DOMAIN b.rows /\ b.rows[n].by = a.rows[n].by
  BY RowsFacts DEF IsBoard, Elder
<1>2. \A n, x : Foreign(n, x, a) => Foreign(n, x, b)
  BY <1>1 DEF Foreign
<1>3. \A c : IsComment(c, a) => IsComment(c, b)
  BY <1>1 DEF IsComment
<1>4. ASSUME NEW c, IsBoard(c), Elder(c, a) PROVE Elder(c, b)
  <2>1. Len(c.rows) \in Nat /\ Len(a.rows) \in Nat /\ Len(b.rows) \in Nat
        /\ DOMAIN c.rows = 1..Len(c.rows) /\ DOMAIN a.rows = 1..Len(a.rows)
    BY <1>4, RowsFacts DEF IsBoard
  <2> QED
    BY <1>1, <1>4, <2>1 DEF Elder
<1>5. \A c, o : Sends(c, a, o) => Sends(c, b, o)
  BY <1>2, <1>4 DEF Sends
<1> QED
  BY <1>1, <1>2, <1>3, <1>4, <1>5

LEMMA ElderSelf ==
  ASSUME NEW b
  PROVE  Elder(b, b)
  BY DEF Elder

LEMMA NewMarks ==
  ASSUME NEW t, NEW a, NEW b, NEW o, Held(t, a, o), SameMarks(a, b)
  PROVE  Held(t, b, o)
<1>0. IsBoard(a) /\ IsBoard(b) /\ Elder(a, b) /\ b.reports = a.reports
  BY DEF Held, SameMarks
<1>1. (\A c \in t.list : IsComment(c, b)) /\ \A c \in t.calls : Sends(c, b, o)
  BY <1>0, ElderFacts DEF Held
<1>2. ASSUME ~t.loose PROVE Marked(t, b, o)
  <2>0. OfOthers(t, a) /\ LikesOk(t, a, o) /\ ReportsOk(t, a)
    BY <1>2 DEF Held, Marked
  <2>1. OfOthers(t, b)
    BY <1>0, <2>0, ElderFacts DEF OfOthers
  <2>2. ASSUME NEW n \in DOMAIN b.rows, n \notin DOMAIN a.rows
        PROVE  /\ Marking(t.calls, n) = {} /\ b.rows[n].likers = {}
               /\ \A x \in Members : n \notin t.liked[x] \cup t.reported[x] /\ <<x, n>> \notin b.reports
    <3>1. n > 0
      BY <1>0, RowsFacts DEF IsBoard
    <3>2. \A x : ~Foreign(n, x, a)
      BY <2>2, <3>1 DEF Foreign
    <3>3. Marking(t.calls, n) = {}
      BY <3>2 DEF Marking, Held, Sends
    <3>4. \A x \in Members : n \notin t.liked[x] \cup t.reported[x]
      BY <2>0, <3>2 DEF OfOthers
    <3>5. \A x \in Members : <<x, n>> \notin b.reports
      BY <1>0, <2>2 DEF IsBoard
    <3> QED
      BY <2>2, <3>3, <3>4, <3>5 DEF SameMarks
  <2>3. \A n \in DOMAIN a.rows : b.rows[n].likers = a.rows[n].likers
    BY DEF SameMarks
  <2>4. LikesOk(t, b, o)
    <3> SUFFICES ASSUME NEW n \in DOMAIN b.rows
                 PROVE  /\ OneLike(t.calls, n, o, b.rows[n].likers)
                        /\ \A x \in Members :
                             n \in t.liked[x] <=> IF Marks(t.calls, n, x, o) THEN x \notin b.rows[n].likers
                                                  ELSE x \in b.rows[n].likers
      BY DEF LikesOk
    <3>1. CASE n \in DOMAIN a.rows
      BY <2>0, <2>3, <3>1 DEF LikesOk
    <3>2. CASE n \notin DOMAIN a.rows
      BY <2>2, <3>2 DEF OneLike, Marks
    <3> QED
      BY <3>1, <3>2
  <2>5. ReportsOk(t, b)
    BY <1>0, <2>0, <2>2 DEF ReportsOk
  <2> QED
    BY <2>1, <2>4, <2>5 DEF Marked
<1> QED
  BY <1>0, <1>1, <1>2 DEF Held

(* A comment more, or one rewritten.                                       *)
LEMMA OneRowMore ==
  ASSUME NEW a, IsBoard(a), NEW x, NEW text, NEW under, NEW b,
         b = [a EXCEPT !.rows = Append(@, Row(x, text, under))]
  PROVE  SameMarks(a, b)
<1>1. PICK r : r = Row(x, text, under)
  OBVIOUS
<1>2. DOMAIN r = RowFields /\ IsFiniteSet(r.likers) /\ r.likers = {}
  BY <1>1, FS_EmptySet DEF Row, RowFields
<1>3. DOMAIN b = DOMAIN a /\ b.rows = Append(a.rows, r) /\ b.reports = a.reports
  BY <1>1 DEF IsBoard
<1> DEFINE S == {a.rows[n] : n \in DOMAIN a.rows}
<1>4. a.rows \in Seq(S)
  BY DEF IsBoard, IsRows
<1>5. /\ Len(b.rows) = Len(a.rows) + 1 /\ Len(a.rows) \in Nat
      /\ DOMAIN a.rows = 1..Len(a.rows) /\ DOMAIN b.rows = 1..Len(b.rows)
      /\ \A n \in 1..Len(a.rows) : b.rows[n] = a.rows[n]
      /\ b.rows[Len(a.rows) + 1] = r
  BY <1>3, <1>4
<1>6. b.rows \in Seq({b.rows[n] : n \in DOMAIN b.rows})
  <2> HIDE DEF S
  <2> DEFINE T == S \cup {r}
  <2>1. a.rows \in Seq(T) /\ r \in T
    BY <1>4
  <2> HIDE DEF T
  <2>2. Append(a.rows, r) \in Seq(T)
    BY <2>1
  <2> QED
    BY <1>3, <2>2, ListOfOwn
<1>7. \A n \in DOMAIN b.rows : n \in DOMAIN a.rows \/ n = Len(a.rows) + 1
  BY <1>5
<1>8. IsRows(b.rows)
  <2>1. \A n \in DOMAIN a.rows : DOMAIN a.rows[n] = RowFields /\ IsFiniteSet(a.rows[n].likers)
    BY DEF IsBoard, IsRows
  <2> QED
    BY <1>2, <1>5, <1>6, <1>7, <2>1 DEF IsRows
<1>9. IsBoard(b)
  BY <1>3, <1>5, <1>8 DEF IsBoard
<1> QED
  BY <1>2, <1>3, <1>5, <1>7, <1>9 DEF SameMarks, Elder

SameRows(r, s) ==
  /\ IsRows(s) /\ Len(s) = Len(r)
  /\ \A n \in DOMAIN r : s[n].by = r[n].by /\ s[n].likers = r[n].likers

LEMMA SameRowsSelf ==
  ASSUME NEW r, IsRows(r)
  PROVE  SameRows(r, r)
  BY DEF SameRows

LEMMA SameRowsTwice ==
  ASSUME NEW r, NEW s, NEW u, IsRows(r), SameRows(r, s), SameRows(s, u)
  PROVE  SameRows(r, u)
<1>1. DOMAIN r = 1..Len(r) /\ DOMAIN s = 1..Len(r)
  BY RowsFacts DEF SameRows
<1> QED
  BY <1>1 DEF SameRows

(* One row is replaced.                                                    *)
OneNew(r, s, k, w) == s = [r EXCEPT ![k] = w]
OneMarked(r, s) ==
  \E k, v : s = [r EXCEPT ![k].gone = v] \/ s = [r EXCEPT ![k].live = v] \/ s = [r EXCEPT ![k].text = v]

LEMMA RowsOf ==
  ASSUME NEW T, NEW s \in Seq(T), \A n \in DOMAIN s : DOMAIN s[n] = RowFields /\ IsFiniteSet(s[n].likers)
  PROVE  IsRows(s)
  BY ListOfOwn DEF IsRows

LEMMA OneRowNew ==
  ASSUME NEW r, IsRows(r), NEW k, NEW w, NEW s, OneNew(r, s, k, w),
         k \in DOMAIN r => DOMAIN w = RowFields /\ IsFiniteSet(w.likers)
  PROVE  /\ IsRows(s) /\ Len(s) = Len(r) /\ DOMAIN s = DOMAIN r
         /\ \A n \in DOMAIN r : s[n] = IF n = k THEN w ELSE r[n]
<1> DEFINE S == {r[n] : n \in DOMAIN r}
           T == S \cup {w}
<1>1. r \in Seq(S) /\ \A n \in DOMAIN r : DOMAIN r[n] = RowFields /\ IsFiniteSet(r[n].likers)
  BY DEF IsRows
<1>2. DOMAIN s = DOMAIN r /\ \A n \in DOMAIN r : s[n] = IF n = k THEN w ELSE r[n]
  BY DEF OneNew
<1> HIDE DEF S
<1>3. Len(r) \in Nat /\ DOMAIN r = 1..Len(r) /\ \A n \in 1..Len(r) : r[n] \in T
  BY <1>1
<1>4. \A n \in 1..Len(r) : s[n] \in T
  BY <1>2, <1>3
<1> HIDE DEF T
<1>5. s = [n \in 1..Len(r) |-> s[n]]
  BY <1>3 DEF OneNew
<1>6. [n \in 1..Len(r) |-> s[n]] \in Seq(T)
  BY <1>3, <1>4
<1>7. s \in Seq(T)
  BY <1>5, <1>6
<1>8. Len(s) = Len(r)
  BY <1>2, <1>3, <1>7
<1>9. \A n \in DOMAIN s : DOMAIN s[n] = RowFields /\ IsFiniteSet(s[n].likers)
  BY <1>1, <1>2
<1>10. IsRows(s)
  BY <1>7, <1>9, RowsOf
<1> QED
  BY <1>2, <1>8, <1>10

(* Its mark of deletion, or its text, is written over.                     *)
LEMMA OneRowMarked ==
  ASSUME NEW r, IsRows(r), NEW s, OneMarked(r, s)
  PROVE  SameRows(r, s)
<1>0. PICK k, v : s = [r EXCEPT ![k].gone = v] \/ s = [r EXCEPT ![k].live = v] \/ s = [r EXCEPT ![k].text = v]
  BY Zenon DEF OneMarked
<1>1. PICK w : /\ w \in {[r[k] EXCEPT !.gone = v], [r[k] EXCEPT !.live = v], [r[k] EXCEPT !.text = v]}
               /\ OneNew(r, s, k, w)
  BY <1>0, Zenon DEF OneNew
<1>2. k \in DOMAIN r => DOMAIN w = RowFields /\ w.likers = r[k].likers /\ w.by = r[k].by
                         /\ IsFiniteSet(r[k].likers)
  BY <1>1 DEF IsRows, RowFields
<1>3. /\ IsRows(s) /\ Len(s) = Len(r) /\ DOMAIN s = DOMAIN r
      /\ \A n \in DOMAIN r : s[n] = IF n = k THEN w ELSE r[n]
  BY <1>1, <1>2, OneRowNew
<1> QED
  BY <1>2, <1>3 DEF SameRows

LEMMA RemovedRows ==
  ASSUME NEW r, IsRows(r), NEW k
  PROVE  SameRows(r, Removed(r, k))
<1>1. PICK one : OneMarked(r, one) /\ (OneMarked(one, Removed(r, k)) \/ Removed(r, k) = one)
  BY Zenon DEF Removed, OneMarked
<1>2. SameRows(r, one)
  BY <1>1, OneRowMarked
<1>3. IsRows(one)
  BY <1>2 DEF SameRows
<1>4. SameRows(one, Removed(r, k))
  BY <1>1, <1>3, OneRowMarked, SameRowsSelf
<1> QED
  BY <1>2, <1>4, SameRowsTwice

LEMMA RowsRewritten ==
  ASSUME NEW a, IsBoard(a), NEW b, NEW r, SameRows(a.rows, r), b = [a EXCEPT !.rows = r]
  PROVE  SameMarks(a, b)
<1>1. DOMAIN b = DOMAIN a /\ b.rows = r /\ b.reports = a.reports
  BY DEF IsBoard
<1>2. IsRows(a.rows) /\ IsRows(r)
  BY DEF IsBoard, SameRows
<1>3. DOMAIN r = DOMAIN a.rows /\ Len(r) = Len(a.rows) /\ Len(r) \in Nat
  BY <1>2, RowsFacts DEF SameRows
<1> QED
  BY <1>1, <1>2, <1>3 DEF SameMarks, SameRows, IsBoard, Elder

----------------------------------------------------------------------------
(* The dialog changes *)

(* Fields that the proofs look at.                                         *)
SameTalk(t, e) ==
  /\ Shape(e) /\ e.open = t.open /\ e.form = t.form /\ e.list = t.list /\ e.count = t.count
  /\ e.liked = t.liked /\ e.reported = t.reported /\ e.stale = t.stale /\ e.loose = t.loose

LEMMA PostsIs ==
  ASSUME NEW t, Shape(t), NEW c, NEW e, e = Posts(t, c)
  PROVE  SameTalk(t, e) /\ e.calls = t.calls \cup {c}
  BY DEF Posts, Shape, TalkFields, SameTalk

LEMMA RereadingIs ==
  ASSUME NEW t, Shape(t), NEW b, NEW e, e = Rereading(t, b)
  PROVE  \E r : r.kind = "read" /\ r.seen = b /\ e = Posts(t, r)
<1> DEFINE r == [kind |-> "read", n |-> FreeIn(t.calls), id |-> 0, text |-> "", token |-> token', seen |-> b]
<1>1. e = Posts(t, r)
  BY Zenon DEF Rereading, Posts
<1>2. r.kind = "read" /\ r.seen = b
  BY Zenon
<1> QED
  BY <1>1, <1>2, Zenon

LEMMA PostingIs ==
  ASSUME NEW kind, NEW id, NEW text, NEW p, p = Posting(kind, id, text)
  PROVE  p.kind = kind /\ p.id = id /\ p.token = token /\ p.seen = board
  BY Zenon DEF Posting

LEMMA CountByIs ==
  ASSUME NEW t, Shape(t), NEW d, NEW e, e = CountBy(t, d)
  PROVE  /\ Shape(e) /\ e.open = t.open /\ e.form = t.form /\ e.list = t.list /\ e.calls = t.calls
         /\ e.liked = t.liked /\ e.reported = t.reported /\ e.stale = t.stale /\ e.loose = t.loose
  BY DEF CountBy, Shape, TalkFields

LEMMA AwayIs ==
  ASSUME NEW t, Shape(t), NEW e, e = Away(t)
  PROVE  /\ Shape(e) /\ e.open = FALSE /\ e.form = 0 /\ e.list = t.list /\ e.calls = t.calls
         /\ e.liked = t.liked /\ e.reported = t.reported /\ e.stale = t.stale /\ e.loose = t.loose
  BY DEF Away, Shape, TalkFields

(* Other calls than likes, more or less of them, mark nothing.             *)
LEMMA MarkingStays ==
  ASSUME NEW C, NEW c, ~Liking(c)
  PROVE  \A n : Marking(C \cup {c}, n) = Marking(C, n) /\ Marking(C \ {c}, n) = Marking(C, n)
  BY DEF Marking

LEMMA MarkedStays ==
  ASSUME NEW t, NEW e, NEW b, NEW o, Marked(t, b, o), e.liked = t.liked, e.reported = t.reported,
         \A n \in DOMAIN b.rows : Marking(e.calls, n) = Marking(t.calls, n)
  PROVE  Marked(e, b, o)
<1>1. OfOthers(e, b) /\ ReportsOk(e, b)
  BY DEF Marked, OfOthers, ReportsOk
<1>2. ASSUME NEW n \in DOMAIN b.rows
      PROVE  /\ \A l : OneLike(t.calls, n, o, l) => OneLike(e.calls, n, o, l)
             /\ \A a : Marks(e.calls, n, a, o) <=> Marks(t.calls, n, a, o)
  BY <1>2 DEF OneLike, Marks
<1>3. LikesOk(e, b, o)
  BY <1>2 DEF LikesOk, Marked
<1> QED
  BY <1>1, <1>3 DEF Marked

(* A call that is no like is sent, or a call is over that is none.         *)
LEMMA SendingHeld ==
  ASSUME NEW t, NEW b, NEW o, Held(t, b, o), NEW c, ~Liking(c), Sends(c, b, o),
         NEW e, SameTalk(t, e), e.calls = t.calls \cup {c}
  PROVE  /\ Held(e, b, o)
         /\ c.kind \in Rewriting \cup {"read"} => TalkGood(e, b, o)
<1>1. ~t.loose => Marked(e, b, o)
  BY MarkingStays, MarkedStays DEF Held, SameTalk
<1>2. Held(e, b, o)
  BY <1>1 DEF Held, SameTalk
<1>3. c.kind \in Rewriting \cup {"read"} => Pending(e.calls)
  BY DEF Pending
<1> QED
  BY <1>2, <1>3 DEF TalkGood, InStep

LEMMA ReadingGood ==
  ASSUME NEW t, NEW b, NEW o, Held(t, b, o), NEW e, e = Rereading(t, b)
  PROVE  TalkGood(e, b, o) /\ e.form = t.form
<1>1. PICK r : r.kind = "read" /\ r.seen = b /\ e = Posts(t, r)
  BY RereadingIs DEF Held
<1>2. Sends(r, b, o) /\ ~Liking(r)
  BY <1>1, ElderSelf DEF Sends, Liking, Held
<1>3. SameTalk(t, e) /\ e.calls = t.calls \cup {r}
  BY <1>1, PostsIs DEF Held
<1> QED
  BY <1>1, <1>2, <1>3, SendingHeld DEF SameTalk

(* Something of the page's side changes, or calls are over that mark       *)
(* nothing.                                                                *)
LEMMA HeldOn ==
  ASSUME NEW t, NEW b, NEW o, Held(t, b, o), NEW e, Shape(e), e.liked = t.liked, e.reported = t.reported,
         e.calls \subseteq t.calls, \A c \in e.list : IsComment(c, b),
         ~e.loose => ~t.loose /\ \A n \in DOMAIN b.rows : Marking(e.calls, n) = Marking(t.calls, n)
  PROVE  Held(e, b, o)
<1>1. ~e.loose => Marked(e, b, o)
  BY MarkedStays DEF Held
<1> QED
  BY <1>1 DEF Held

LEMMA GoodOn ==
  ASSUME NEW t, NEW b, NEW o, TalkGood(t, b, o), NEW e, Shape(e), e.liked = t.liked, e.reported = t.reported,
         e.calls = t.calls, e.list = t.list, ~e.loose => ~t.loose, ~e.stale => ~t.stale,
         e.open => t.open /\ e.count = t.count
  PROVE  TalkGood(e, b, o)
<1>1. Held(e, b, o)
  BY HeldOn DEF TalkGood, Held
<1>2. ~e.loose => InStep(e, b)
  BY DEF TalkGood, InStep
<1> QED
  BY <1>1, <1>2 DEF TalkGood

LEMMA StaleGood ==
  ASSUME NEW t, NEW b, NEW o, Held(t, b, o), NEW e, e = [t EXCEPT !.stale = TRUE]
  PROVE  TalkGood(e, b, o) /\ e.form = t.form
<1>1. /\ Shape(e) /\ e.liked = t.liked /\ e.reported = t.reported /\ e.calls = t.calls /\ e.list = t.list
      /\ e.loose = t.loose /\ e.stale = TRUE /\ e.form = t.form
  BY DEF Held, Shape, TalkFields
<1>2. Held(e, b, o)
  BY <1>1, HeldOn DEF Held
<1> QED
  BY <1>1, <1>2 DEF TalkGood, InStep

(* The form of a report stays true to newer comments.                      *)
LEMMA FormStays ==
  ASSUME NEW form, NEW a, NEW b, NEW o, NEW tok, FormOk(form, a, o, tok), IsBoard(a), IsBoard(b), Elder(a, b)
  PROVE  FormOk(form, b, o, tok)
  BY ElderFacts DEF FormOk

----------------------------------------------------------------------------
(* What the member does in the dialog *)

LEMMA DialogFacts ==
  ASSUME TalkInv
  PROVE  /\ Held(talk, board, owners) /\ TalkGood(talk, board, owners) /\ Shape(talk) /\ IsBoard(board)
         /\ \A c \in talk.list : IsComment(c, board)
         /\ \A c \in talk.calls : Sends(c, board, owners)
         /\ FormOk(talk.form, board, owners, token)
  BY DEF TalkInv, TalkGood, Held

(* What is shown in step with the server bears the server's numbers.       *)
LEMMA ListedIsNumbered ==
  ASSUME NEW t, NEW b, NEW o, TalkGood(t, b, o), ~t.loose, t.open, ~t.stale, ~Pending(t.calls), NEW c \in t.list
  PROVE  c.id \in DOMAIN b.rows /\ c.id > 0
<1>1. IsBoard(b) /\ t.list = {Weighed(t.calls, b, n) : n \in Alive(b)}
  BY DEF TalkGood, Held, InStep
<1>2. PICK n \in Alive(b) : c = Weighed(t.calls, b, n)
  BY <1>1
<1>3. n \in DOMAIN b.rows
  BY DEF Alive
<1>4. c.id = n
  BY <1>1, <1>2, <1>3, WeighedIs
<1> QED
  BY <1>1, <1>3, <1>4, RowsFacts DEF IsBoard

(* A call of the member who is signed in, about a comment of someone else  *)
(* when it is a like or a report.                                          *)
LEMMA SendsNow ==
  ASSUME SessionOk, LoggedIn, NEW b, IsBoard(b), b = board, NEW kind, NEW id, NEW text, NEW p,
         p = Posting(kind, id, text), kind \in Rewriting \cup {"like", "unlike", "report"},
         kind \in {"like", "unlike", "report"} => Foreign(id, Owner(token), b),
         kind = "report" => id > 0
  PROVE  Sends(p, b, owners)
<1>1. p.kind = kind /\ p.id = id /\ p.token = token /\ p.seen = b
  BY PostingIs
<1>2. token \in 1..Len(owners)
  BY DEF SessionOk, LoggedIn
<1> QED
  BY <1>1, <1>2, ElderSelf DEF Sends, Liking, Rewriting, Owner

LEMMA SayKeepsTalk ==
  ASSUME SessionOk, TalkInv, Speaking, NEW kind \in {"add", "reply"}, NEW under, NEW text, Say(kind, under, text)
  PROVE  TalkInv'
<1>1. PICK id, c, t, u, p :
        /\ id = -(talk.made + 1) /\ c = Comment(id, Owner(token), text, 0, under, FALSE)
        /\ t = [talk EXCEPT !.made = @ + 1, !.list = @ \cup {c}] /\ u = CountBy(t, 1)
        /\ p = Posting(kind, under, text) /\ talk' = Posts(u, p)
  BY Zenon DEF Say
<1>2. LoggedIn /\ UNCHANGED <<token, owners, board>>
  BY DEF Speaking, InDialog, SessionStays
<1>3. Shape(talk) /\ Held(talk, board, owners) /\ FormOk(talk.form, board, owners, token)
  BY DialogFacts
<1>4. /\ Shape(t) /\ t.list = talk.list \cup {c} /\ t.calls = talk.calls /\ t.liked = talk.liked
      /\ t.reported = talk.reported /\ t.loose = talk.loose /\ t.form = talk.form
  BY <1>1, <1>3 DEF Shape, TalkFields
<1>5. IsComment(c, board)
  <2>1. id \in Int /\ ~(id > 0)
    BY <1>1, <1>3 DEF Shape
  <2>2. PICK gone : c = Comment(id, Owner(token), text, 0, under, gone)
    BY <1>1, Zenon
  <2>3. DOMAIN c = CommentFields /\ c.id = id
    BY <2>2, CommentIs
  <2> QED
    BY <2>1, <2>3 DEF IsComment
<1>6. /\ Shape(u) /\ u.list = t.list /\ u.calls = t.calls /\ u.liked = t.liked
      /\ u.reported = t.reported /\ u.loose = t.loose /\ u.form = t.form
  <2>1. u = CountBy(t, 1)
    BY <1>1
  <2> QED
    BY <1>4, <2>1, CountByIs
<1>7. Held(u, board, owners)
  BY <1>3, <1>4, <1>5, <1>6, HeldOn DEF Held
<1>8. Sends(p, board, owners) /\ p.kind = kind
  BY <1>1, <1>2, <1>3, SendsNow, PostingIs DEF Held, Rewriting
<1>9. SameTalk(u, talk') /\ talk'.calls = u.calls \cup {p}
  BY <1>1, <1>6, PostsIs
<1>10. TalkGood(talk', board, owners) /\ talk'.form = talk.form
  BY <1>4, <1>6, <1>7, <1>8, <1>9, SendingHeld DEF SameTalk, Liking, Rewriting
<1> QED
  BY <1>2, <1>3, <1>10 DEF TalkInv

LEMMA EditKeepsTalk ==
  ASSUME SessionOk, TalkInv, NEW c \in talk.list, NEW text, EditComment(c, text)
  PROVE  TalkInv'
<1>1. PICK d, t, p :
        /\ d = [c EXCEPT !.text = text] /\ t = [talk EXCEPT !.list = (@ \ {c}) \cup {d}]
        /\ p = Posting("edit", c.id, text) /\ talk' = IF c.id > 0 THEN Posts(t, p) ELSE t
  BY Zenon DEF EditComment
<1>2. LoggedIn /\ UNCHANGED <<token, owners, board>>
  BY DEF EditComment, Speaking, InDialog, SessionStays
<1>3. /\ Shape(talk) /\ Held(talk, board, owners) /\ TalkGood(talk, board, owners)
      /\ FormOk(talk.form, board, owners, token) /\ IsComment(c, board)
  BY DialogFacts
<1>4. /\ Shape(t) /\ t.list = (talk.list \ {c}) \cup {d} /\ t.calls = talk.calls /\ t.liked = talk.liked
      /\ t.reported = talk.reported /\ t.loose = talk.loose /\ t.form = talk.form /\ t.open = talk.open
      /\ t.stale = talk.stale
  BY <1>1, <1>3 DEF Shape, TalkFields
<1>5. IsComment(d, board)
  BY <1>1, <1>3 DEF IsComment, CommentFields
<1>6. Held(t, board, owners)
  BY <1>3, <1>4, <1>5, HeldOn DEF Held
<1>7. TalkGood(talk', board, owners) /\ talk'.form = talk.form
  <2>1. CASE c.id > 0
    <3>1. Sends(p, board, owners) /\ p.kind = "edit"
      BY <1>1, <1>2, <1>3, SendsNow, PostingIs DEF Held, Rewriting
    <3>2. SameTalk(t, talk') /\ talk'.calls = t.calls \cup {p}
      <4>1. talk' = Posts(t, p)
        BY <1>1, <2>1
      <4> QED
        BY <1>4, <4>1, PostsIs
    <3> QED
      BY <1>4, <1>6, <3>1, <3>2, SendingHeld DEF SameTalk, Liking, Rewriting
  <2>2. CASE ~(c.id > 0)
    <3>1. talk.open /\ ~talk.stale /\ ~talk.loose => Pending(talk.calls)
      BY <1>3, <2>2, ListedIsNumbered
    <3>2. talk' = t
      BY <1>1, <2>2
    <3> QED
      BY <1>4, <1>6, <3>1, <3>2 DEF TalkGood, InStep
  <2> QED
    BY <2>1, <2>2
<1> QED
  BY <1>2, <1>3, <1>7 DEF TalkInv

(* Marks are dropped of comments the server has not numbered.              *)
LEMMA DropKeepsMarks ==
  ASSUME NEW t, NEW b, NEW o, Marked(t, b, o), NEW e, e.calls = t.calls,
         \A a \in Members : /\ e.liked[a] \subseteq t.liked[a] /\ e.reported[a] \subseteq t.reported[a]
                          /\ \A n \in DOMAIN b.rows : /\ n \in t.liked[a] => n \in e.liked[a]
                                                      /\ n \in t.reported[a] => n \in e.reported[a]
  PROVE  Marked(e, b, o)
<1>1. OfOthers(e, b) /\ ReportsOk(e, b)
  BY DEF Marked, OfOthers, ReportsOk
<1>2. LikesOk(e, b, o)
  BY DEF LikesOk, Marked
<1> QED
  BY <1>1, <1>2 DEF Marked

LEMMA RemoveKeepsTalk ==
  ASSUME SessionOk, TalkInv, NEW c \in talk.list, RemoveComment(c)
  PROVE  TalkInv'
<1>1. PICK l, t, u, p :
        /\ l = Without(talk.list, c)
        /\ t = [talk EXCEPT !.list = l, !.liked[Keeper] = @ \ {c.id}, !.reported[Keeper] = @ \ {c.id}]
        /\ u = CountBy(t, -1) /\ (\E none : p = Posting("remove", c.id, none))
        /\ (c.id > 0 => talk' = Posts(u, p)) /\ (~(c.id > 0) => talk' = u)
  BY Zenon DEF RemoveComment
<1>2. LoggedIn /\ ~c.gone /\ c.by = Keeper /\ UNCHANGED <<token, owners, board>>
  BY DEF RemoveComment, Speaking, InDialog, SessionStays, Own, Keeper
<1>3. /\ Shape(talk) /\ Held(talk, board, owners) /\ TalkGood(talk, board, owners) /\ IsBoard(board)
      /\ FormOk(talk.form, board, owners, token) /\ IsComment(c, board) /\ c.id \in Int
  BY DialogFacts DEF IsComment
<1>4. /\ Shape(t) /\ t.list = l /\ t.calls = talk.calls
      /\ t.liked = [talk.liked EXCEPT ![Keeper] = @ \ {c.id}]
      /\ t.reported = [talk.reported EXCEPT ![Keeper] = @ \ {c.id}]
      /\ t.loose = talk.loose /\ t.form = talk.form /\ t.open = talk.open /\ t.stale = talk.stale
  BY <1>1, <1>3 DEF Shape, TalkFields
<1>5. /\ Shape(u) /\ u.list = t.list /\ u.calls = t.calls /\ u.liked = t.liked /\ u.reported = t.reported
      /\ u.loose = t.loose /\ u.form = t.form /\ u.open = t.open /\ u.stale = t.stale
  <2>1. u = CountBy(t, -1)
    BY <1>1
  <2> QED
    BY <1>4, <2>1, CountByIs
<1>6. \A d \in l : IsComment(d, board)
  <2>1. PICK g, gone : l \subseteq talk.list \cup {g} /\ g = Comment(c.id, c.by, c.text, c.likes, c.under, gone)
    BY <1>1, Zenon DEF Without
  <2>2. DOMAIN g = CommentFields /\ g.id = c.id /\ g.gone = gone /\ (~gone => g.by = c.by)
    BY <2>1, CommentIs
  <2>3. IsComment(g, board)
    BY <1>2, <1>3, <2>2 DEF IsComment
  <2> QED
    BY <2>1, <2>3, DialogFacts
<1>7. ASSUME ~talk.loose PROVE Marked(u, board, owners)
  <2>1. \A n \in DOMAIN board.rows : n \in Int /\ n > 0
    BY <1>3, RowsFacts DEF IsBoard
  <2>2. ASSUME NEW n \in DOMAIN board.rows, Keeper \in Members, n \in talk.liked[Keeper] \cup talk.reported[Keeper]
        PROVE  n # c.id
    <3>1. board.rows[n].by # Keeper
      BY <1>3, <1>7, <2>1, <2>2 DEF Held, Marked, OfOthers, Foreign
    <3>2. c.id > 0 => board.rows[c.id].by = Keeper
      BY <1>2, <1>3 DEF IsComment
    <3> QED
      BY <2>1, <3>1, <3>2
  <2>3. \A a \in Members :
          /\ u.liked[a] = IF a = Keeper THEN talk.liked[a] \ {c.id} ELSE talk.liked[a]
          /\ u.reported[a] = IF a = Keeper THEN talk.reported[a] \ {c.id} ELSE talk.reported[a]
    BY <1>3, <1>4, <1>5 DEF Shape, Keepers
  <2>4. \A a \in Members :
          /\ u.liked[a] \subseteq talk.liked[a] /\ u.reported[a] \subseteq talk.reported[a]
          /\ \A n \in DOMAIN board.rows : /\ n \in talk.liked[a] => n \in u.liked[a]
                                          /\ n \in talk.reported[a] => n \in u.reported[a]
    BY <2>2, <2>3
  <2>5. u.calls = talk.calls /\ Marked(talk, board, owners)
    BY <1>3, <1>4, <1>5, <1>7 DEF Held
  <2> QED
    BY <2>4, <2>5, DropKeepsMarks
<1>8. Held(u, board, owners)
  BY <1>3, <1>4, <1>5, <1>6, <1>7 DEF Held
<1>9. TalkGood(talk', board, owners) /\ talk'.form = talk.form
  <2>1. CASE c.id > 0
    <3>1. Sends(p, board, owners) /\ p.kind = "remove"
      <4>1. PICK none : p = Posting("remove", c.id, none)
        BY <1>1
      <4> QED
        BY <1>2, <1>3, <4>1, SendsNow, PostingIs DEF Rewriting
    <3>2. SameTalk(u, talk') /\ talk'.calls = u.calls \cup {p}
      <4>1. talk' = Posts(u, p)
        BY <1>1, <2>1
      <4> QED
        BY <1>5, <4>1, PostsIs
    <3> QED
      BY <1>4, <1>5, <1>8, <3>1, <3>2, SendingHeld DEF SameTalk, Liking, Rewriting
  <2>2. CASE ~(c.id > 0)
    <3>1. talk.open /\ ~talk.stale /\ ~talk.loose => Pending(talk.calls)
      BY <1>3, <2>2, ListedIsNumbered
    <3>2. talk' = u
      BY <1>1, <2>2
    <3> QED
      BY <1>4, <1>5, <1>8, <3>1, <3>2 DEF TalkGood, InStep
  <2> QED
    BY <2>1, <2>2
<1> QED
  BY <1>2, <1>3, <1>9 DEF TalkInv

LEMMA ReportFormKeepsTalk ==
  ASSUME TalkInv, NEW c \in talk.list, OpenReport(c)
  PROVE  TalkInv'
<1>1. /\ LoggedIn /\ ~c.gone /\ c.by # Owner(token) /\ UNCHANGED <<token, owners, board>>
      /\ talk' = [talk EXCEPT !.form = c.id]
  BY DEF OpenReport, Speaking, InDialog, SessionStays, Own
<1>2. Shape(talk) /\ TalkGood(talk, board, owners) /\ IsComment(c, board)
  BY DialogFacts
<1>3. /\ Shape(talk') /\ talk'.list = talk.list /\ talk'.calls = talk.calls /\ talk'.liked = talk.liked
      /\ talk'.reported = talk.reported /\ talk'.loose = talk.loose /\ talk'.stale = talk.stale
      /\ talk'.open = talk.open /\ talk'.count = talk.count /\ talk'.form = c.id
  BY <1>1, <1>2 DEF Shape, TalkFields
<1>4. TalkGood(talk', board, owners)
  BY <1>2, <1>3, GoodOn
<1>5. FormOk(c.id, board, owners, token)
  BY <1>1, <1>2 DEF FormOk, Foreign, IsComment, LoggedIn, Owner
<1> QED
  BY <1>1, <1>3, <1>4, <1>5 DEF TalkInv

LEMMA WeightIs ==
  ASSUME NEW C, NEW n
  PROVE  /\ Weight(C, n) \in Int
         /\ \A D : Marking(D, n) = Marking(C, n) => Weight(D, n) = Weight(C, n)
  BY DEF Weight

(* A comment is liked, or is not liked any more.                           *)
LEMMA LikeKeepsTalk ==
  ASSUME SessionOk, TalkInv, NEW c \in talk.list, ToggleCommentLike(c)
  PROVE  TalkInv'
<1>1. PICK kind, likes, L, l, p, w, t :
        /\ kind = (IF c.id \in talk.liked[Keeper] THEN "unlike" ELSE "like")
        /\ likes = (IF c.id \notin talk.liked[Keeper] THEN c.likes + 1
                    ELSE IF c.likes = 0 THEN 0 ELSE c.likes - 1)
        /\ L = (IF c.id \in talk.liked[Keeper] THEN talk.liked[Keeper] \ {c.id} ELSE talk.liked[Keeper] \cup {c.id})
        /\ l = (talk.list \ {c}) \cup {[c EXCEPT !.likes = likes]}
        /\ (\E none : p = Posting(kind, c.id, none))
        /\ (~w => ~talk.loose /\ ~\E x \in talk.calls : Liking(x) /\ x.id = c.id)
        /\ t = [talk EXCEPT !.liked[Keeper] = L, !.list = l, !.loose = w]
        /\ talk' = Posts(t, p)
  <2> DEFINE on == c.id \in talk.liked[Keeper]
             likes == IF ~on THEN c.likes + 1 ELSE IF c.likes = 0 THEN 0 ELSE c.likes - 1
             kind == IF on THEN "unlike" ELSE "like"
             L == IF on THEN talk.liked[Keeper] \ {c.id} ELSE talk.liked[Keeper] \cup {c.id}
             l == (talk.list \ {c}) \cup {[c EXCEPT !.likes = likes]}
             w == talk.loose \/ \E x \in talk.calls : Liking(x) /\ x.id = c.id
             t == [talk EXCEPT !.liked[Keeper] = L, !.list = l, !.loose = w]
             p == Posting(kind, c.id, "")
  <2>1. talk' = Posts(t, p)
    BY Zenon DEF ToggleCommentLike
  <2>2. ~w => ~talk.loose /\ ~\E x \in talk.calls : Liking(x) /\ x.id = c.id
    BY Zenon
  <2> QED
    BY <2>1, <2>2, Zenon
<1>2. LoggedIn /\ ~c.gone /\ c.by # Owner(token) /\ Keeper = Owner(token) /\ UNCHANGED <<token, owners, board>>
  BY DEF ToggleCommentLike, Speaking, InDialog, SessionStays, Own, Keeper
<1>3. /\ Shape(talk) /\ Held(talk, board, owners) /\ TalkGood(talk, board, owners) /\ IsBoard(board)
      /\ FormOk(talk.form, board, owners, token) /\ IsComment(c, board) /\ c.id \in Int
  BY DialogFacts DEF IsComment
<1>4. /\ Shape(t) /\ t.list = l /\ t.calls = talk.calls /\ t.liked = [talk.liked EXCEPT ![Keeper] = L]
      /\ t.reported = talk.reported /\ t.loose = w /\ t.form = talk.form /\ t.open = talk.open
      /\ t.stale = talk.stale /\ t.count = talk.count
  <2>1. t = [talk EXCEPT !.liked[Keeper] = L, !.list = l, !.loose = w]
    BY <1>1
  <2> QED
    BY <1>3, <2>1 DEF Shape, TalkFields
<1>5. SameTalk(t, talk') /\ talk'.calls = t.calls \cup {p}
  <2>1. talk' = Posts(t, p)
    BY <1>1
  <2> QED
    BY <1>4, <2>1, PostsIs
<1>6. p.kind = kind /\ p.id = c.id /\ p.token = token /\ Liking(p)
  <2>1. PICK none : p = Posting(kind, c.id, none)
    BY <1>1
  <2>2. kind \in {"like", "unlike"}
    BY <1>1
  <2> QED
    BY <2>1, <2>2, PostingIs DEF Liking
<1>7. Sends(p, board, owners) /\ Foreign(c.id, Owner(token), board)
  <2>1. PICK none : p = Posting(kind, c.id, none)
    BY <1>1
  <2>2. kind \in {"like", "unlike"}
    BY <1>1
  <2>3. Foreign(c.id, Owner(token), board)
    BY <1>2, <1>3 DEF Foreign, IsComment
  <2> QED
    BY <1>2, <1>3, <2>1, <2>2, <2>3, SendsNow
<1>8. \A d \in talk'.list : IsComment(d, board)
  <2>1. l = (talk.list \ {c}) \cup {[c EXCEPT !.likes = likes]}
    BY <1>1
  <2>2. IsComment([c EXCEPT !.likes = likes], board)
    BY <1>3 DEF IsComment, CommentFields
  <2> QED
    BY <1>4, <1>5, <2>1, <2>2, DialogFacts DEF SameTalk
<1>9. \A d \in talk'.calls : Sends(d, board, owners)
  BY <1>4, <1>5, <1>7, DialogFacts
<1> DEFINE C == talk.calls
           D == talk'.calls
<1>10. /\ \A n : n # c.id => Marking(D, n) = Marking(C, n)
       /\ ~w => ~talk.loose /\ Marking(C, c.id) = {} /\ Marking(D, c.id) = {p}
  <2>1. ~w => ~talk.loose /\ ~\E x \in talk.calls : Liking(x) /\ x.id = c.id
    BY <1>1
  <2> QED
    BY <1>4, <1>5, <1>6, <2>1 DEF Marking
<1>11. ASSUME ~w PROVE Marked(talk', board, owners) /\ InStep(talk', board)
  <2>1. OfOthers(talk, board) /\ LikesOk(talk, board, owners) /\ ReportsOk(talk, board) /\ ~talk.loose
    BY <1>3, <1>10, <1>11 DEF Held, Marked
  <2>2. /\ DOMAIN talk.liked = Keepers /\ talk'.reported = talk.reported
        /\ talk'.liked = [talk.liked EXCEPT ![Keeper] = L]
    BY <1>3, <1>4, <1>5 DEF Shape, SameTalk
  <2>3. \A a \in Members : talk'.liked[a] = IF a = Keeper THEN L ELSE talk.liked[a]
    BY <2>2 DEF Keepers
  <2>4. /\ L = (IF c.id \in talk.liked[Keeper] THEN talk.liked[Keeper] \ {c.id}
                ELSE talk.liked[Keeper] \cup {c.id})
        /\ kind = (IF c.id \in talk.liked[Keeper] THEN "unlike" ELSE "like")
    BY <1>1
  <2>5. Keeper \in Members /\ Keeper = owners[token]
    BY <1>2 DEF SessionOk, LoggedIn, Owner
  <2>6. OfOthers(talk', board) /\ ReportsOk(talk', board)
    <3>1. \A n \in L : n \in talk.liked[Keeper] \/ n = c.id
      BY <2>4
    <3> QED
      BY <1>2, <1>7, <2>1, <2>2, <2>3, <3>1 DEF OfOthers, ReportsOk
  <2>7. ASSUME NEW n \in DOMAIN board.rows, n # c.id
        PROVE  /\ OneLike(D, n, owners, board.rows[n].likers)
               /\ \A a \in Members :
                    n \in talk'.liked[a] <=> IF Marks(D, n, a, owners) THEN a \notin board.rows[n].likers
                                             ELSE a \in board.rows[n].likers
    <3>1. Marking(D, n) = Marking(C, n)
      BY <1>10, <2>7
    <3>2. \A a \in Members : n \in talk'.liked[a] <=> n \in talk.liked[a]
      BY <2>3, <2>4, <2>7
    <3>3. OneLike(D, n, owners, board.rows[n].likers)
      BY <2>1, <3>1 DEF LikesOk, OneLike
    <3>4. \A a : Marks(D, n, a, owners) <=> Marks(C, n, a, owners)
      BY <3>1 DEF Marks
    <3> QED
      BY <2>1, <3>2, <3>3, <3>4 DEF LikesOk
  <2>8. ASSUME c.id \in DOMAIN board.rows
        PROVE  /\ \A a \in Members : c.id \in talk.liked[a] <=> a \in board.rows[c.id].likers
               /\ OneLike(D, c.id, owners, board.rows[c.id].likers)
               /\ \A a \in Members :
                    c.id \in talk'.liked[a] <=> IF Marks(D, c.id, a, owners) THEN a \notin board.rows[c.id].likers
                                                ELSE a \in board.rows[c.id].likers
    <3>1. Marking(C, c.id) = {} /\ Marking(D, c.id) = {p}
      BY <1>10, <1>11
    <3>2. \A a : ~Marks(C, c.id, a, owners) /\ (Marks(D, c.id, a, owners) <=> a = Keeper)
      BY <1>6, <2>5, <3>1 DEF Marks
    <3>3. \A a \in Members : c.id \in talk.liked[a] <=> a \in board.rows[c.id].likers
      BY <2>1, <2>8, <3>2 DEF LikesOk
    <3>4. OneLike(D, c.id, owners, board.rows[c.id].likers)
      BY <1>6, <2>4, <2>5, <3>1, <3>3 DEF OneLike
    <3> QED
      BY <2>3, <2>4, <2>5, <3>2, <3>3, <3>4
  <2>9. LikesOk(talk', board, owners)
    BY <2>7, <2>8 DEF LikesOk
  <2>10. ASSUME talk'.open, ~talk'.stale, ~Pending(D)
         PROVE  /\ talk'.list = {Weighed(D, board, n) : n \in Alive(board)}
                /\ talk'.count = Cardinality(Spoken(board))
    <3>1. talk.open /\ ~talk.stale /\ ~Pending(C)
      BY <1>4, <1>5, <2>10 DEF SameTalk, Pending
    <3>2. talk.list = {Weighed(C, board, n) : n \in Alive(board)} /\ talk.count = Cardinality(Spoken(board))
      BY <1>3, <2>1, <3>1 DEF TalkGood, InStep
    <3>3. /\ c.id \in Alive(board) /\ c = Weighed(C, board, c.id)
          /\ c.likes = Cardinality(board.rows[c.id].likers) + Weight(C, c.id)
      <4>1. PICK n \in Alive(board) : c = Weighed(C, board, n)
        BY <3>2
      <4>2. n \in DOMAIN board.rows
        BY DEF Alive
      <4>3. c.id = n /\ c.likes = Cardinality(board.rows[n].likers) + Weight(C, n)
        BY <1>2, <1>3, <4>1, <4>2, WeighedIs
      <4> QED
        BY <4>1, <4>3
    <3>4. c.id \in DOMAIN board.rows
      BY <3>3 DEF Alive
    <3>5. \A n \in Alive(board) : n # c.id => Weighed(D, board, n) = Weighed(C, board, n)
      BY <1>10, WeightIs DEF Weighed
    <3>6. likes = Cardinality(board.rows[c.id].likers) + Weight(D, c.id)
      <4>1. Marking(C, c.id) = {} /\ Marking(D, c.id) = {p}
        BY <1>10, <1>11
      <4>2. Weight(C, c.id) = 0 /\ Weight(D, c.id) = IF kind = "like" THEN 1 ELSE -1
        BY <1>6, <4>1 DEF Weight
      <4>3. /\ Cardinality(board.rows[c.id].likers) \in Nat
            /\ Keeper \in board.rows[c.id].likers => Cardinality(board.rows[c.id].likers) # 0
        BY <1>3, <3>4, FS_CardinalityType, FS_EmptySet DEF IsBoard, IsRows
      <4>4. c.id \in talk.liked[Keeper] => Keeper \in board.rows[c.id].likers
        BY <2>5, <2>8, <3>4
      <4>5. likes = IF c.id \notin talk.liked[Keeper] THEN c.likes + 1
                    ELSE IF c.likes = 0 THEN 0 ELSE c.likes - 1
        BY <1>1
      <4> QED
        BY <2>4, <3>3, <4>2, <4>3, <4>4, <4>5
    <3>7. [c EXCEPT !.likes = likes] = Weighed(D, board, c.id)
      <4>1. PICK r : r = board.rows[c.id]
        OBVIOUS
      <4>2. c = Comment(c.id, r.by, r.text, Cardinality(r.likers) + Weight(C, c.id), r.under, r.gone)
        BY <3>3, <4>1 DEF Weighed
      <4>3. ~r.gone
        BY <1>2, <1>3, <3>3, <3>4, <4>1, WeighedIs
      <4>4. [c EXCEPT !.likes = likes] = Comment(c.id, r.by, r.text, likes, r.under, r.gone)
        BY <4>2, <4>3, LikesOfComment
      <4> QED
        BY <3>6, <4>1, <4>4 DEF Weighed
    <3>8. \A n \in Alive(board) : n # c.id => Weighed(C, board, n) # c
      BY <1>3, WeighedIs DEF Alive
    <3>9. l = (talk.list \ {c}) \cup {[c EXCEPT !.likes = likes]}
      BY <1>1
    <3>10. l = {Weighed(D, board, n) : n \in Alive(board)}
      BY <3>2, <3>3, <3>5, <3>7, <3>8, <3>9
    <3> QED
      BY <1>4, <1>5, <3>2, <3>10 DEF SameTalk
  <2> QED
    BY <2>6, <2>9, <2>10 DEF Marked, InStep
<1>12. TalkGood(talk', board, owners) /\ talk'.form = talk.form
  BY <1>3, <1>4, <1>5, <1>8, <1>9, <1>11 DEF SameTalk, TalkGood, Held
<1> QED
  BY <1>2, <1>3, <1>12 DEF TalkInv

LEMMA ReportKeepsTalk ==
  ASSUME SessionOk, TalkInv, SubmitReport
  PROVE  TalkInv'
<1>1. LoggedIn /\ talk.form # 0 /\ UNCHANGED <<token, owners, board>>
  BY DEF SubmitReport, SessionStays
<1>2. /\ Shape(talk) /\ Held(talk, board, owners) /\ TalkGood(talk, board, owners) /\ IsBoard(board)
      /\ FormOk(talk.form, board, owners, token)
  BY DialogFacts
<1>3. CASE talk.form > 0 /\ \E none : talk' = Posts(talk, Posting("report", talk.form, none))
  <2>1. PICK none, p : p = Posting("report", talk.form, none) /\ talk' = Posts(talk, p)
    BY <1>3
  <2>2. Foreign(talk.form, Owner(token), board)
    BY <1>1, <1>2 DEF FormOk, Owner
  <2>3. Sends(p, board, owners) /\ p.kind = "report"
    BY <1>1, <1>2, <1>3, <2>1, <2>2, SendsNow, PostingIs
  <2>4. SameTalk(talk, talk') /\ talk'.calls = talk.calls \cup {p}
    BY <1>2, <2>1, PostsIs
  <2>5. Held(talk', board, owners)
    BY <1>2, <2>3, <2>4, SendingHeld DEF Liking
  <2>6. \A n : Weight(talk'.calls, n) = Weight(talk.calls, n)
    BY <2>3, <2>4, MarkingStays, WeightIs DEF Liking
  <2>7. \A n : Weighed(talk'.calls, board, n) = Weighed(talk.calls, board, n)
    BY <2>6 DEF Weighed
  <2>8. ~Pending(talk'.calls) => ~Pending(talk.calls)
    BY <2>4 DEF Pending
  <2>9. TalkGood(talk', board, owners)
    BY <1>2, <2>4, <2>5, <2>7, <2>8 DEF TalkGood, InStep, SameTalk
  <2> QED
    BY <1>1, <1>2, <2>4, <2>9 DEF TalkInv, SameTalk
<1>4. CASE talk' = [Reported(talk, Keeper, talk.form) EXCEPT !.loose = TRUE]
  <2>1. PICK t : t = Reported(talk, Keeper, talk.form) /\ talk' = [t EXCEPT !.loose = TRUE]
    BY <1>4
  <2>2. /\ Shape(t) /\ t.form = 0 /\ t.list = talk.list /\ t.calls = talk.calls
    BY <1>2, <2>1 DEF Reported, Shape, TalkFields
  <2>3. Shape(talk') /\ talk'.form = 0 /\ talk'.list = talk.list /\ talk'.calls = talk.calls /\ talk'.loose
    BY <2>1, <2>2 DEF Shape, TalkFields
  <2>4. TalkGood(talk', board, owners)
    BY <1>2, <2>3 DEF Held, TalkGood
  <2> QED
    BY <1>1, <2>3, <2>4 DEF TalkInv, FormOk
<1> QED
  BY <1>3, <1>4, Zenon DEF SubmitReport

LEMMA WindowKeepsTalk ==
  ASSUME TalkInv, SessionStays, OpenTalk \/ CloseTop \/ TalkHides
  PROVE  TalkInv'
<1>1. UNCHANGED <<token, owners, board>>
  BY DEF SessionStays, OpenTalk, CloseTop, InDialog, TalkHides
<1>2. /\ Shape(talk) /\ Held(talk, board, owners) /\ TalkGood(talk, board, owners)
      /\ FormOk(talk.form, board, owners, token)
  BY DialogFacts
<1>3. CASE OpenTalk
  <2>1. PICK t : t = [talk EXCEPT !.open = TRUE] /\ talk' = Rereading(t, board)
    BY <1>3 DEF OpenTalk
  <2>2. /\ Shape(t) /\ t.list = talk.list /\ t.calls = talk.calls /\ t.liked = talk.liked
        /\ t.reported = talk.reported /\ t.loose = talk.loose /\ t.form = talk.form
    BY <1>2, <2>1 DEF Shape, TalkFields
  <2>3. Held(t, board, owners)
    BY <1>2, <2>2, HeldOn DEF Held
  <2>4. TalkGood(talk', board, owners) /\ talk'.form = talk.form
    <3>1. talk' = Rereading(t, board)
      BY <2>1
    <3> QED
      BY <2>2, <2>3, <3>1, ReadingGood
  <2> QED
    BY <1>1, <1>2, <2>4 DEF TalkInv
<1>4. CASE talk' \in {[talk EXCEPT !.form = 0], [talk EXCEPT !.open = FALSE]}
  <2>1. /\ Shape(talk') /\ talk'.list = talk.list /\ talk'.calls = talk.calls /\ talk'.liked = talk.liked
        /\ talk'.reported = talk.reported /\ talk'.loose = talk.loose /\ talk'.stale = talk.stale
        /\ talk'.count = talk.count /\ (talk'.open => talk.open) /\ talk'.form \in {0, talk.form}
    BY <1>2, <1>4 DEF Shape, TalkFields
  <2>2. TalkGood(talk', board, owners)
    BY <1>2, <2>1, GoodOn
  <2> QED
    BY <1>1, <1>2, <2>1, <2>2 DEF TalkInv, FormOk
<1> QED
  BY <1>3, <1>4 DEF CloseTop, TalkHides

(* Somebody else's comment comes, or goes.                                 *)
LEMMA ElsewhereKeepsTalk ==
  ASSUME TalkInv, NEW a, (\E text : SaidElsewhere(a, text)) \/ \E n : RemovedElsewhere(a, n)
  PROVE  TalkInv'
<1>1. UNCHANGED <<token, owners>> /\ talk' = [talk EXCEPT !.stale = TRUE]
  BY DEF SaidElsewhere, RemovedElsewhere, Others, SessionStays
<1>2. Held(talk, board, owners) /\ IsBoard(board) /\ FormOk(talk.form, board, owners, token)
  BY DialogFacts
<1>3. SameMarks(board, board')
  <2>1. ASSUME NEW text, SaidElsewhere(a, text) PROVE SameMarks(board, board')
    <3>1. board' = [board EXCEPT !.rows = Append(@, Row(a, text, 0))]
      BY <2>1 DEF SaidElsewhere
    <3> QED
      BY <1>2, <3>1, OneRowMore
  <2>2. ASSUME NEW n, RemovedElsewhere(a, n) PROVE SameMarks(board, board')
    <3>1. board' = [board EXCEPT !.rows = Removed(board.rows, n)]
      BY <2>2 DEF RemovedElsewhere
    <3>2. SameRows(board.rows, Removed(board.rows, n))
      BY <1>2, RemovedRows DEF IsBoard
    <3> QED
      BY <1>2, <3>1, <3>2, RowsRewritten
  <2> QED
    BY <2>1, <2>2
<1>4. Held(talk, board', owners)
  BY <1>2, <1>3, NewMarks
<1>5. TalkGood(talk', board', owners) /\ talk'.form = talk.form
  BY <1>1, <1>4, StaleGood
<1>6. FormOk(talk.form, board', owners, token)
  BY <1>2, <1>3, FormStays DEF SameMarks
<1> QED
  BY <1>1, <1>5, <1>6 DEF TalkInv

(* Accounts are added to the list of those who have signed in.             *)
LEMMA NewOwners ==
  ASSUME NEW t, NEW b, NEW o, TalkGood(t, b, o), NEW p, Len(o) \in Nat, Len(p) \in Nat, Len(o) <= Len(p),
         \A i \in 1..Len(o) : p[i] = o[i]
  PROVE  TalkGood(t, b, p)
<1>1. \A c \in t.calls : Sends(c, b, o)
  BY DEF TalkGood, Held
<1>2. \A c \in t.calls : Sends(c, b, p)
  BY <1>1 DEF Sends, Liking
<1>3. \A n : \A c \in Marking(t.calls, n) : p[c.token] = o[c.token]
  BY <1>1 DEF Marking, Sends, Liking
<1>4. /\ \A n, a : Marks(t.calls, n, a, p) <=> Marks(t.calls, n, a, o)
      /\ \A n, l : OneLike(t.calls, n, o, l) => OneLike(t.calls, n, p, l)
  BY <1>3 DEF Marks, OneLike
<1>5. LikesOk(t, b, o) => LikesOk(t, b, p)
  BY <1>4 DEF LikesOk
<1> QED
  BY <1>2, <1>5 DEF TalkGood, Held, Marked

(* The session comes or goes, the page is loaded again.                    *)
LEMMA SessionKeepsTalk ==
  ASSUME SessionOk, TalkInv,
         \/ Ends /\ (TalkSignOut \/ TalkUnload)
         \/ UNCHANGED talkVars /\ (SessionStays \/ (~LoggedIn /\ \E a : SignIn(a)))
  PROVE  TalkInv'
<1>1. /\ Shape(talk) /\ Held(talk, board, owners) /\ TalkGood(talk, board, owners) /\ IsBoard(board)
      /\ FormOk(talk.form, board, owners, token)
  BY DialogFacts
<1>2. CASE Ends /\ TalkSignOut
  <2>1. talk' = Away(talk) /\ UNCHANGED <<board, owners>>
    BY <1>2 DEF TalkSignOut, Ends, SignOut, SessionStays
  <2>2. /\ Shape(talk') /\ ~talk'.open /\ talk'.form = 0 /\ talk'.list = talk.list /\ talk'.calls = talk.calls
        /\ talk'.liked = talk.liked /\ talk'.reported = talk.reported /\ talk'.stale = talk.stale
        /\ talk'.loose = talk.loose
    BY <1>1, <2>1, AwayIs
  <2>3. TalkGood(talk', board, owners) /\ talk'.form = 0
    BY <1>1, <2>2, GoodOn
  <2> QED
    BY <2>1, <2>3 DEF TalkInv, FormOk
<1>3. CASE Ends /\ TalkUnload
  <2>1. PICK t, w : /\ t = Away(talk) /\ talk' = [t EXCEPT !.calls = {}, !.stale = TRUE, !.loose = w]
                    /\ ~w => ~t.loose /\ ~\E c \in talk.calls : c.kind \notin Rewriting \cup {"read"}
    <3> DEFINE t == Away(talk)
               w == t.loose \/ \E c \in talk.calls : c.kind \notin Rewriting \cup {"read"}
    <3>1. ~w => ~t.loose /\ ~\E c \in talk.calls : c.kind \notin Rewriting \cup {"read"}
      BY Zenon
    <3>2. talk' = [t EXCEPT !.calls = {}, !.stale = TRUE, !.loose = w]
      BY <1>3, Zenon DEF TalkUnload
    <3> QED
      BY <3>1, <3>2, Zenon
  <2>2. UNCHANGED <<board, owners>>
    BY <1>3 DEF TalkUnload, Ends, SignOut, SessionStays
  <2>3. /\ Shape(t) /\ t.form = 0 /\ t.list = talk.list /\ t.liked = talk.liked
        /\ t.reported = talk.reported /\ t.loose = talk.loose
    BY <1>1, <2>1, AwayIs
  <2>4. /\ Shape(talk') /\ talk'.form = 0 /\ talk'.list = talk.list /\ talk'.liked = talk.liked
        /\ talk'.reported = talk.reported /\ talk'.calls = {} /\ talk'.stale = TRUE /\ talk'.loose = w
    BY <2>1, <2>3 DEF Shape, TalkFields
  <2>5. ~w => ~talk.loose /\ \A n \in DOMAIN board.rows : Marking(talk'.calls, n) = Marking(talk.calls, n)
    BY <2>1, <2>3, <2>4 DEF Marking, Liking, Rewriting
  <2>6. Held(talk', board, owners)
    BY <1>1, <2>4, <2>5, HeldOn DEF Held
  <2> QED
    BY <2>2, <2>4, <2>6 DEF TalkInv, TalkGood, InStep, FormOk
<1>4. CASE UNCHANGED talkVars /\ SessionStays
  BY <1>1, <1>4 DEF talkVars, SessionStays, TalkInv
<1>5. CASE UNCHANGED talkVars /\ ~LoggedIn /\ \E a : SignIn(a)
  <2>1. /\ Len(owners) \in Nat /\ Len(owners') \in Nat /\ Len(owners) <= Len(owners')
        /\ \A i \in 1..Len(owners) : owners'[i] = owners[i]
    <3>1. PICK a : owners' = Append(owners, a)
      BY <1>5 DEF SignIn
    <3>2. owners \in Seq(Members \cup {a})
      BY DEF SessionOk
    <3> QED
      BY <3>1, <3>2
  <2>2. UNCHANGED <<talk, board>> /\ talk.form = 0
    BY <1>1, <1>5 DEF talkVars, FormOk, LoggedIn
  <2>3. TalkGood(talk, board, owners')
    BY <1>1, <2>1, NewOwners
  <2> QED
    BY <2>2, <2>3 DEF TalkInv, FormOk
<1> QED
  BY <1>2, <1>3, <1>4, <1>5

----------------------------------------------------------------------------
(* Answers *)

LEMMA RewrittenMarks ==
  ASSUME IsBoard(board), NEW c, c.kind \in Rewriting
  PROVE  SameMarks(board, Published(c))
<1>1. ASSUME NEW under, Published(c) = [board EXCEPT !.rows = Append(@, Row(Owner(c.token), c.text, under))]
      PROVE  SameMarks(board, Published(c))
  BY <1>1, OneRowMore
<1>2. CASE c.kind = "add"
  <2>1. Published(c) = [board EXCEPT !.rows = Append(@, Row(Owner(c.token), c.text, 0))]
    BY <1>2 DEF Published
  <2> QED
    BY <1>1, <2>1
<1>3. CASE c.kind = "reply"
  <2>1. Published(c) = [board EXCEPT !.rows = Append(@, Row(Owner(c.token), c.text, c.id))]
    BY <1>3 DEF Published
  <2> QED
    BY <1>1, <2>1
<1>4. ASSUME NEW r, SameRows(board.rows, r), Published(c) = [board EXCEPT !.rows = r]
      PROVE  SameMarks(board, Published(c))
  BY <1>4, RowsRewritten
<1>5. CASE c.kind = "edit"
  <2>1. PICK r : r = [board.rows EXCEPT ![c.id].text = c.text]
    OBVIOUS
  <2>2. Published(c) = [board EXCEPT !.rows[c.id].text = c.text]
    BY <1>5 DEF Published
  <2>3. Published(c) = [board EXCEPT !.rows = r]
    BY <2>1, <2>2, Zenon
  <2>4. OneMarked(board.rows, r)
    BY <2>1, Zenon DEF OneMarked
  <2>5. SameRows(board.rows, r)
    BY <2>4, OneRowMarked DEF IsBoard
  <2> QED
    BY <1>4, <2>3, <2>5
<1>6. CASE c.kind = "remove"
  <2>1. PICK r : r = Removed(board.rows, c.id)
    OBVIOUS
  <2>2. Published(c) = [board EXCEPT !.rows = r]
    BY <1>6, <2>1 DEF Published
  <2>3. SameRows(board.rows, r)
    BY <2>1, RemovedRows DEF IsBoard
  <2> QED
    BY <1>4, <2>2, <2>3
<1> QED
  BY <1>2, <1>3, <1>5, <1>6 DEF Rewriting

(* A like, or one less, changes its comment's likes and nothing else.      *)
OtherLikes(a, b, n, l) ==
  /\ IsBoard(b) /\ Elder(a, b) /\ b.reports = a.reports /\ DOMAIN b.rows = DOMAIN a.rows
  /\ \A m \in DOMAIN a.rows : m # n => b.rows[m] = a.rows[m]
  /\ b.rows[n].likers = l
  /\ \A f \in RowFields \ {"likers"} : b.rows[n][f] = a.rows[n][f]

LEMMA LikedRow ==
  ASSUME NEW a, IsBoard(a), NEW n \in DOMAIN a.rows, NEW l, IsFiniteSet(l), NEW b,
         b = [a EXCEPT !.rows[n].likers = l]
  PROVE  OtherLikes(a, b, n, l)
<1>1. PICK w : w = [a.rows[n] EXCEPT !.likers = l]
  OBVIOUS
<1>2. PICK r : r = [a.rows EXCEPT ![n] = w]
  OBVIOUS
<1>3. b = [a EXCEPT !.rows = r]
  BY <1>1, <1>2, Zenon
<1>4. DOMAIN a.rows[n] = RowFields /\ IsRows(a.rows)
  BY DEF IsBoard, IsRows
<1>5. DOMAIN w = RowFields /\ w.likers = l /\ \A f \in RowFields \ {"likers"} : w[f] = a.rows[n][f]
  BY <1>1, <1>4 DEF RowFields
<1>6. OneNew(a.rows, r, n, w)
  BY <1>2 DEF OneNew
<1>7. /\ IsRows(r) /\ Len(r) = Len(a.rows) /\ DOMAIN r = DOMAIN a.rows
      /\ \A m \in DOMAIN a.rows : r[m] = IF m = n THEN w ELSE a.rows[m]
  BY <1>4, <1>5, <1>6, OneRowNew
<1>8. DOMAIN b = {"rows", "reports"} /\ b.rows = r /\ b.reports = a.reports
  BY <1>3 DEF IsBoard
<1>9. Len(r) \in Nat
  BY <1>7, RowsFacts
<1>10. w.by = a.rows[n].by
  BY <1>5 DEF RowFields
<1>11. IsBoard(b)
  <2>1. a.reports \subseteq Members \X DOMAIN a.rows
    BY DEF IsBoard
  <2> QED
    BY <1>7, <1>8, <2>1 DEF IsBoard
<1>12. Elder(a, b)
  <2>1. Len(a.rows) \in Nat
    BY <1>7, <1>9
  <2>2. \A m \in DOMAIN a.rows : b.rows[m].by = a.rows[m].by
    BY <1>7, <1>8, <1>10
  <2> QED
    BY <1>7, <1>8, <2>1, <2>2 DEF Elder
<1>13. \A m \in DOMAIN a.rows : m # n => b.rows[m] = a.rows[m]
  BY <1>7, <1>8
<1>14. b.rows[n] = w /\ b.reports = a.reports /\ DOMAIN b.rows = DOMAIN a.rows
  BY <1>7, <1>8
<1> QED
  BY <1>5, <1>11, <1>12, <1>13, <1>14, Zenon DEF OtherLikes

LEMMA LikedBoard ==
  ASSUME IsBoard(board), NEW c, Liking(c), Posted(c)
  PROVE  /\ c.id \in DOMAIN board.rows
         /\ OtherLikes(board, Published(c), c.id,
                       IF c.kind = "like" THEN board.rows[c.id].likers \cup {Owner(c.token)}
                       ELSE board.rows[c.id].likers \ {Owner(c.token)})
<1>1. c.id \in DOMAIN board.rows
  BY DEF Posted, Liking, Speaks, Stands
<1>2. PICK l : l = IF c.kind = "like" THEN board.rows[c.id].likers \cup {Owner(c.token)}
                   ELSE board.rows[c.id].likers \ {Owner(c.token)}
  OBVIOUS
<1>3. Published(c) = [board EXCEPT !.rows[c.id].likers = l]
  <2>1. CASE c.kind = "like"
    BY <1>2, <2>1 DEF Published
  <2>2. CASE c.kind = "unlike"
    BY <1>2, <2>2 DEF Published
  <2> QED
    BY <2>1, <2>2 DEF Liking
<1>4. IsFiniteSet(l)
  BY <1>1, <1>2, FS_AddElement, FS_RemoveElement DEF IsBoard, IsRows
<1>5. OtherLikes(board, Published(c), c.id, l)
  BY <1>1, <1>3, <1>4, LikedRow
<1> QED
  BY <1>1, <1>2, <1>5

LEMMA ReportedBoard ==
  ASSUME SessionOk, IsBoard(board), NEW c, Sends(c, board, owners), c.kind = "report"
  PROVE  LET b == Published(c)
         IN  /\ IsBoard(b) /\ Elder(board, b) /\ b.rows = board.rows
             /\ b.reports = board.reports \cup {<<Owner(c.token), c.id>>}
<1>1. PICK b : b = Published(c)
  OBVIOUS
<1>2. b = [board EXCEPT !.reports = @ \cup {<<Owner(c.token), c.id>>}]
  BY <1>1 DEF Published
<1>3. DOMAIN b = {"rows", "reports"} /\ b.rows = board.rows
        /\ b.reports = board.reports \cup {<<Owner(c.token), c.id>>}
  BY <1>2 DEF IsBoard
<1>4. Owner(c.token) \in Members /\ c.id \in DOMAIN board.rows
  BY DEF SessionOk, Sends, Foreign, Owner
<1>5. IsBoard(b) /\ Elder(board, b)
  BY <1>3, <1>4, ElderSelf DEF IsBoard, Elder
<1> QED
  BY <1>1, <1>3, <1>5

(* Once a mark that nothing corrects is left, only the table matters.      *)
LEMMA LooseGood ==
  ASSUME NEW t, NEW a, NEW b, NEW o, Held(t, a, o), IsBoard(b), Elder(a, b),
         NEW e, Shape(e), e.list = t.list, e.calls \subseteq t.calls, e.loose
  PROVE  TalkGood(e, b, o)
<1>1. IsBoard(a)
  BY DEF Held
<1> QED
  BY <1>1, ElderFacts DEF Held, TalkGood

(* A like is answered: it is not under way any more, and the server has    *)
(* it.                                                                     *)
LEMMA LikeAnswered ==
  ASSUME NEW t, NEW a, NEW b, NEW o, TalkGood(t, a, o), NEW c \in t.calls, Liking(c), c.id \in DOMAIN a.rows,
         OtherLikes(a, b, c.id, IF c.kind = "like" THEN a.rows[c.id].likers \cup {o[c.token]}
                                ELSE a.rows[c.id].likers \ {o[c.token]}),
         NEW e, Shape(e), e.open = t.open, e.list = t.list, e.count = t.count, e.liked = t.liked,
         e.reported = t.reported, e.stale = t.stale, e.calls = t.calls \ {c}, ~e.loose => ~t.loose
  PROVE  TalkGood(e, b, o)
<1> DEFINE n == c.id
           x == o[c.token]
           had == a.rows[n].likers
           has == b.rows[n].likers
           C == t.calls
           D == e.calls
<1>1. /\ IsBoard(a) /\ IsBoard(b) /\ Elder(a, b) /\ b.reports = a.reports /\ DOMAIN b.rows = DOMAIN a.rows
      /\ \A m \in DOMAIN a.rows : m # n => b.rows[m] = a.rows[m]
      /\ has = IF c.kind = "like" THEN had \cup {x} ELSE had \ {x}
      /\ \A f \in RowFields \ {"likers"} : b.rows[n][f] = a.rows[n][f]
  BY DEF OtherLikes, TalkGood, Held
<1>2. (\A d \in e.list : IsComment(d, b)) /\ \A d \in e.calls : Sends(d, b, o)
  BY <1>1, ElderFacts DEF TalkGood, Held
<1>3. /\ b.rows[n].by = a.rows[n].by /\ b.rows[n].text = a.rows[n].text /\ b.rows[n].under = a.rows[n].under
      /\ b.rows[n].gone = a.rows[n].gone /\ b.rows[n].live = a.rows[n].live
  BY <1>1 DEF RowFields
<1> SUFFICES ASSUME ~e.loose PROVE Marked(e, b, o) /\ InStep(e, b)
  BY <1>1, <1>2 DEF TalkGood, Held
<1>4. OfOthers(t, a) /\ LikesOk(t, a, o) /\ ReportsOk(t, a) /\ InStep(t, a)
  BY DEF TalkGood, Held, Marked
<1>5. OneLike(C, n, o, had) /\ c \in Marking(C, n)
  BY <1>4 DEF LikesOk, Marking
<1>6. Marking(C, n) = {c} /\ Marking(D, n) = {} /\ (c.kind = "like" <=> x \notin had)
  BY <1>5 DEF OneLike, Marking
<1>7. \A m : m # n => Marking(D, m) = Marking(C, m)
  BY DEF Marking
<1>8. OfOthers(e, b) /\ ReportsOk(e, b)
  BY <1>1, <1>4, ElderFacts DEF OfOthers, ReportsOk
<1>9. LikesOk(e, b, o)
  <2> SUFFICES ASSUME NEW m \in DOMAIN b.rows
               PROVE  /\ OneLike(D, m, o, b.rows[m].likers)
                      /\ \A y \in Members : m \in t.liked[y] <=> IF Marks(D, m, y, o) THEN y \notin b.rows[m].likers
                                                                 ELSE y \in b.rows[m].likers
    BY DEF LikesOk
  <2>1. CASE m = n
    <3>1. \A y : ~Marks(D, n, y, o) /\ (Marks(C, n, y, o) <=> y = x)
      BY <1>6 DEF Marks
    <3>2. \A y \in Members : n \in t.liked[y] <=> IF Marks(C, n, y, o) THEN y \notin had ELSE y \in had
      BY <1>4 DEF LikesOk
    <3>3. OneLike(D, n, o, has)
      BY <1>6 DEF OneLike
    <3>4. \A y : y \in has <=> IF y = x THEN y \notin had ELSE y \in had
      BY <1>1, <1>6
    <3> QED
      BY <2>1, <3>1, <3>2, <3>3, <3>4
  <2>2. CASE m # n
    <3>1. Marking(D, m) = Marking(C, m) /\ b.rows[m].likers = a.rows[m].likers
      BY <1>1, <1>7, <2>2
    <3>2. OneLike(D, m, o, b.rows[m].likers)
      <4>1. OneLike(C, m, o, a.rows[m].likers)
        BY <1>1, <1>4 DEF LikesOk
      <4> QED
        BY <3>1, <4>1 DEF OneLike
    <3>3. \A y : Marks(D, m, y, o) <=> Marks(C, m, y, o)
      BY <3>1 DEF Marks
    <3> QED
      BY <1>1, <1>4, <3>1, <3>2, <3>3 DEF LikesOk
  <2> QED
    BY <2>1, <2>2
<1>10. Alive(b) = Alive(a) /\ Spoken(b) = Spoken(a)
  BY <1>1, <1>3 DEF Alive, Spoken
<1>11. ASSUME NEW m \in DOMAIN a.rows PROVE Weighed(C, a, m) = Weighed(D, b, m)
  <2>1. CASE m = n
    <3>1. Weight(C, n) = (IF c.kind = "like" THEN 1 ELSE -1) /\ Weight(D, n) = 0
      BY <1>6 DEF Weight
    <3>2. IsFiniteSet(had) /\ Cardinality(had) \in Nat
      BY <1>1, FS_CardinalityType DEF IsBoard, IsRows
    <3>3. Cardinality(has) = Cardinality(had) + Weight(C, n)
      <4> HIDE DEF n, x, had, has, C, D
      <4>1. CASE c.kind = "like"
        <5>1. x \notin had /\ has = had \cup {x}
          BY <1>1, <1>6, <4>1
        <5>2. Cardinality(has) = Cardinality(had) + 1
          BY <3>2, <5>1, FS_AddElement
        <5> QED
          BY <3>1, <4>1, <5>2
      <4>2. CASE c.kind # "like"
        <5>1. x \in had /\ has = had \ {x}
          BY <1>1, <1>6, <4>2
        <5>2. Cardinality(has) = Cardinality(had) - 1
          BY <3>2, <5>1, FS_RemoveElement
        <5> QED
          BY <3>1, <3>2, <4>2, <5>2
      <4> QED
        BY <4>1, <4>2
    <3>4. Cardinality(has) \in Nat
      BY <1>1, FS_CardinalityType DEF IsBoard, IsRows
    <3>5. Cardinality(had) + Weight(C, n) = Cardinality(has) + Weight(D, n)
      BY <3>1, <3>3, <3>4
    <3> QED
      BY <1>3, <2>1, <3>5 DEF Weighed
  <2>2. CASE m # n
    <3>1. Marking(D, m) = Marking(C, m) /\ b.rows[m] = a.rows[m]
      BY <1>1, <1>7, <2>2
    <3>2. Weight(D, m) = Weight(C, m)
      BY <3>1 DEF Weight
    <3> QED
      BY <3>1, <3>2 DEF Weighed
  <2> QED
    BY <2>1, <2>2
<1>12. InStep(e, b)
  <2> SUFFICES ASSUME e.open, ~e.stale, ~Pending(D)
               PROVE  e.list = {Weighed(D, b, m) : m \in Alive(b)} /\ e.count = Cardinality(Spoken(b))
    BY DEF InStep
  <2>1. ~Pending(C)
    BY DEF Pending, Liking, Rewriting
  <2>2. t.list = {Weighed(C, a, m) : m \in Alive(a)} /\ t.count = Cardinality(Spoken(a))
    BY <1>4, <2>1 DEF InStep
  <2>3. \A m \in Alive(a) : Weighed(C, a, m) = Weighed(D, b, m)
    BY <1>11 DEF Alive
  <2> QED
    BY <1>10, <2>2, <2>3
<1> QED
  BY <1>8, <1>9, <1>12 DEF Marked

(* A report is answered.                                                   *)
LEMMA ReportAnswered ==
  ASSUME NEW t, NEW a, NEW b, NEW o, TalkGood(t, a, o), NEW c \in t.calls, c.kind = "report", NEW k \in Keepers,
         IsBoard(b), Elder(a, b), b.rows = a.rows, b.reports = a.reports \cup {<<o[c.token], c.id>>},
         NEW e, Shape(e), e.open = t.open, e.list = t.list, e.count = t.count, e.liked = t.liked,
         e.reported = [t.reported EXCEPT ![k] = @ \cup {c.id}], e.stale = t.stale, e.calls = t.calls \ {c},
         ~e.loose => ~t.loose /\ k = o[c.token]
  PROVE  TalkGood(e, b, o)
<1>0. IsBoard(a) /\ ~Liking(c) /\ Sends(c, a, o) /\ DOMAIN t.reported = Keepers
  BY DEF TalkGood, Held, Liking, Shape
<1>1. (\A d \in e.list : IsComment(d, b)) /\ \A d \in e.calls : Sends(d, b, o)
  BY <1>0, ElderFacts DEF TalkGood, Held
<1>2. \A n : Marking(e.calls, n) = Marking(t.calls, n)
  BY <1>0, MarkingStays
<1> SUFFICES ASSUME ~e.loose PROVE Marked(e, b, o) /\ InStep(e, b)
  BY <1>1 DEF TalkGood, Held
<1>3. OfOthers(t, a) /\ LikesOk(t, a, o) /\ ReportsOk(t, a) /\ InStep(t, a)
  BY DEF TalkGood, Held, Marked
<1>4. \A y \in Members : \A n : n \in e.reported[y] <=> n \in t.reported[y] \/ (y = o[c.token] /\ n = c.id)
  BY <1>0 DEF Keepers
<1>5. OfOthers(e, b)
  BY <1>0, <1>3, <1>4 DEF OfOthers, Foreign, Sends
<1>6. ReportsOk(e, b)
  BY <1>3, <1>4 DEF ReportsOk
<1>7. LikesOk(e, b, o)
  <2>1. \A n : /\ \A l : OneLike(t.calls, n, o, l) => OneLike(e.calls, n, o, l)
               /\ \A y : Marks(e.calls, n, y, o) <=> Marks(t.calls, n, y, o)
    BY <1>2 DEF OneLike, Marks
  <2> QED
    BY <1>3, <2>1 DEF LikesOk
<1>8. Alive(b) = Alive(a) /\ Spoken(b) = Spoken(a) /\ \A m : Weighed(e.calls, b, m) = Weighed(t.calls, a, m)
  BY <1>2, WeightIs DEF Alive, Spoken, Weighed
<1>9. ~Pending(e.calls) => ~Pending(t.calls)
  BY DEF Pending, Rewriting
<1>10. InStep(e, b)
  <2> SUFFICES ASSUME e.open, ~e.stale, ~Pending(e.calls)
               PROVE  e.list = {Weighed(e.calls, b, n) : n \in Alive(b)} /\ e.count = Cardinality(Spoken(b))
    BY DEF InStep
  <2>1. t.list = {Weighed(t.calls, a, n) : n \in Alive(a)} /\ t.count = Cardinality(Spoken(a))
    BY <1>3, <1>9 DEF InStep
  <2> QED
    BY <1>8, <2>1
<1> QED
  BY <1>5, <1>6, <1>7, <1>10 DEF Marked

(* A call is over that neither changed a mark nor is followed by a reading. *)
LEMMA AnswerGood ==
  ASSUME NEW t, NEW b, NEW o, TalkGood(t, b, o), NEW c \in t.calls, c.kind = "report",
         NEW e, Shape(e), e.liked = t.liked, e.reported = t.reported, e.calls = t.calls \ {c}, e.list = t.list,
         ~e.loose => ~t.loose, ~e.stale => ~t.stale, e.open => t.open /\ e.count = t.count
  PROVE  TalkGood(e, b, o)
<1>1. ~Liking(c)
  BY DEF Liking
<1>2. \A n : Marking(e.calls, n) = Marking(t.calls, n)
  BY <1>1, MarkingStays
<1>3. Held(e, b, o)
  BY <1>2, HeldOn DEF TalkGood, Held
<1>4. \A n : Weighed(e.calls, b, n) = Weighed(t.calls, b, n)
  BY <1>2, WeightIs DEF Weighed
<1>5. ~Pending(e.calls) => ~Pending(t.calls)
  BY DEF Pending, Rewriting
<1>6. ~e.loose => InStep(e, b)
  <2> SUFFICES ASSUME ~e.loose, e.open, ~e.stale, ~Pending(e.calls)
               PROVE  e.list = {Weighed(e.calls, b, n) : n \in Alive(b)} /\ e.count = Cardinality(Spoken(b))
    BY DEF InStep
  <2>1. t.list = {Weighed(t.calls, b, n) : n \in Alive(b)} /\ t.count = Cardinality(Spoken(b))
    BY <1>5 DEF TalkGood, InStep
  <2> QED
    BY <1>4, <2>1
<1> QED
  BY <1>3, <1>6 DEF TalkGood

(* What follows a change is a reading, or the page knows it needs one.     *)
LEMMA FollowedGood ==
  ASSUME NEW t, NEW b, NEW o, Held(t, b, o),
         NEW e, e = IF token' # 0 THEN Rereading(t, b) ELSE [t EXCEPT !.stale = TRUE]
  PROVE  TalkGood(e, b, o) /\ e.form = t.form
<1>1. CASE token' # 0
  <2>1. e = Rereading(t, b)
    BY <1>1
  <2> QED
    BY <2>1, ReadingGood
<1>2. CASE ~(token' # 0)
  <2>1. e = [t EXCEPT !.stale = TRUE]
    BY <1>2
  <2> QED
    BY <2>1, StaleGood
<1> QED
  BY <1>1, <1>2

(* Whatever is posted, the table stays a table of at least those comments. *)
LEMMA PublishedBoard ==
  ASSUME SessionOk, IsBoard(board), NEW c, Sends(c, board, owners), c.kind # "read", Posted(c)
  PROVE  IsBoard(Published(c)) /\ Elder(board, Published(c))
<1>1. CASE c.kind \in Rewriting
  BY <1>1, RewrittenMarks DEF SameMarks
<1>2. CASE Liking(c)
  BY <1>2, LikedBoard DEF OtherLikes
<1>3. CASE c.kind = "report"
  BY <1>3, ReportedBoard
<1>4. c.kind \in Rewriting \/ Liking(c) \/ c.kind = "report"
  BY DEF Sends, Liking
<1> QED
  BY <1>1, <1>2, <1>3, <1>4

LEMMA DoneKeepsTalk ==
  ASSUME SessionOk, TalkInv, NEW c \in talk.calls, TalkDone(c)
  PROVE  TalkInv'
<1>1. PICK t, u, w : /\ t = [talk EXCEPT !.calls = @ \ {c}, !.loose = w]
                     /\ ~w => ~talk.loose /\ ~(c.token # token /\ c.kind = "report")
                     /\ u = (IF c.kind = "report" THEN Reported(t, Keeper, c.id) ELSE t)
                     /\ talk' = IF c.kind \notin Rewriting THEN u
                                ELSE IF token' # 0 THEN Rereading(u, board') ELSE [u EXCEPT !.stale = TRUE]
  <2> DEFINE w == talk.loose \/ (c.token # token /\ c.kind = "report")
             t == [talk EXCEPT !.calls = @ \ {c}, !.loose = w]
             u == IF c.kind = "report" THEN Reported(t, Keeper, c.id) ELSE t
  <2>1. talk' = IF c.kind \notin Rewriting THEN u
                ELSE IF token' # 0 THEN Rereading(u, board') ELSE [u EXCEPT !.stale = TRUE]
    BY Zenon DEF TalkDone, FollowedUp
  <2>2. ~w => ~talk.loose /\ ~(c.token # token /\ c.kind = "report")
    BY Zenon
  <2> QED
    BY <2>1, <2>2, Zenon
<1>2. /\ c.kind # "read" /\ Posted(c) /\ board' = Published(c) /\ SessionStays
      /\ UNCHANGED <<token, owners>>
  BY DEF TalkDone, SessionStays
<1>3. /\ Shape(talk) /\ Held(talk, board, owners) /\ TalkGood(talk, board, owners) /\ IsBoard(board)
      /\ FormOk(talk.form, board, owners, token) /\ Sends(c, board, owners)
  BY DialogFacts
<1>4. /\ Shape(t) /\ t.open = talk.open /\ t.form = talk.form /\ t.list = talk.list /\ t.count = talk.count
      /\ t.liked = talk.liked /\ t.reported = talk.reported /\ t.stale = talk.stale
      /\ t.calls = talk.calls \ {c} /\ t.loose = w
  <2>1. t = [talk EXCEPT !.calls = @ \ {c}, !.loose = w]
    BY <1>1
  <2> QED
    BY <1>3, <2>1 DEF Shape, TalkFields
<1>5. IsBoard(board') /\ Elder(board, board')
  BY <1>2, <1>3, PublishedBoard
<1>6. TalkGood(talk', board', owners) /\ talk'.form \in {0, talk.form}
  <2>1. CASE c.kind \in Rewriting
    <3>1. u = t /\ ~Liking(c)
      BY <1>1, <2>1 DEF Rewriting, Liking
    <3>2. Held(talk, board', owners)
      BY <1>2, <1>3, <2>1, RewrittenMarks, NewMarks
    <3>3. \A n : Marking(t.calls, n) = Marking(talk.calls, n)
      BY <1>4, <3>1, MarkingStays
    <3>4. Held(t, board', owners)
      BY <1>1, <1>4, <3>2, <3>3, HeldOn DEF Held
    <3>5. talk' = IF token' # 0 THEN Rereading(t, board') ELSE [t EXCEPT !.stale = TRUE]
      BY <1>1, <2>1, <3>1
    <3> QED
      BY <1>4, <3>4, <3>5, FollowedGood
  <2>2. CASE Liking(c)
    <3>1. talk' = t
      BY <1>1, <2>2 DEF Rewriting, Liking
    <3>2. /\ c.id \in DOMAIN board.rows
          /\ OtherLikes(board, board', c.id, IF c.kind = "like" THEN board.rows[c.id].likers \cup {owners[c.token]}
                                             ELSE board.rows[c.id].likers \ {owners[c.token]})
      BY <1>2, <1>3, <2>2, LikedBoard DEF Owner
    <3>3. ~t.loose => ~talk.loose
      BY <1>1, <1>4
    <3>4. TalkGood(t, board', owners)
      BY <1>3, <1>4, <2>2, <3>2, <3>3, LikeAnswered
    <3> QED
      BY <1>4, <3>1, <3>4
  <2>3. CASE c.kind = "report"
    <3>1. u = Reported(t, Keeper, c.id) /\ talk' = u
      BY <1>1, <2>3 DEF Rewriting
    <3>2. /\ Shape(u) /\ u.open = t.open /\ u.form = 0 /\ u.list = t.list /\ u.count = t.count
          /\ u.liked = t.liked /\ u.reported = [t.reported EXCEPT ![Keeper] = @ \cup {c.id}]
          /\ u.stale = t.stale /\ u.calls = t.calls /\ u.loose = t.loose
      BY <1>4, <3>1 DEF Reported, Shape, TalkFields
    <3>3. /\ board'.rows = board.rows
          /\ board'.reports = board.reports \cup {<<owners[c.token], c.id>>}
      BY <1>2, <1>3, <2>3, ReportedBoard DEF Owner
    <3>4. c.token \in 1..Len(owners) /\ Keeper \in Keepers
      BY <1>3, <2>3 DEF Sends, Keeper, Keepers, SessionOk, LoggedIn, Owner
    <3>5. ~w => ~talk.loose /\ Keeper = owners[c.token]
      BY <1>1, <2>3, <3>4 DEF Keeper, LoggedIn, Owner, SessionOk
    <3>6. /\ u.open = talk.open /\ u.list = talk.list /\ u.count = talk.count /\ u.liked = talk.liked
          /\ u.stale = talk.stale /\ u.calls = talk.calls \ {c}
          /\ u.reported = [talk.reported EXCEPT ![Keeper] = @ \cup {c.id}]
          /\ ~u.loose => ~talk.loose /\ Keeper = owners[c.token]
      BY <1>4, <3>2, <3>5
    <3>7. PICK k \in Keepers : k = Keeper
      BY <3>4
    <3>8. /\ u.reported = [talk.reported EXCEPT ![k] = @ \cup {c.id}]
          /\ ~u.loose => ~talk.loose /\ k = owners[c.token]
      BY <3>6, <3>7
    <3>9. TalkGood(u, board', owners)
      BY <1>3, <1>5, <2>3, <3>2, <3>3, <3>6, <3>8, ReportAnswered
    <3> QED
      BY <3>1, <3>2, <3>9
  <2> QED
    BY <1>2, <1>3, <2>1, <2>2, <2>3 DEF Sends, Liking
<1>7. FormOk(talk'.form, board', owners, token)
  BY <1>3, <1>5, <1>6, FormStays DEF FormOk
<1> QED
  BY <1>2, <1>6, <1>7 DEF TalkInv

LEMMA FailureKeepsTalk ==
  ASSUME SessionOk, TalkInv, NEW c \in talk.calls, NEW why, Ends, TalkFails(c, why)
  PROVE  TalkInv'
<1>1. PICK t, u, w : /\ t = [talk EXCEPT !.calls = @ \ {c}, !.loose = w]
                     /\ ~w => ~talk.loose /\ ~Liking(c) /\ ~(c.kind = "report" /\ why = "lost")
                     /\ u = (IF token' = token THEN t ELSE Away(t))
                     /\ talk' = IF c.kind \notin Rewriting THEN u
                                ELSE IF token' # 0 THEN Rereading(u, board') ELSE [u EXCEPT !.stale = TRUE]
  <2> DEFINE w == talk.loose \/ Liking(c) \/ (c.kind = "report" /\ why = "lost")
             t == [talk EXCEPT !.calls = @ \ {c}, !.loose = w]
             u == IF token' = token THEN t ELSE Away(t)
  <2>1. talk' = IF c.kind \notin Rewriting THEN u
                ELSE IF token' # 0 THEN Rereading(u, board') ELSE [u EXCEPT !.stale = TRUE]
    BY Zenon DEF TalkFails, FollowedUp
  <2>2. ~w => ~talk.loose /\ ~Liking(c) /\ ~(c.kind = "report" /\ why = "lost")
    BY Zenon
  <2> QED
    BY <2>1, <2>2, Zenon
<1>2. /\ c.kind # "read" /\ (why = "lost" => Posted(c) /\ board' = Published(c))
      /\ (why # "lost" => board' = board)
  BY DEF TalkFails
<1>3. /\ Shape(talk) /\ Held(talk, board, owners) /\ TalkGood(talk, board, owners) /\ IsBoard(board)
      /\ FormOk(talk.form, board, owners, token) /\ Sends(c, board, owners)
  BY DialogFacts
<1>4. /\ Shape(t) /\ t.open = talk.open /\ t.form = talk.form /\ t.list = talk.list /\ t.count = talk.count
      /\ t.liked = talk.liked /\ t.reported = talk.reported /\ t.stale = talk.stale
      /\ t.calls = talk.calls \ {c} /\ t.loose = w
  <2>1. t = [talk EXCEPT !.calls = @ \ {c}, !.loose = w]
    BY <1>1
  <2> QED
    BY <1>3, <2>1 DEF Shape, TalkFields
<1>5. /\ Shape(u) /\ u.list = t.list /\ u.liked = t.liked /\ u.reported = t.reported
      /\ u.stale = t.stale /\ u.calls = t.calls /\ u.loose = t.loose
      /\ (u.open => t.open /\ u.count = t.count)
      /\ (token' = token => u.form = t.form) /\ (token' # token => u.form = 0)
  <2>1. CASE token' = token
    BY <1>1, <1>4, <2>1
  <2>2. CASE token' # token
    <3>1. u = Away(t)
      BY <1>1, <2>2
    <3> QED
      BY <1>4, <2>2, <3>1, AwayIs
  <2> QED
    BY <2>1, <2>2
<1>6. IsBoard(board') /\ Elder(board, board')
  BY <1>2, <1>3, PublishedBoard, ElderSelf
<1>7. TalkGood(talk', board', owners) /\ talk'.form = u.form
  <2>1. CASE c.kind \in Rewriting
    <3>1. ~Liking(c)
      BY <2>1 DEF Rewriting, Liking
    <3>2. Held(talk, board', owners)
      BY <1>2, <1>3, <2>1, RewrittenMarks, NewMarks
    <3>3. \A n : Marking(u.calls, n) = Marking(talk.calls, n)
      BY <1>4, <1>5, <3>1, MarkingStays
    <3>4. Held(u, board', owners)
      BY <1>1, <1>4, <1>5, <3>2, <3>3, HeldOn DEF Held
    <3>5. talk' = IF token' # 0 THEN Rereading(u, board') ELSE [u EXCEPT !.stale = TRUE]
      BY <1>1, <2>1
    <3> QED
      BY <3>4, <3>5, FollowedGood
  <2>2. CASE Liking(c) \/ (c.kind = "report" /\ why = "lost")
    <3>1. talk' = u
      BY <1>1, <2>2 DEF Rewriting, Liking
    <3>2. u.loose
      BY <1>1, <1>4, <1>5, <2>2
    <3>3. TalkGood(u, board', owners)
      BY <1>3, <1>4, <1>5, <1>6, <3>2, LooseGood
    <3> QED
      BY <3>1, <3>3
  <2>3. CASE c.kind = "report" /\ why # "lost"
    <3>1. talk' = u
      BY <1>1, <2>3 DEF Rewriting
    <3>2. ~u.loose => ~talk.loose
      BY <1>1, <1>4, <1>5
    <3>3. u.open => talk.open /\ u.count = talk.count
      BY <1>4, <1>5
    <3>4. /\ u.list = talk.list /\ u.liked = talk.liked /\ u.reported = talk.reported
          /\ u.stale = talk.stale /\ u.calls = talk.calls \ {c}
      BY <1>4, <1>5
    <3>5. TalkGood(u, board, owners)
      BY <1>3, <1>5, <2>3, <3>2, <3>3, <3>4, AnswerGood
    <3> QED
      BY <1>2, <2>3, <3>1, <3>5
  <2> QED
    BY <1>2, <1>3, <2>1, <2>2, <2>3 DEF Sends, Liking
<1>8. FormOk(talk'.form, board', owners, token')
  <2>1. CASE token' = token
    BY <1>3, <1>4, <1>5, <1>6, <1>7, <2>1, FormStays
  <2>2. CASE token' # token
    BY <1>5, <1>7, <2>2 DEF FormOk
  <2> QED
    BY <2>1, <2>2
<1>9. UNCHANGED owners
  BY DEF Ends, SessionStays, SignOut
<1> QED
  BY <1>7, <1>8, <1>9 DEF TalkInv

LEMMA ReadKeepsTalk ==
  ASSUME SessionOk, TalkInv, NEW c \in talk.calls, NEW ok \in BOOLEAN, NEW late \in BOOLEAN, TalkRead(c, ok, late)
  PROVE  TalkInv'
<1>0. PICK t, b : t = [talk EXCEPT !.calls = @ \ {c}] /\ b = IF late THEN board ELSE c.seen
  OBVIOUS
<1>1. PICK v : /\ ~v => Thread(b) = Thread(board) /\ ~\E x \in t.calls : Liking(x)
               /\ \/ talk' = [t EXCEPT !.list = Thread(b), !.count = Counted(Thread(b)), !.stale = v]
                  \/ talk' = [t EXCEPT !.stale = TRUE]
  <2> DEFINE v == Thread(b) # Thread(board) \/ \E x \in t.calls : Liking(x)
  <2>1. \/ talk' = [t EXCEPT !.list = Thread(b), !.count = Counted(Thread(b)), !.stale = v]
        \/ talk' = [t EXCEPT !.stale = TRUE]
    BY <1>0, Zenon DEF TalkRead
  <2>2. ~v => Thread(b) = Thread(board) /\ ~\E x \in t.calls : Liking(x)
    BY Zenon
  <2> QED
    BY <2>1, <2>2, Zenon
<1>2. c.kind = "read" /\ UNCHANGED <<board, token, owners>>
  BY DEF TalkRead, SessionStays
<1>3. /\ Shape(talk) /\ Held(talk, board, owners) /\ TalkGood(talk, board, owners) /\ IsBoard(board)
      /\ FormOk(talk.form, board, owners, token) /\ Sends(c, board, owners)
  BY DialogFacts
<1>4. /\ Shape(t) /\ t.form = talk.form /\ t.list = talk.list /\ t.liked = talk.liked
      /\ t.reported = talk.reported /\ t.calls = talk.calls \ {c} /\ t.loose = talk.loose
  BY <1>0, <1>3 DEF Shape, TalkFields
<1>5. \A n : Marking(t.calls, n) = Marking(talk.calls, n)
  BY <1>2, <1>4, MarkingStays DEF Liking
<1>6. Held(t, board, owners)
  BY <1>3, <1>4, <1>5, HeldOn DEF Held
<1>7. CASE talk' = [t EXCEPT !.stale = TRUE]
  BY <1>2, <1>3, <1>4, <1>6, <1>7, StaleGood DEF TalkInv
<1>8. CASE talk' = [t EXCEPT !.list = Thread(b), !.count = Counted(Thread(b)), !.stale = v]
  <2>1. /\ Shape(talk') /\ talk'.form = t.form /\ talk'.list = Thread(b) /\ talk'.count = Counted(Thread(b))
        /\ talk'.liked = t.liked /\ talk'.reported = t.reported /\ talk'.calls = t.calls
        /\ talk'.loose = t.loose /\ talk'.stale = v
    BY <1>4, <1>8 DEF Shape, TalkFields
  <2>2. IsBoard(b) /\ Elder(b, board)
    BY <1>0, <1>3, ElderSelf DEF Sends
  <2>3. \A d \in Thread(b) : IsComment(d, board)
    <3>1. Thread(b) = {Weighed({}, b, n) : n \in Alive(b)}
      BY <2>2, ThreadIs DEF Marking
    <3>2. \A n \in Alive(b) : IsComment(Weighed({}, b, n), b)
      BY <2>2, WeighedIs DEF Alive
    <3> QED
      BY <1>3, <2>2, <3>1, <3>2, ElderFacts
  <2>4. Held(talk', board, owners)
    BY <1>6, <2>1, <2>3, HeldOn
  <2>5. InStep(talk', board)
    <3> SUFFICES ASSUME ~v
                 PROVE  /\ talk'.list = {Weighed(talk'.calls, board, n) : n \in Alive(board)}
                        /\ talk'.count = Cardinality(Spoken(board))
      BY <2>1 DEF InStep
    <3>1. Thread(b) = Thread(board) /\ \A n : Marking(talk'.calls, n) = {}
      BY <1>1, <2>1 DEF Marking
    <3>2. Thread(board) = {Weighed(talk'.calls, board, n) : n \in Alive(board)}
      BY <1>3, <3>1, ThreadIs
    <3> QED
      BY <1>3, <2>1, <3>1, <3>2, CountedIs
  <2> QED
    BY <1>2, <1>3, <1>4, <2>1, <2>4, <2>5 DEF TalkInv, TalkGood
<1> QED
  BY <1>1, <1>7, <1>8

----------------------------------------------------------------------------
(* What every step does to the dialog *)

TalkStep ==
  \/ UNCHANGED talkVars /\ (SessionStays \/ (~LoggedIn /\ \E a : SignIn(a)))
  \/ Ends /\ (TalkSignOut \/ TalkUnload)
  \/ SessionStays /\ TalkHides
  \/ TalkEvents \/ TalkAnswers

LEMMA FollowersMoveTalk ==
  /\ SessionStays /\ (ListsStay \/ AdminAlone \/ UNCHANGED talkVars) => TalkStep
  /\ Ends /\ (ListsFollow \/ AdminFollows \/ LibraryFollows) => TalkStep
<1>1. Ends /\ token' = token => SessionStays
  BY DEF Ends, SessionStays, SignOut
<1> QED
  BY <1>1 DEF ListsStay, AdminAlone, ListsFollow, AdminFollows, LibraryFollows, TalkStep

LEMMA AnswersMoveTalk ==
  ASSUME BillingAnswers \/ MakeAnswers \/ ListAnswers \/ AdminAnswers
  PROVE  TalkStep
<1>1. CASE BillingAnswers
  BY <1>1, BillingEnds, FollowersMoveTalk DEF BillingAnswers, BillingAlone, TalkStep
<1>2. CASE MakeAnswers
  BY <1>2, OthersEnd, ChatStays, FoldersStay, FollowersMoveTalk DEF MakeAnswers, ChatAlone, ListsAndBillingStay
<1>3. CASE ListAnswers
  BY <1>3, ListsEnd, OthersEnd, FollowersMoveTalk DEF ListAnswers
<1>4. CASE AdminAnswers
  BY <1>4, ListsEnd, OthersEnd, FollowersMoveTalk DEF AdminAnswers
<1> QED
  BY <1>1, <1>2, <1>3, <1>4

LEMMA NextMovesTalk == [Next]_vars => TalkStep
<1>1. CASE UNCHANGED vars
  BY <1>1 DEF vars, sessionVars, SessionStays, TalkStep
<1>2. ASSUME NEW a, Login(a) PROVE TalkStep
  BY <1>2 DEF Login, TalkStep
<1>3. CASE Logout \/ LoadAgain
  BY <1>3 DEF Logout, LoadAgain, Ends, TalkStep
<1>4. CASE MakeEvents
  BY <1>4, MakeStays, FollowersMoveTalk DEF MakeEvents, SidePanel, ChatAlone, FoldersAlone, ListsAndBillingStay
<1>5. CASE BillingEvents
  <2>1. BillingEvents => SessionStays
    BY Zenon DEF BillingEvents, Open, StartPro, Close, Reload, Mutate, ConfirmUpgrade, Register
  <2> QED
    BY <1>5, <2>1, FollowersMoveTalk DEF BillingEvents, BillingAlone
<1>6. CASE HomeEvents
  BY <1>6, HomeStays DEF HomeEvents, TalkStep
<1>7. CASE AdminEvents
  BY <1>7, AdminStays, FollowersMoveTalk DEF AdminEvents
<1>8. CASE LibraryEvents
  BY <1>8, LibraryStays DEF LibraryEvents, VisitLibrary, PromptCard, talkVars, TalkStep
<1>9. CASE TalkEvents \/ TalkAnswers
  BY <1>9 DEF TalkStep
<1> QED
  BY <1>1, <1>2, <1>3, <1>4, <1>5, <1>6, <1>7, <1>8, <1>9, AnswersMoveTalk DEF Next

LEMMA TalkEventsKeepTalk ==
  ASSUME SessionOk, TalkInv, TalkEvents
  PROVE  TalkInv'
<1>1. SessionStays
  BY TalkStays
<1>2. CASE OpenTalk \/ CloseTop
  BY <1>1, <1>2, WindowKeepsTalk
<1>3. ASSUME NEW text, AddComment(text) PROVE TalkInv'
  BY <1>3, SayKeepsTalk DEF AddComment
<1>4. ASSUME NEW c \in talk.list, CommentButtons(c) PROVE TalkInv'
  <2>1. ASSUME NEW text, AddReply(c, text) PROVE TalkInv'
    BY <2>1, SayKeepsTalk DEF AddReply
  <2> QED
    BY <1>4, <2>1, LikeKeepsTalk, ReportFormKeepsTalk, RemoveKeepsTalk, EditKeepsTalk DEF CommentButtons
<1>5. ASSUME NEW a, (\E text : SaidElsewhere(a, text)) \/ \E n : RemovedElsewhere(a, n) PROVE TalkInv'
  BY <1>5, ElsewhereKeepsTalk
<1>6. CASE SubmitReport
  BY <1>6, ReportKeepsTalk
<1> QED
  BY <1>2, <1>3, <1>4, <1>5, <1>6 DEF TalkEvents, PromptDetail

LEMMA StepsKeepTalk ==
  ASSUME SessionOk, TalkInv, TalkStep
  PROVE  TalkInv'
<1>1. CASE TalkAnswers
  BY <1>1, OthersEnd, DoneKeepsTalk, ReadKeepsTalk, FailureKeepsTalk DEF TalkAnswers
<1> QED
  BY <1>1, SessionKeepsTalk, WindowKeepsTalk, TalkEventsKeepTalk DEF TalkStep

(* At most two comments, nobody likes or reports any, no dialog is open.   *)
LEMMA InitTalk == Init => TalkInv
<1> SUFFICES ASSUME Init PROVE TalkInv
  OBVIOUS
<1>1. PICK x, y, text, n : /\ n \in {0, 1, 2}
                           /\ board = [rows |-> SubSeq(<<Row(x, text, 0), Row(y, text, 1)>>, 1, n), reports |-> {}]
  <2> DEFINE a == CHOOSE z \in Accounts : TRUE
             b == IF Accounts = {a} THEN a ELSE CHOOSE z \in Accounts \ {a} : TRUE
             text == CHOOSE z \in Texts : TRUE
  <2>1. \E n \in IF left["talk"] = 0 THEN {0} ELSE {0, 1, 2} :
          board = [rows |-> SubSeq(<<Row(a, text, 0), Row(b, text, 1)>>, 1, n), reports |-> {}]
    BY Zenon DEF Init, TalkInit
  <2> HIDE DEF a, b, text
  <2> QED
    BY <2>1
<1>2. PICK no, yes : /\ ~no /\ yes
                     /\ talk = [open |-> no, form |-> 0, list |-> {}, count |-> Counted(Thread(board)),
                                liked |-> [k \in Keepers |-> {}], reported |-> [k \in Keepers |-> {}],
                                calls |-> {}, made |-> 0, stale |-> yes, loose |-> no]
  <2>1. Keepers = Accounts \cup Staff \cup {Guest}
    BY DEF Keepers, Members
  <2> QED
    BY <2>1, Zenon DEF Init, TalkInit
<1>3. /\ Shape(talk) /\ talk.form = 0 /\ talk.list = {} /\ talk.calls = {} /\ talk.stale
      /\ \A a \in Members : talk.liked[a] = {} /\ talk.reported[a] = {}
  BY <1>2 DEF Shape, TalkFields, Keepers
<1>4. IsRows(board.rows) /\ \A k \in DOMAIN board.rows : board.rows[k].likers = {}
  <2>1. PICK p, q : p = Row(x, text, 0) /\ q = Row(y, text, 1)
    OBVIOUS
  <2>2. \A r \in {p, q} : DOMAIN r = RowFields /\ IsFiniteSet(r.likers) /\ r.likers = {}
    BY <2>1, FS_EmptySet DEF Row, RowFields
  <2>3. board.rows = SubSeq(<<p, q>>, 1, n)
    BY <1>1, <2>1
  <2>4. board.rows \in Seq({p, q}) /\ \A k \in DOMAIN board.rows : board.rows[k] \in {p, q}
    BY <1>1, <2>3
  <2> QED
    BY <2>2, <2>4, RowsOf
<1>5. IsBoard(board) /\ board.reports = {}
  BY <1>1, <1>4 DEF IsBoard
<1>6. Marked(talk, board, owners)
  BY <1>3, <1>4, <1>5 DEF Marked, OfOthers, LikesOk, ReportsOk, OneLike, Marks, Marking
<1> QED
  BY <1>3, <1>5, <1>6 DEF TalkInv, TalkGood, Held, InStep, FormOk

LEMMA SpecKeepsTalk == Spec => []TalkInv
<1>1. SessionOk /\ TalkInv /\ [Next]_vars => TalkInv'
  BY NextMovesTalk, StepsKeepTalk
<1> QED
  BY <1>1, InitTalk, SessionFacts, SpecKeepsBilling, SpecKeepsComposer, PTL DEF Spec

(* While a prompt is open and nothing is under way, its comments and their *)
(* number are the server's, and so are the member's likes and reports,     *)
(* whatever was said, taken back, refused or lost before.                  *)
THEOREM DialogIsTrue == Spec => []TalkAgrees
<1>1. SessionOk /\ TalkInv => TalkAgrees
  <2> SUFFICES ASSUME SessionOk, TalkInv, talk.open, talk.calls = {}, ~talk.stale, ~talk.loose
               PROVE  /\ talk.list = Thread(board) /\ talk.count = Counted(talk.list)
                      /\ LoggedIn => \A c \in talk.list : ~c.gone =>
                           /\ c.id \in talk.liked[Keeper] <=> Owner(token) \in board.rows[c.id].likers
                           /\ c.id \in talk.reported[Keeper] <=> <<Owner(token), c.id>> \in board.reports
    BY DEF TalkAgrees
  <2>1. IsBoard(board) /\ LikesOk(talk, board, owners) /\ ReportsOk(talk, board) /\ ~Pending(talk.calls)
        /\ InStep(talk, board) /\ TalkGood(talk, board, owners)
    BY DEF TalkInv, TalkGood, Held, Marked, Pending
  <2>2. talk.list = {Weighed(talk.calls, board, n) : n \in Alive(board)} /\ talk.count = Cardinality(Spoken(board))
    BY <2>1 DEF InStep
  <2>3. talk.list = Thread(board)
    <3>1. \A n : Marking(talk.calls, n) = {}
      BY DEF Marking
    <3> QED
      BY <2>1, <2>2, <3>1, ThreadIs
  <2>4. talk.count = Counted(talk.list)
    BY <2>1, <2>2, <2>3, CountedIs
  <2>5. ASSUME LoggedIn, NEW c \in talk.list
        PROVE  /\ c.id \in talk.liked[Keeper] <=> Owner(token) \in board.rows[c.id].likers
               /\ c.id \in talk.reported[Keeper] <=> <<Owner(token), c.id>> \in board.reports
    <3>1. c.id \in DOMAIN board.rows
      BY <2>1, ListedIsNumbered
    <3>2. Keeper = Owner(token) /\ Keeper \in Members
      BY <2>5 DEF Keeper, LoggedIn, Owner, SessionOk
    <3>3. ~Marks(talk.calls, c.id, Keeper, owners)
      BY DEF Marks, Marking
    <3> QED
      BY <2>1, <3>1, <3>2, <3>3 DEF LikesOk, ReportsOk
  <2> QED
    BY <2>3, <2>4, <2>5
<1> QED
  BY <1>1, SessionFacts, SpecKeepsBilling, SpecKeepsComposer, SpecKeepsTalk, PTL
=============================================================================
