---------------------------- MODULE RepliesProofs ----------------------------
(***************************************************************************)
(* The Make screen, for any accounts, prompts, logins and conversations:   *)
(* every reply stands right after the prompt it answers, on the page and   *)
(* in the conversations it lists, however answers cross what the member    *)
(* does meanwhile.                                                         *)
(*                                                                         *)
(* The invariant speaks of all that a list of messages is built from: the  *)
(* page and its conversations (PageTold), what the server has stored       *)
(* (ThreadsTold), what the handlers of the folders carry (ChoresTold) and, *)
(* for each request under way, the prompt that waits for its reply and the *)
(* history to be put back if it fails (TasksTold).                         *)
(***************************************************************************)
EXTENDS MakeProofs

(* A prompt put aside as a note shares its number with no other message,   *)
(* and no other note is about it.                                          *)
OnEdit(m) == m.mode = "edit note"
NotesApart(ms) ==
  \A i \in DOMAIN ms : IsNote(ms[i]) =>
    /\ ms[i].by = "user"
    /\ \A j \in DOMAIN ms : /\ j # i => ms[j].key # ms[i].key
                            /\ OnEdit(ms[j]) => ms[j].target # ms[i].key
Upto(ms, k) == \A i \in DOMAIN ms : ms[i].key <= k /\ ms[i].target <= k

(* Conversations as they should read after k requests, with and without    *)
(* notes.                                                                  *)
Tales(k) == {ms \in Seq(Message) : Paired(ms) /\ NotesApart(ms) /\ Upto(ms, k)}
Plain(k) == {ms \in Tales(k) : \A i \in DOMAIN ms : ~IsNote(ms[i])}
NoNote(ms, n) == \A i \in DOMAIN ms : IsNote(ms[i]) => ms[i].key # n

(* A message in the place of another one, as a reader sees it.             *)
Echoes(m, x) == m.by = x.by /\ m.key = x.key /\ m.text = x.text

LEMMA OnEditIsNote == \A m : OnEdit(m) => IsNote(m)
  BY Zenon DEF OnEdit, IsNote

LEMMA MessageIs ==
  ASSUME NEW m \in Message
  PROVE  /\ m.by \in {"user", "ai"} /\ m.key \in Int /\ m.text \in Texts /\ m.rid \in Nat
         /\ m.sentText \in Phrases /\ m.mode \in Modes /\ m.target \in Int
  BY DEF Message

LEMMA TaleIs ==
  ASSUME NEW k, NEW ms \in Tales(k)
  PROVE  /\ ms \in Seq(Message) /\ Len(ms) \in Nat /\ DOMAIN ms = 1..Len(ms)
         /\ Paired(ms) /\ NotesApart(ms) /\ Upto(ms, k)
         /\ \A i \in DOMAIN ms : ms[i] \in Message
  BY DEF Tales

LEMMA PlainIs ==
  ASSUME NEW k, NEW ms \in Plain(k)
  PROVE  ms \in Tales(k) /\ (\A i \in DOMAIN ms : ~IsNote(ms[i])) /\ \A n : NoNote(ms, n)
  BY DEF Plain, NoNote

LEMMA LaterTales ==
  ASSUME NEW k \in Int, NEW k2 \in Int, k <= k2
  PROVE  /\ \A ms \in Tales(k) : ms \in Tales(k2)
         /\ \A ms \in Plain(k) : ms \in Plain(k2)
<1>1. ASSUME NEW ms \in Tales(k) PROVE ms \in Tales(k2)
  <2>1. Upto(ms, k2)
    <3> SUFFICES ASSUME NEW i \in DOMAIN ms PROVE ms[i].key <= k2 /\ ms[i].target <= k2
      BY DEF Upto
    <3>1. ms[i].key <= k /\ ms[i].target <= k /\ ms[i].key \in Int /\ ms[i].target \in Int
      BY TaleIs, MessageIs DEF Upto
    <3> QED
      BY <3>1
  <2> QED
    BY <2>1, TaleIs DEF Tales
<1> QED
  BY <1>1 DEF Plain

LEMMA NothingSaid ==
  ASSUME NEW k
  PROVE  <<>> \in Plain(k) /\ <<>> \in Tales(k)
<1>1. <<>> \in Seq(Message) /\ DOMAIN <<>> = {}
  OBVIOUS
<1> QED
  BY <1>1 DEF Plain, Tales, Paired, NotesApart, Upto

(* A list whose messages read the same, none of them a note any more.      *)
LEMMA RereadTale ==
  ASSUME NEW k, NEW ms \in Tales(k), NEW new \in Seq(Message), DOMAIN new = DOMAIN ms,
         \A i \in DOMAIN ms : Echoes(new[i], ms[i]) /\ new[i].target <= k /\ ~IsNote(new[i])
  PROVE  new \in Plain(k)
<1>1. Paired(new)
  <2> SUFFICES ASSUME NEW i \in DOMAIN new, new[i].by = "ai"
               PROVE  i > 1 /\ new[i-1].by = "user" /\ new[i-1].key = new[i].key /\ new[i-1].text = new[i].text
    BY DEF Paired
  <2>1. i > 1 /\ ms[i-1].by = "user" /\ ms[i-1].key = ms[i].key /\ ms[i-1].text = ms[i].text
    BY TaleIs DEF Paired, Echoes
  <2>2. i - 1 \in DOMAIN ms
    BY <2>1, TaleIs
  <2> QED
    BY <2>1, <2>2 DEF Echoes
<1>2. Upto(new, k)
  BY TaleIs DEF Upto, Echoes
<1>3. NotesApart(new)
  BY DEF NotesApart
<1> QED
  BY <1>1, <1>2, <1>3 DEF Plain, Tales

(* One message is marked, and reads as before.                             *)
LEMMA MarkedTale ==
  ASSUME NEW k, NEW ms \in Tales(k), NEW i \in DOMAIN ms, NEW m \in Message,
         Echoes(m, ms[i]), m.target <= k, ~IsNote(m)
  PROVE  [ms EXCEPT ![i] = m] \in Tales(k)
<1> DEFINE new == [ms EXCEPT ![i] = m]
<1>1. new \in Seq(Message) /\ DOMAIN new = DOMAIN ms /\ new[i] = m
      /\ \A j \in DOMAIN ms : j # i => new[j] = ms[j]
  BY TaleIs
<1> HIDE DEF new
<1>2. \A j \in DOMAIN ms : Echoes(new[j], ms[j])
  BY <1>1 DEF Echoes
<1>3. Paired(new)
  <2> SUFFICES ASSUME NEW j \in DOMAIN new, new[j].by = "ai"
               PROVE  j > 1 /\ new[j-1].by = "user" /\ new[j-1].key = new[j].key /\ new[j-1].text = new[j].text
    BY DEF Paired
  <2>1. j > 1 /\ ms[j-1].by = "user" /\ ms[j-1].key = ms[j].key /\ ms[j-1].text = ms[j].text
    BY <1>1, <1>2, TaleIs DEF Paired, Echoes
  <2>2. j - 1 \in DOMAIN ms
    BY <1>1, <2>1, TaleIs
  <2> QED
    BY <1>1, <1>2, <2>1, <2>2 DEF Echoes
<1>4. Upto(new, k)
  BY <1>1, <1>2, TaleIs DEF Upto, Echoes
<1>5. NotesApart(new)
  <2> SUFFICES ASSUME NEW a \in DOMAIN new, IsNote(new[a])
               PROVE  /\ new[a].by = "user"
                      /\ \A j \in DOMAIN new : /\ j # a => new[j].key # new[a].key
                                               /\ OnEdit(new[j]) => new[j].target # new[a].key
    BY DEF NotesApart
  <2>1. a # i /\ new[a] = ms[a] /\ a \in DOMAIN ms /\ ~OnEdit(m)
    BY <1>1, OnEditIsNote
  <2>2. ms[a].by = "user" /\ \A j \in DOMAIN ms : /\ j # a => ms[j].key # ms[a].key
                                                  /\ OnEdit(ms[j]) => ms[j].target # ms[a].key
    BY <2>1, TaleIs DEF NotesApart
  <2> QED
    BY <1>1, <1>2, <2>1, <2>2 DEF Echoes
<1> QED
  BY <1>1, <1>3, <1>4, <1>5 DEF Tales, new

(* A message is added: a reply below its prompt; or a prompt, put aside    *)
(* under a new number.                                                     *)
Below(ms, m) == ms # <<>> /\ ms[Len(ms)].by = "user" /\ ms[Len(ms)].key = m.key /\ ms[Len(ms)].text = m.text

LEMMA LongerTale ==
  ASSUME NEW k \in Int, NEW k2 \in Int, k <= k2, NEW ms \in Tales(k), NEW m \in Message,
         m.key <= k2, m.target <= k2, m.by = "ai" => Below(ms, m),
         IsNote(m) => m.by = "user" /\ k < m.key,
         OnEdit(m) => m.target # m.key /\ NoNote(ms, m.target),
         ~IsNote(m) => NoNote(ms, m.key)
  PROVE  Append(ms, m) \in Tales(k2)
<1> DEFINE new == Append(ms, m)
           n == Len(ms) + 1
<1>0. ms \in Seq(Message) /\ Len(ms) \in Nat /\ DOMAIN ms = 1..Len(ms)
  BY TaleIs
<1>1. new \in Seq(Message) /\ DOMAIN new = 1..n /\ new[n] = m /\ n \in Nat
      /\ \A i \in DOMAIN ms : new[i] = ms[i] /\ i # n /\ i \in DOMAIN new
  BY <1>0
<1>2. \A i \in DOMAIN new : i \in DOMAIN ms \/ i = n
  BY <1>0, <1>1
<1> HIDE DEF new
<1>3. Paired(new)
  <2> SUFFICES ASSUME NEW i \in DOMAIN new, new[i].by = "ai"
               PROVE  i > 1 /\ new[i-1].by = "user" /\ new[i-1].key = new[i].key /\ new[i-1].text = new[i].text
    BY DEF Paired
  <2>1. CASE i \in DOMAIN ms
    <3>1. i > 1 /\ ms[i-1].by = "user" /\ ms[i-1].key = ms[i].key /\ ms[i-1].text = ms[i].text
      BY <1>1, <2>1, TaleIs DEF Paired
    <3>2. i - 1 \in DOMAIN ms
      BY <1>0, <2>1, <3>1
    <3> QED
      BY <1>1, <2>1, <3>1, <3>2
  <2>2. CASE i = n
    <3>1. Below(ms, m)
      BY <1>1, <2>2
    <3>2. Len(ms) \in DOMAIN ms /\ n - 1 = Len(ms) /\ n > 1
      BY <1>0, <3>1 DEF Below
    <3> QED
      BY <1>1, <2>2, <3>1, <3>2 DEF Below
  <2> QED
    BY <1>2, <2>1, <2>2
<1>4. Upto(ms, k2)
  BY LaterTales, TaleIs
<1>5. Upto(new, k2)
  BY <1>1, <1>2, <1>4 DEF Upto
<1>6. NotesApart(new)
  <2> SUFFICES ASSUME NEW a \in DOMAIN new, IsNote(new[a])
               PROVE  /\ new[a].by = "user"
                      /\ \A j \in DOMAIN new : /\ j # a => new[j].key # new[a].key
                                               /\ OnEdit(new[j]) => new[j].target # new[a].key
    BY DEF NotesApart
  <2>1. \A i \in DOMAIN ms : ms[i].key <= k /\ ms[i].target <= k /\ ms[i].key \in Int /\ ms[i].target \in Int
    BY TaleIs, MessageIs DEF Upto
  <2>2. m.key \in Int /\ m.target \in Int
    BY MessageIs
  <2>3. CASE a \in DOMAIN ms
    <3>1. IsNote(ms[a]) /\ new[a] = ms[a]
      BY <1>1, <2>3
    <3>2. ms[a].by = "user" /\ \A j \in DOMAIN ms : /\ j # a => ms[j].key # ms[a].key
                                                    /\ OnEdit(ms[j]) => ms[j].target # ms[a].key
      BY <2>3, <3>1, TaleIs DEF NotesApart
    <3>3. m.key # ms[a].key
      <4>1. CASE IsNote(m)
        BY <2>1, <2>2, <2>3, <4>1
      <4>2. CASE ~IsNote(m)
        BY <2>3, <3>1, <4>2 DEF NoNote
      <4> QED
        BY <4>1, <4>2
    <3>4. OnEdit(m) => m.target # ms[a].key
      BY <2>3, <3>1 DEF NoNote
    <3> QED
      BY <1>1, <1>2, <3>1, <3>2, <3>3, <3>4
  <2>4. CASE a = n
    <3>1. m.by = "user" /\ k < m.key /\ new[a] = m
      BY <1>1, <2>4
    <3>2. \A j \in DOMAIN ms : ms[j].key # m.key /\ ms[j].target # m.key
      BY <2>1, <2>2, <3>1
    <3>3. OnEdit(m) => m.target # m.key
      OBVIOUS
    <3> QED
      BY <1>1, <1>2, <2>4, <3>1, <3>2, <3>3
  <2> QED
    BY <1>2, <2>3, <2>4
<1> QED
  BY <1>1, <1>3, <1>5, <1>6 DEF Tales, new

LEMMA LongerPlain ==
  ASSUME NEW k, NEW ms \in Plain(k), NEW k2, NEW m, Append(ms, m) \in Tales(k2), ~IsNote(m)
  PROVE  Append(ms, m) \in Plain(k2)
<1>1. ms \in Seq(Message) /\ \A i \in DOMAIN ms : ~IsNote(ms[i])
  BY PlainIs, TaleIs
<1>2. \A i \in DOMAIN Append(ms, m) : ~IsNote(Append(ms, m)[i])
  BY <1>1
<1> QED
  BY <1>2 DEF Plain

(* The beginning of a conversation.                                        *)
LEMMA CutTale ==
  ASSUME NEW k, NEW ms \in Tales(k), NEW n \in 0..Len(ms)
  PROVE  /\ SubSeq(ms, 1, n) \in Tales(k)
         /\ \A j : NoNote(ms, j) => NoNote(SubSeq(ms, 1, n), j)
         /\ ms \in Plain(k) => SubSeq(ms, 1, n) \in Plain(k)
<1> DEFINE new == SubSeq(ms, 1, n)
<1>1. new \in Seq(Message) /\ DOMAIN new = 1..n /\ \A i \in 1..n : new[i] = ms[i] /\ i \in DOMAIN ms
  BY TaleIs
<1> HIDE DEF new
<1>2. Paired(new)
  <2> SUFFICES ASSUME NEW i \in DOMAIN new, new[i].by = "ai"
               PROVE  i > 1 /\ new[i-1].by = "user" /\ new[i-1].key = new[i].key /\ new[i-1].text = new[i].text
    BY DEF Paired
  <2>1. i > 1 /\ ms[i-1].by = "user" /\ ms[i-1].key = ms[i].key /\ ms[i-1].text = ms[i].text
    BY <1>1, TaleIs DEF Paired
  <2>2. i - 1 \in 1..n
    BY <1>1, <2>1, TaleIs
  <2> QED
    BY <1>1, <2>1, <2>2
<1>3. Upto(new, k) /\ NotesApart(new)
  BY <1>1, TaleIs DEF Upto, NotesApart
<1>4. new \in Tales(k)
  BY <1>1, <1>2, <1>3 DEF Tales
<1>5. ASSUME NEW j, NoNote(ms, j) PROVE NoNote(new, j)
  BY <1>1, <1>5 DEF NoNote
<1>6. ASSUME ms \in Plain(k) PROVE new \in Plain(k)
  BY <1>1, <1>4, <1>6 DEF Plain
<1> QED
  BY <1>4, <1>5, <1>6 DEF new

(* The positions kept, one after the other.                                *)
LEMMA NthNext ==
  ASSUME NEW n \in Nat, NEW S \in SUBSET (1..n)
  PROVE  /\ \A a, b \in 1..Cardinality(S) : Nth(S, a) = Nth(S, b) => a = b
         /\ \A a \in 1..Cardinality(S) : Nth(S, a) - 1 \in S =>
              a > 1 /\ a - 1 \in 1..Cardinality(S) /\ Nth(S, a - 1) = Nth(S, a) - 1
<1> DEFINE Upon(i) == {j \in S : j <= i}
           c == Cardinality(S)
<1>1. IsFiniteSet(S) /\ c \in Nat
  <2>1. IsFiniteSet(1..n)
    BY FS_Interval
  <2>2. IsFiniteSet(S)
    BY <2>1, FS_Subset
  <2> QED
    BY <2>2, FS_CardinalityType
<1>2. \A a \in 1..c : Nth(S, a) \in S /\ Cardinality(Upon(Nth(S, a))) = a
  BY NthIsIn
<1>3. \A i \in S : i \in Nat /\ i >= 1
  OBVIOUS
<1>4. \A i : IsFiniteSet(Upon(i)) /\ Cardinality(Upon(i)) \in Nat
  <2> TAKE i
  <2>1. IsFiniteSet(Upon(i))
    BY <1>1, FS_Subset
  <2> QED
    BY <2>1, FS_CardinalityType
<1>5. ASSUME NEW x \in S, NEW y \in S, x < y
      PROVE  Cardinality(Upon(x)) < Cardinality(Upon(y))
  <2> DEFINE A == Upon(x) \cup {y}
  <2>0. /\ x <= y /\ y <= y /\ ~(y <= x)
        /\ \A j \in S : j <= x => j <= y
    BY <1>3, <1>5
  <2>1. A \subseteq Upon(y) /\ y \notin Upon(x)
    BY <2>0, Zenon
  <2>2. Cardinality(A) = Cardinality(Upon(x)) + 1
    BY <1>4, <2>1, FS_AddElement
  <2>3. Cardinality(A) <= Cardinality(Upon(y))
    BY <1>4, <2>1, FS_Subset
  <2>4. Cardinality(Upon(x)) \in Nat /\ Cardinality(Upon(y)) \in Nat
    BY <1>4
  <2> HIDE DEF A, Upon
  <2> QED
    BY <2>2, <2>3, <2>4
<1>6. ASSUME NEW x \in S, NEW y \in S, Cardinality(Upon(x)) = Cardinality(Upon(y))
      PROVE  x = y
  <2>1. ~(x < y) /\ ~(y < x)
    <3> HIDE DEF Upon
    <3> QED
      BY <1>4, <1>5, <1>6
  <2> HIDE DEF Upon
  <2> QED
    BY <1>3, <2>1
<1>7. \A a, b \in 1..c : Nth(S, a) = Nth(S, b) => a = b
  <2> HIDE DEF Upon
  <2> QED
    BY <1>2
<1>8. ASSUME NEW a \in 1..c, Nth(S, a) - 1 \in S
      PROVE  a > 1 /\ a - 1 \in 1..c /\ Nth(S, a - 1) = Nth(S, a) - 1
  <2> DEFINE i == Nth(S, a)
  <2>1. i \in S /\ Cardinality(Upon(i)) = a /\ i - 1 \in S
    BY <1>2, <1>8
  <2> HIDE DEF i
  <2>2. Upon(i) = Upon(i - 1) \cup {i} /\ i \notin Upon(i - 1) /\ i - 1 \in Upon(i - 1)
    <3>1. \A j \in S : j <= i <=> j = i \/ j <= i - 1
      BY <1>3, <2>1
    <3>2. ~(i <= i - 1) /\ i - 1 <= i - 1
      BY <1>3, <2>1
    <3> QED
      BY <2>1, <3>1, <3>2, Zenon
  <2>3. Cardinality(Upon(i)) = Cardinality(Upon(i - 1)) + 1
    <3>1. IsFiniteSet(Upon(i - 1))
      BY <1>4
    <3> HIDE DEF Upon
    <3> QED
      BY <3>1, <2>2, FS_AddElement
  <2>4. Cardinality(Upon(i - 1)) # 0
    <3>1. Upon(i - 1) # {}
      BY <2>2
    <3> HIDE DEF Upon
    <3> QED
      BY <1>4, <3>1, FS_EmptySet
  <2> HIDE DEF Upon
  <2>5. Cardinality(Upon(i - 1)) = a - 1 /\ a > 1 /\ a - 1 \in 1..c
    BY <1>1, <1>4, <2>1, <2>3, <2>4
  <2>6. Nth(S, a - 1) \in S /\ Cardinality(Upon(Nth(S, a - 1))) = a - 1
    BY <1>2, <2>5
  <2>7. Nth(S, a - 1) = i - 1
    BY <1>6, <2>1, <2>5, <2>6
  <2> QED
    BY <2>5, <2>7 DEF i
<1> QED
  BY <1>7, <1>8

Apart(ms, i) ==
  /\ ms[i].by = "user"
  /\ \A j \in DOMAIN ms : /\ j # i => ms[j].key # ms[i].key
                          /\ OnEdit(ms[j]) => ms[j].target # ms[i].key
Copies(new, a, ms, b) ==
  \A j \in DOMAIN new : \E i \in DOMAIN ms : new[j] = ms[i] /\ (j # a => i # b)

LEMMA ApartStays ==
  ASSUME NEW ms, NEW new, NEW a, NEW b, new[a] = ms[b], Apart(ms, b), Copies(new, a, ms, b)
  PROVE  Apart(new, a)
<1>1. ASSUME NEW j \in DOMAIN new
      PROVE  (j # a => new[j].key # new[a].key) /\ (OnEdit(new[j]) => new[j].target # new[a].key)
  <2>1. PICK i \in DOMAIN ms : new[j] = ms[i] /\ (j # a => i # b)
    BY Zenon DEF Copies
  <2>2. (i # b => ms[i].key # ms[b].key) /\ (OnEdit(ms[i]) => ms[i].target # ms[b].key)
    BY Zenon DEF Apart
  <2> QED
    BY <2>1, <2>2, Zenon
<1> QED
  BY <1>1, Zenon DEF Apart

(* What is kept of a conversation reads on, if no prompt is left out whose *)
(* reply is kept.                                                          *)
LEMMA KeptTale ==
  ASSUME NEW k, NEW ms \in Tales(k), NEW S \in SUBSET (DOMAIN ms),
         \A i \in S : ms[i].by = "ai" => i - 1 \in S
  PROVE  /\ Keep(ms, S) \in Tales(k)
         /\ \A a \in DOMAIN Keep(ms, S) : \E i \in S : Keep(ms, S)[a] = ms[i]
<1> DEFINE new == Keep(ms, S)
           c == Cardinality(S)
<1>0. ms \in Seq(Message) /\ Len(ms) \in Nat /\ DOMAIN ms = 1..Len(ms)
  BY TaleIs
<1>1. c \in Nat
  <2>1. IsFiniteSet(1..Len(ms))
    BY <1>0, FS_Interval
  <2>2. IsFiniteSet(S)
    BY <1>0, <2>1, FS_Subset
  <2> QED
    BY <2>2, FS_CardinalityType
<1>2. new \in Seq(Message)
  BY <1>0, KeptOf
<1>3. DOMAIN new = 1..c /\ \A a \in 1..c : new[a] = ms[Nth(S, a)] /\ Nth(S, a) \in S
  <2>1. \A a \in 1..c : Nth(S, a) \in S
    BY <1>0, NthIsIn
  <2> QED
    BY <2>1 DEF Keep
<1>4. /\ \A a, b \in 1..c : Nth(S, a) = Nth(S, b) => a = b
      /\ \A a \in 1..c : Nth(S, a) - 1 \in S => a > 1 /\ a - 1 \in 1..c /\ Nth(S, a - 1) = Nth(S, a) - 1
  BY <1>0, NthNext
<1> HIDE DEF new, c
<1>5. Paired(new)
  <2> SUFFICES ASSUME NEW a \in DOMAIN new, new[a].by = "ai"
               PROVE  a > 1 /\ new[a-1].by = "user" /\ new[a-1].key = new[a].key /\ new[a-1].text = new[a].text
    BY DEF Paired
  <2> DEFINE i == Nth(S, a)
  <2>1. i \in S /\ new[a] = ms[i] /\ i - 1 \in S
    BY <1>3
  <2>2. i > 1 /\ ms[i-1].by = "user" /\ ms[i-1].key = ms[i].key /\ ms[i-1].text = ms[i].text
    BY <2>1, TaleIs DEF Paired
  <2>3. a > 1 /\ new[a - 1] = ms[i - 1]
    BY <1>3, <1>4, <2>1
  <2> QED
    BY <2>1, <2>2, <2>3
<1>6. Upto(new, k)
  BY <1>3, TaleIs DEF Upto
<1>7. NotesApart(new)
  <2> SUFFICES ASSUME NEW a \in DOMAIN new, IsNote(new[a])
               PROVE  /\ new[a].by = "user"
                      /\ \A j \in DOMAIN new : /\ j # a => new[j].key # new[a].key
                                               /\ OnEdit(new[j]) => new[j].target # new[a].key
    BY DEF NotesApart
  <2>1. Nth(S, a) \in S /\ new[a] = ms[Nth(S, a)]
    BY <1>3
  <2>2. /\ ms[Nth(S, a)].by = "user"
        /\ \A j \in DOMAIN ms : /\ j # Nth(S, a) => ms[j].key # ms[Nth(S, a)].key
                                /\ OnEdit(ms[j]) => ms[j].target # ms[Nth(S, a)].key
    BY <2>1, TaleIs DEF NotesApart
  <2>3. \A j \in DOMAIN new : Nth(S, j) \in DOMAIN ms /\ new[j] = ms[Nth(S, j)] /\ (j # a => Nth(S, j) # Nth(S, a))
    <3> TAKE j \in DOMAIN new
    <3>1. j \in 1..c /\ a \in 1..c
      BY <1>3
    <3>2. Nth(S, j) \in S /\ new[j] = ms[Nth(S, j)]
      BY <1>3, <3>1
    <3>3. Nth(S, j) = Nth(S, a) => j = a
      BY <1>4, <3>1, Zenon
    <3> QED
      BY <3>2, <3>3
  <2> DEFINE b == Nth(S, a)
  <2> HIDE DEF b
  <2>4. /\ new[a] = ms[b] /\ ms[b].by = "user"
        /\ \A j \in DOMAIN ms : /\ j # b => ms[j].key # ms[b].key
                                /\ OnEdit(ms[j]) => ms[j].target # ms[b].key
    BY <2>1, <2>2 DEF b
  <2>5. Copies(new, a, ms, b)
    BY <2>3 DEF b, Copies
  <2>6. new[a] = ms[b] /\ Apart(ms, b)
    BY <2>4, Zenon DEF Apart
  <2>7. Apart(new, a)
    BY <2>5, <2>6, ApartStays
  <2> QED
    BY <2>7, Zenon DEF Apart
<1>8. new \in Tales(k)
  BY <1>2, <1>5, <1>6, <1>7 DEF Tales
<1> QED
  BY <1>3, <1>8 DEF new

(* A prompt that is a note has no reply.                                   *)
LEMMA RepliesAreNoNotes ==
  ASSUME NEW k, NEW ms \in Tales(k), NEW i \in DOMAIN ms, ms[i].by = "ai"
  PROVE  /\ i - 1 \in DOMAIN ms /\ ~IsNote(ms[i]) /\ ~IsNote(ms[i-1])
         /\ ms[i-1].by = "user" /\ ms[i-1].key = ms[i].key
<1>1. i > 1 /\ ms[i-1].by = "user" /\ ms[i-1].key = ms[i].key
  BY TaleIs DEF Paired
<1>2. i - 1 \in DOMAIN ms /\ i - 1 # i
  BY <1>1, TaleIs
<1>3. ~IsNote(ms[i]) /\ ~IsNote(ms[i-1])
  BY <1>1, <1>2, TaleIs DEF NotesApart
<1> QED
  BY <1>1, <1>2, <1>3

LEMMA HistoryTale ==
  ASSUME NEW k, 0 <= k, NEW ms \in Tales(k)
  PROVE  History(ms) \in Plain(k)
<1> DEFINE S == {i \in DOMAIN ms : ~IsNote(ms[i])}
           asks == Keep(ms, S)
           new(m) == [m EXCEPT !.rid = 0, !.mode = "new", !.sentText = NoText]
           old == [i \in DOMAIN asks |-> new(asks[i])]
<1>1. S \in SUBSET (DOMAIN ms) /\ \A i \in S : ms[i].by = "ai" => i - 1 \in S
  BY RepliesAreNoNotes
<1>2. asks \in Tales(k)
  BY <1>1, KeptTale
<1>3. ASSUME NEW m \in Message
      PROVE  new(m) \in Message /\ Echoes(new(m), m) /\ new(m).target = m.target /\ ~IsNote(new(m))
  <2>1. ASSUME NEW text \in Phrases, NEW mode \in Modes, mode = "new"
        PROVE  LET x == [m EXCEPT !.rid = 0, !.mode = mode, !.sentText = text]
               IN  x \in Message /\ Echoes(x, m) /\ x.target = m.target /\ x.mode = "new"
    <3> DEFINE x == [m EXCEPT !.rid = 0, !.mode = mode, !.sentText = text]
    <3>2. x \in Message
      BY DEF Message
    <3>3. Echoes(x, m) /\ x.target = m.target /\ x.mode = mode
      BY DEF Message, Echoes
    <3> HIDE DEF x
    <3>4. x.mode = "new"
      BY <2>1, <3>3
    <3> QED
      BY <3>2, <3>3, <3>4 DEF x
  <2>2. "new" \in Modes /\ NoText \in Phrases
    BY Zenon DEF Modes, Phrases
  <2>3. \A x : x.mode = "new" => ~IsNote(x)
    BY Zenon DEF IsNote
  <2> QED
    BY <2>1, <2>2, <2>3, Zenon
<1>4. History(ms) = old
  BY Zenon DEF History
<1> HIDE DEF asks, new
<1>5. old \in Seq(Message) /\ DOMAIN old = DOMAIN asks
  BY <1>2, <1>3, TaleIs
<1>6. \A i \in DOMAIN asks : Echoes(old[i], asks[i]) /\ old[i].target <= k /\ ~IsNote(old[i])
  BY <1>2, <1>3, TaleIs DEF Upto
<1> HIDE DEF old
<1>7. old \in Plain(k)
  BY <1>2, <1>5, <1>6, RereadTale
<1> QED
  BY <1>4, <1>7
----------------------------------------------------------------------------
(* What may be said next                                                   *)

LEMMA AskIs ==
  ASSUME NEW n \in Int, NEW text \in Texts, NEW rid \in Nat, NEW mode \in Modes, NEW m,
         m = Ask(n, text, rid, mode)
  PROVE  /\ m \in Message /\ m.by = "user" /\ m.key = n /\ m.text = text /\ m.mode = mode /\ m.target = 0
         /\ \A k \in Int : LET x == [m EXCEPT !.target = k]
                           IN  /\ x \in Message /\ x.by = "user" /\ x.key = n /\ x.text = text
                               /\ x.mode = mode /\ x.target = k
<1>1. NoText \in Phrases
  BY DEF Phrases
<1>2. m \in Message /\ m.by = "user" /\ m.key = n /\ m.text = text /\ m.mode = mode /\ m.target = 0
  BY <1>1 DEF Ask, Message
<1> QED
  BY <1>2 DEF Message

LEMMA ReplyIs ==
  ASSUME NEW n \in Int, NEW text \in Texts, NEW m, m = Reply(n, text)
  PROVE  m \in Message /\ m.by = "ai" /\ m.key = n /\ m.text = text /\ m.target = 0 /\ m.mode = "saved"
<1> DEFINE x == Ask(n, text, 0, "saved")
<1>1. x \in Message /\ x.key = n /\ x.text = text /\ x.target = 0 /\ x.mode = "saved"
  <2>1. "saved" \in Modes /\ 0 \in Nat
    BY Zenon DEF Modes
  <2> QED
    BY <2>1, AskIs
<1>2. m = [x EXCEPT !.by = "ai"]
  BY DEF Reply
<1> HIDE DEF x
<1> QED
  BY <1>1, <1>2 DEF Message

LEMMA NotNotes == \A m : m.mode \in {"new", "saved", "follow-up"} => ~IsNote(m) /\ ~OnEdit(m)
<1>1. \A m : m.mode \in {"new", "saved", "follow-up"} => ~IsNote(m)
  BY Zenon DEF IsNote
<1> QED
  BY <1>1, OnEditIsNote

LEMMA TalesAreStories ==
  ASSUME NEW k \in Nat
  PROVE  Stories(Tales(k))
<1>1. Tales(k) \subseteq Seq(Message) /\ <<>> \in Tales(k)
  BY NothingSaid, TaleIs
<1>2. ASSUME NEW n \in Int, n <= 0, NEW text \in Texts PROVE <<Ask(n, text, 0, "follow-up")>> \in Tales(k)
  <2> DEFINE m == Ask(n, text, 0, "follow-up")
  <2>1. "follow-up" \in Modes
    BY Zenon DEF Modes
  <2>2. m \in Message /\ m.by = "user" /\ m.key = n /\ m.target = 0 /\ m.mode = "follow-up"
    BY <2>1, AskIs
  <2> HIDE DEF m
  <2>3. ~IsNote(m) /\ ~OnEdit(m) /\ NoNote(<<>>, m.key) /\ m.key <= k /\ m.target <= k
    BY <1>2, <2>2, NotNotes DEF NoNote
  <2>4. Append(<<>>, m) \in Tales(k)
    <3>1. k \in Int /\ k <= k /\ m.by # "ai" /\ <<>> \in Tales(k)
      BY <1>1, <2>2
    <3> QED
      BY <2>2, <2>3, <3>1, LongerTale
  <2>5. Append(<<>>, m) = <<m>>
    OBVIOUS
  <2> QED
    BY <2>4, <2>5 DEF m
<1>3. ASSUME NEW ms \in Tales(k), NEW i \in DOMAIN ms, NEW mode \in {"new", "follow-up"}
      PROVE  [ms EXCEPT ![i] = [ms[i] EXCEPT !.mode = mode]] \in Tales(k)
  <2> DEFINE m == [ms[i] EXCEPT !.mode = mode]
  <2>1. ms[i] \in Message /\ ms[i].target <= k
    BY TaleIs DEF Upto
  <2>2. mode \in Modes
    BY Zenon DEF Modes
  <2>3. m \in Message /\ Echoes(m, ms[i]) /\ m.target <= k /\ m.mode = mode
    BY <2>1, <2>2 DEF Message, Echoes
  <2> HIDE DEF m
  <2>4. ~IsNote(m)
    BY <2>3, NotNotes
  <2>5. [ms EXCEPT ![i] = m] \in Tales(k)
    BY <2>3, <2>4, MarkedTale
  <2> QED
    BY <2>5 DEF m
<1> QED
  BY <1>1, <1>2, <1>3 DEF Stories

LEMMA LongerNoNote ==
  ASSUME NEW ms \in Seq(Message), NEW m, ~IsNote(m)
  PROVE  \A n : NoNote(ms, n) => NoNote(Append(ms, m), n)
<1>1. /\ DOMAIN Append(ms, m) = 1..Len(ms) + 1 /\ Append(ms, m)[Len(ms) + 1] = m
      /\ \A i \in DOMAIN Append(ms, m) : (i \in DOMAIN ms /\ Append(ms, m)[i] = ms[i]) \/ i = Len(ms) + 1
  OBVIOUS
<1> QED
  BY <1>1 DEF NoNote

LEMMA LongerBelow ==
  ASSUME NEW ms \in Seq(Message), NEW m, m.by = "user", NEW x, x.key = m.key, x.text = m.text
  PROVE  Below(Append(ms, m), x)
<1>1. Append(ms, m) # <<>> /\ Len(Append(ms, m)) = Len(ms) + 1 /\ Append(ms, m)[Len(ms) + 1] = m
  OBVIOUS
<1> QED
  BY <1>1 DEF Below

(* A prompt under a new number.                                            *)
LEMMA AskedTale ==
  ASSUME NEW k \in Nat, NEW ms \in Tales(k), NEW text,
         NEW m, m \in Message, m.by = "user", m.key = k + 1, m.text = text, m.target = 0, m.mode = "new",
         NEW new, new = Append(ms, m)
  PROVE  /\ new \in Tales(k + 1) /\ NoNote(new, k + 1)
         /\ \A x : x.key = k + 1 /\ x.text = text => Below(new, x)
         /\ \A n : NoNote(ms, n) => NoNote(new, n)
<1>1. k \in Int /\ k + 1 \in Int /\ k <= k + 1 /\ 0 <= k + 1
  OBVIOUS
<1>3. ~IsNote(m) /\ ~OnEdit(m)
  BY NotNotes
<1>4. \A i \in DOMAIN ms : ms[i].key # k + 1
  <2> TAKE i \in DOMAIN ms
  <2>1. ms[i].key <= k /\ ms[i].key \in Int
    BY TaleIs, MessageIs DEF Upto
  <2> QED
    BY <2>1
<1>5. NoNote(ms, m.key)
  BY <1>4 DEF NoNote
<1>6. new \in Tales(k + 1)
  BY <1>1, <1>3, <1>5, LongerTale
<1>7. ms \in Seq(Message)
  BY TaleIs
<1>8. \A n : NoNote(ms, n) => NoNote(new, n)
  BY <1>3, <1>7, LongerNoNote
<1>9. NoNote(new, k + 1)
  BY <1>5, <1>8
<1>10. \A x : x.key = k + 1 /\ x.text = text => Below(new, x)
  BY <1>7, LongerBelow
<1> QED
  BY <1>6, <1>8, <1>9, <1>10

(* What the server stores for a prompt that it has answered.               *)
LEMMA PairPlain ==
  ASSUME NEW k \in Nat, NEW ms \in Plain(k), NEW n \in Int, n <= k, NEW text \in Texts, NEW rid \in Nat
  PROVE  ms \o <<Ask(n, text, rid, "saved"), Reply(n, text)>> \in Plain(k)
<1>1. PICK a, b : a = Ask(n, text, rid, "saved") /\ b = Reply(n, text)
  OBVIOUS
<1>2. a \in Message /\ a.by = "user" /\ a.key = n /\ a.text = text /\ a.target = 0 /\ a.mode = "saved"
  <2>1. "saved" \in Modes
    BY Zenon DEF Modes
  <2> QED
    BY <1>1, <2>1, AskIs
<1>3. b \in Message /\ b.by = "ai" /\ b.key = n /\ b.text = text /\ b.target = 0 /\ b.mode = "saved"
  BY <1>1, ReplyIs
<1>4. ~IsNote(a) /\ ~OnEdit(a) /\ ~IsNote(b) /\ ~OnEdit(b)
  BY <1>2, <1>3, NotNotes
<1>5. k \in Int /\ k <= k /\ 0 <= k /\ ms \in Tales(k) /\ (\A x : NoNote(ms, x)) /\ ms \in Seq(Message)
  BY PlainIs, TaleIs
<1>6. PICK one : one = Append(ms, a)
  OBVIOUS
<1>7. one \in Plain(k)
  <2>1. one \in Tales(k)
    BY <1>2, <1>4, <1>5, <1>6, LongerTale
  <2> QED
    BY <1>4, <1>6, <2>1, LongerPlain
<1>8. Below(one, b)
  BY <1>2, <1>3, <1>5, <1>6, LongerBelow
<1>9. Append(one, b) \in Plain(k)
  <2>1. one \in Tales(k) /\ \A x : NoNote(one, x)
    BY <1>7, PlainIs
  <2>2. Append(one, b) \in Tales(k)
    BY <1>3, <1>4, <1>5, <1>8, <2>1, LongerTale
  <2> QED
    BY <1>4, <1>7, <2>2, LongerPlain
<1>10. ms \o <<a, b>> = Append(Append(ms, a), b)
  BY <1>2, <1>3, <1>5
<1> QED
  BY <1>1, <1>6, <1>9, <1>10

(* A reply, below its prompt.                                              *)
LEMMA RepliedTale ==
  ASSUME NEW k \in Nat, NEW ms \in Tales(k), NEW n \in Int, n <= k, NEW text \in Texts,
         NEW t, t.key = n, t.text = text, Below(ms, t), NoNote(ms, n)
  PROVE  Append(ms, Reply(n, text)) \in Tales(k)
<1>1. PICK b : b = Reply(n, text)
  OBVIOUS
<1>2. b \in Message /\ b.by = "ai" /\ b.key = n /\ b.text = text /\ b.target = 0 /\ b.mode = "saved"
  BY <1>1, ReplyIs
<1>3. ~IsNote(b) /\ ~OnEdit(b) /\ Below(ms, b) /\ NoNote(ms, b.key)
  BY <1>2, NotNotes DEF Below
<1>4. k \in Int /\ k <= k /\ 0 <= k
  OBVIOUS
<1> QED
  BY <1>1, <1>2, <1>3, <1>4, LongerTale

(* A prompt put aside as a note, under a new number.                       *)
LEMMA NotedTale ==
  ASSUME NEW k \in Nat, NEW ms \in Tales(k), NEW text \in Texts, NEW rid \in Nat, NEW mode \in Modes,
         NEW target \in Int, target <= k,
         NEW m, m = [Ask(k + 1, text, rid, mode) EXCEPT !.target = target], IsNote(m),
         OnEdit(m) => NoNote(ms, target)
  PROVE  Append(ms, m) \in Tales(k + 1)
<1>1. k + 1 \in Int /\ k \in Int /\ k <= k + 1 /\ k < k + 1
  OBVIOUS
<1>2. m \in Message /\ m.by = "user" /\ m.key = k + 1 /\ m.target = target
  <2> DEFINE a == Ask(k + 1, text, rid, mode)
  <2>1. \A j \in Int : LET x == [a EXCEPT !.target = j]
                       IN  x \in Message /\ x.by = "user" /\ x.key = k + 1 /\ x.target = j
    BY <1>1, AskIs
  <2> HIDE DEF a
  <2>2. m = [a EXCEPT !.target = target]
    BY DEF a
  <2> QED
    BY <2>1, <2>2
<1>3. m.target <= k + 1 /\ m.key <= k + 1 /\ m.target # m.key /\ k < m.key
  BY <1>1, <1>2
<1>4. OnEdit(m) => m.target # m.key /\ NoNote(ms, m.target)
  BY <1>2, <1>3
<1>5. m.by # "ai"
  BY <1>2
<1> HIDE DEF IsNote
<1> QED
  BY <1>1, <1>2, <1>3, <1>4, <1>5, LongerTale

----------------------------------------------------------------------------
(* Handlers, and the invariant                                             *)

(* What a handler carries fits the page: the prompt that waits for its     *)
(* reply is the last message, and no note is about the prompt that a       *)
(* conflict may put aside.                                                 *)
TaskTold(t, ms, thinking, k) ==
  /\ t.old \in Tales(k)
  /\ t.kind \in Improving => t.old \in Plain(k) /\ t.of = t.kind
  /\ t.kind \in Prompted => t.key \in Int /\ t.key <= k
  /\ t.kind \in {"submit", "local"} => thinking /\ Below(ms, t) /\ NoNote(ms, t.key)
  /\ t.of = "edit" /\ (t.kind = "edit" \/ t.then = "conflict") => NoNote(ms, t.key)

PageTold == page \in Pages(Tales(asked), Places)
ThreadsTold == \A n \in DOMAIN threads : threads[n].messages \in Plain(asked)
TasksTold == \A t \in tasks : TaskTold(t, page.messages, request.thinking, asked)
ChoresTold == \A c \in chores : c.said \in Tales(asked)
ToldNow == PageTold /\ ThreadsTold /\ TasksTold
ToldInv == ~strayed => ToldNow /\ ChoresTold

(* Nothing that is left waits for the page to stay as it is.               *)
LEMMA SettledTold ==
  ASSUME NEW t, ~Unsettled(t), NEW k \in Int, NEW k2 \in Int, k <= k2, NEW ms, NEW b, TaskTold(t, ms, b, k)
  PROVE  \A ms2, b2 : TaskTold(t, ms2, b2, k2)
<1>1. t.kind \notin Improving /\ t.then # "conflict"
  BY DEF Unsettled
<1>2. t.kind \notin {"submit", "local", "edit"}
  BY <1>1 DEF Improving
<1>3. t.old \in Tales(k2)
  BY LaterTales DEF TaskTold
<1>4. t.kind \in Prompted => t.key \in Int /\ t.key <= k2
  BY DEF TaskTold
<1> QED
  BY <1>1, <1>2, <1>3, <1>4 DEF TaskTold

(* A handler that does not wait for a reply here, when nothing is put      *)
(* aside.                                                                  *)
LEMMA WaitingTold ==
  ASSUME NEW t, t.kind \notin {"submit", "local"}, NEW k \in Int, NEW k2 \in Int, k <= k2, NEW ms, NEW b,
         TaskTold(t, ms, b, k), NEW ms2, \A n : NoNote(ms, n) => NoNote(ms2, n)
  PROVE  \A b2 : TaskTold(t, ms2, b2, k2)
<1>1. t.old \in Tales(k2) /\ (t.kind \in Improving => t.old \in Plain(k2) /\ t.of = t.kind)
  BY LaterTales DEF TaskTold
<1>2. t.kind \in Prompted => t.key \in Int /\ t.key <= k2
  BY DEF TaskTold
<1>3. t.of = "edit" /\ (t.kind = "edit" \/ t.then = "conflict") => NoNote(ms2, t.key)
  BY DEF TaskTold
<1> QED
  BY <1>1, <1>2, <1>3 DEF TaskTold

LEMMA ToldFacts ==
  ASSUME SessionOk, ToldInv, ~strayed
  PROVE  /\ asked \in Nat /\ asked \in Int /\ Stories(Tales(asked))
         /\ page \in Pages(Tales(asked), Places) /\ page.messages \in Tales(asked)
         /\ ThreadsTold /\ TasksTold /\ ChoresTold /\ None \in Places
<1>1. asked \in Nat
  BY DEF SessionOk
<1>2. page \in Pages(Tales(asked), Places) /\ ThreadsTold /\ TasksTold /\ ChoresTold
  BY DEF ToldInv, ToldNow, PageTold
<1>3. page.messages \in Tales(asked)
  BY <1>2, PageFacts
<1> QED
  BY <1>1, <1>2, <1>3, TalesAreStories DEF None, Places

LEMMA LaterToldPage ==
  ASSUME SessionOk, ToldInv, ~strayed, asked' \in {asked, asked + 1}
  PROVE  /\ asked' \in Nat /\ asked' \in Int /\ asked <= asked' /\ Stories(Tales(asked'))
         /\ page \in Pages(Tales(asked'), Places)
         /\ \A n \in DOMAIN threads : threads[n].messages \in Plain(asked')
         /\ \A c \in chores : c.said \in Tales(asked')
         /\ \A ms \in Tales(asked) : ms \in Tales(asked')
<1>1. asked \in Nat /\ asked \in Int
  BY DEF SessionOk
<1>2. asked' \in Nat /\ asked' \in Int /\ asked <= asked'
  BY <1>1
<1>3. \A ms \in Tales(asked) : ms \in Tales(asked')
  BY <1>1, <1>2, LaterTales
<1>4. \A ms \in Plain(asked) : ms \in Plain(asked')
  BY <1>1, <1>2, LaterTales
<1>5. page \in Pages(Tales(asked'), Places)
  BY <1>3, ToldFacts, WiderPages
<1> QED
  BY <1>2, <1>3, <1>4, <1>5, ToldFacts, TalesAreStories DEF ThreadsTold, ChoresTold

(* An answer that is applied while nothing else is unsettled.              *)
LEMMA AnswerTold ==
  ASSUME SessionOk, ToldInv, NEW t \in tasks, Applies(t), ~strayed', asked' \in {asked, asked + 1},
         page' \in Pages(Tales(asked'), Places), \A n \in DOMAIN threads' : threads'[n].messages \in Plain(asked'),
         \A u \in tasks' : u \in tasks \ {t} \/ TaskTold(u, page'.messages, request'.thinking, asked')
  PROVE  ToldNow'
<1>1. ~strayed /\ \A u \in tasks \ {t} : ~Unsettled(u)
  BY DEF Applies, Astray
<1>2. asked \in Int /\ asked' \in Int /\ asked <= asked'
  BY <1>1, ToldFacts, LaterToldPage
<1>3. ASSUME NEW u \in tasks \ {t} PROVE TaskTold(u, page'.messages, request'.thinking, asked')
  <2>1. TaskTold(u, page.messages, request.thinking, asked)
    BY <1>1, ToldFacts DEF TasksTold
  <2> QED
    BY <1>1, <1>2, <2>1, SettledTold
<1> QED
  BY <1>3 DEF ToldNow, PageTold, ThreadsTold, TasksTold

(* The user, or the session, moves on while no handler waits.              *)
LEMMA TurnTold ==
  ASSUME SessionOk, ToldInv, Moves, ~strayed', UNCHANGED <<threads, asked>>,
         page' \in Pages(Tales(asked), Places),
         \A u \in tasks' : u \in tasks \/ TaskTold(u, page'.messages, request'.thinking, asked)
  PROVE  ToldNow'
<1>1. ~strayed /\ tasks = {}
  BY DEF Moves
<1>2. ThreadsTold
  BY <1>1, ToldFacts
<1> QED
  BY <1>1, <1>2 DEF ToldNow, PageTold, ThreadsTold, TasksTold

(* The page had not moved on before, and numbers are given one by one.     *)
AskedOn == ~strayed /\ asked' \in {asked, asked + 1}

(* What does not change the messages of the page.                          *)
LEMMA SameWords ==
  ASSUME NEW L, NEW V, NEW p \in Pages(L, V)
  PROVE  /\ \A id : Updated(p, id).messages = p.messages
         /\ \A id, server : Numbered(p, id, server).messages = p.messages
         /\ \A x : /\ [p EXCEPT !.draft = x].messages = p.messages
                  /\ [p EXCEPT !.status = x].messages = p.messages
                  /\ [p EXCEPT !.transfer = x].messages = p.messages
                  /\ [p EXCEPT !.messages = x].messages = x
<1>1. \A x : /\ [p EXCEPT !.draft = x].messages = p.messages
             /\ [p EXCEPT !.status = x].messages = p.messages
             /\ [p EXCEPT !.transfer = x].messages = p.messages
             /\ [p EXCEPT !.recent = x].messages = p.messages
             /\ [p EXCEPT !.messages = x].messages = x
  BY DEF Pages
<1>2. \A id : \E x : Updated(p, id) = [p EXCEPT !.recent = x]
  BY Zenon DEF Updated
<1>3. \A id, server : \E x : Numbered(p, id, server) = [p EXCEPT !.recent = x]
  BY Zenon DEF Numbered
<1>4. ASSUME NEW id PROVE Updated(p, id).messages = p.messages
  <2>1. PICK x : Updated(p, id) = [p EXCEPT !.recent = x]
    BY <1>2, Zenon
  <2> QED
    BY <1>1, <2>1, Zenon
<1>5. ASSUME NEW id, NEW server PROVE Numbered(p, id, server).messages = p.messages
  <2>1. PICK x : Numbered(p, id, server) = [p EXCEPT !.recent = x]
    BY <1>3, Zenon
  <2> QED
    BY <1>1, <2>1, Zenon
<1> QED
  BY <1>1, <1>4, <1>5, Zenon

LEMMA ImprovedWords ==
  ASSUME NEW L, NEW V, NEW p \in Pages(L, V), NEW id, NEW server \in V
  PROVE  Improved(p, id, server).messages = p.messages
<1> DEFINE q == IF Known(p, id) THEN Numbered(p, id, server) ELSE p
<1>1. q \in Pages(L, V) /\ q.messages = p.messages
  BY NumberedPage, SameWords
<1>2. Improved(p, id, server) = p \/ Improved(p, id, server) = [q EXCEPT !.improved = <<id, server>>]
  BY Zenon DEF Improved
<1> HIDE DEF q
<1>3. \A x : [q EXCEPT !.improved = x].messages = q.messages
  BY <1>1 DEF Pages
<1> QED
  BY <1>1, <1>2, <1>3

(* A message that is marked keeps its place.                               *)
LEMMA ModeSetWords ==
  ASSUME NEW k \in Nat, NEW p \in Pages(Tales(k), Places), NEW key
  PROVE  LET q == SetMode(p, key, "new")
         IN  /\ q \in Pages(Tales(k), Places)
             /\ \A x : Below(p.messages, x) => Below(q.messages, x)
             /\ \A n : NoNote(p.messages, n) => NoNote(q.messages, n)
<1> DEFINE q == SetMode(p, key, "new")
           i == IndexOf(p, key)
           ms == p.messages
           m == [ms[i] EXCEPT !.mode = "new"]
<1>1. q \in Pages(Tales(k), Places)
  BY ModeSetPage, TalesAreStories
<1>2. CASE i = 0
  <2>1. q = p
    BY <1>2, Zenon DEF SetMode
  <2> QED
    BY <1>1, <2>1
<1>3. CASE i # 0
  <2>1. ms \in Seq(Message)
    BY PageFacts, TaleIs
  <2>2. i \in DOMAIN ms /\ ms[i] \in Message
    BY <1>3, <2>1, IndexFacts
  <2>3. q = [p EXCEPT !.messages[i].mode = "new"]
    BY <1>3, Zenon DEF SetMode
  <2> HIDE DEF i, q
  <2>4. q.messages = [ms EXCEPT ![i] = m]
    BY <2>3 DEF Pages
  <2>5. m.by = ms[i].by /\ m.key = ms[i].key /\ m.text = ms[i].text /\ m.mode = "new"
    BY <2>2 DEF Message
  <2> HIDE DEF m, ms
  <2>6. ~IsNote(m)
    BY <2>5, NotNotes
  <2>7. /\ Len(q.messages) = Len(ms) /\ DOMAIN q.messages = DOMAIN ms /\ (q.messages = <<>> <=> ms = <<>>)
        /\ q.messages[i] = m /\ \A j \in DOMAIN ms : j # i => q.messages[j] = ms[j]
    BY <2>1, <2>2, <2>4
  <2>8. ASSUME NEW x, Below(ms, x) PROVE Below(q.messages, x)
    <3>1. Len(ms) \in DOMAIN ms
      BY <2>1, <2>8 DEF Below
    <3> QED
      BY <2>5, <2>7, <2>8, <3>1 DEF Below
  <2>9. \A n : NoNote(ms, n) => NoNote(q.messages, n)
    BY <2>6, <2>7 DEF NoNote
  <2> QED
    BY <1>1, <2>8, <2>9 DEF q, ms
<1> QED
  BY <1>2, <1>3

LEMMA RecentTold ==
  ASSUME NEW k, NEW ms, NEW b
  PROVE  /\ \A n : TaskTold(Recent(n), ms, b, k)
         /\ \A key, to : TaskTold([Recent(0) EXCEPT !.kind = "delete", !.key = key, !.to = to], ms, b, k)
         /\ \A key : TaskTold([Recent(0) EXCEPT !.kind = "hydrate", !.key = key], ms, b, k)
<1>1. ASSUME NEW t, t.kind \in {"recent", "delete", "hydrate"}, t.of = "recent", t.old = <<>>
      PROVE  TaskTold(t, ms, b, k)
  BY <1>1, NothingSaid DEF TaskTold, Prompted, Improving
<1>2. ASSUME NEW n PROVE Recent(n).kind = "recent" /\ Recent(n).of = "recent" /\ Recent(n).old = <<>>
  <2>1. \A none, nil, text, tok :
          LET t == [kind |-> "recent", of |-> "recent", then |-> "none", n |-> n, token |-> tok,
                    id |-> none, to |-> none, key |-> 0, text |-> text, rid |-> 0,
                    saved |-> FALSE, old |-> nil]
          IN  t.kind = "recent" /\ t.of = "recent" /\ t.old = nil
    OBVIOUS
  <2> QED
    BY <2>1, Zenon DEF Recent
<1>3. ASSUME NEW key, NEW to
      PROVE  LET t == [Recent(0) EXCEPT !.kind = "delete", !.key = key, !.to = to]
             IN  t.kind = "delete" /\ t.of = "recent" /\ t.old = <<>>
  <2>1. \A none, nil, text, tok :
          LET t == [[kind |-> "recent", of |-> "recent", then |-> "none", n |-> 0, token |-> tok,
                     id |-> none, to |-> none, key |-> 0, text |-> text, rid |-> 0,
                     saved |-> FALSE, old |-> nil] EXCEPT !.kind = "delete", !.key = key, !.to = to]
          IN  t.kind = "delete" /\ t.of = "recent" /\ t.old = nil
    OBVIOUS
  <2> QED
    BY <2>1, Zenon DEF Recent
<1>4. ASSUME NEW key
      PROVE  LET t == [Recent(0) EXCEPT !.kind = "hydrate", !.key = key]
             IN  t.kind = "hydrate" /\ t.of = "recent" /\ t.old = <<>>
  <2>1. \A none, nil, text, tok :
          LET t == [[kind |-> "recent", of |-> "recent", then |-> "none", n |-> 0, token |-> tok,
                     id |-> none, to |-> none, key |-> 0, text |-> text, rid |-> 0,
                     saved |-> FALSE, old |-> nil] EXCEPT !.kind = "hydrate", !.key = key]
          IN  t.kind = "hydrate" /\ t.of = "recent" /\ t.old = nil
    OBVIOUS
  <2> QED
    BY <2>1, Zenon DEF Recent
<1>5. ASSUME NEW n PROVE TaskTold(Recent(n), ms, b, k)
  <2>1. PICK x : x = Recent(n)
    OBVIOUS
  <2>2. x.kind = "recent" /\ x.of = "recent" /\ x.old = <<>>
    BY <1>2, <2>1, Zenon
  <2>3. x.kind \in {"recent", "delete", "hydrate"}
    BY <2>2, Zenon
  <2>4. TaskTold(x, ms, b, k)
    BY <1>1, <2>2, <2>3
  <2> QED
    BY <2>1, <2>4, Zenon
<1>6. ASSUME NEW key, NEW to
      PROVE  TaskTold([Recent(0) EXCEPT !.kind = "delete", !.key = key, !.to = to], ms, b, k)
  <2>1. PICK x : x = [Recent(0) EXCEPT !.kind = "delete", !.key = key, !.to = to]
    OBVIOUS
  <2>2. x.kind = "delete" /\ x.of = "recent" /\ x.old = <<>>
    BY <1>3, <2>1, Zenon
  <2>3. x.kind \in {"recent", "delete", "hydrate"}
    BY <2>2, Zenon
  <2>4. TaskTold(x, ms, b, k)
    BY <1>1, <2>2, <2>3
  <2> QED
    BY <2>1, <2>4, Zenon
<1>7. ASSUME NEW key
      PROVE  TaskTold([Recent(0) EXCEPT !.kind = "hydrate", !.key = key], ms, b, k)
  <2>1. PICK x : x = [Recent(0) EXCEPT !.kind = "hydrate", !.key = key]
    OBVIOUS
  <2>2. x.kind = "hydrate" /\ x.of = "recent" /\ x.old = <<>>
    BY <1>4, <2>1, Zenon
  <2>3. x.kind \in {"recent", "delete", "hydrate"}
    BY <2>2, Zenon
  <2>4. TaskTold(x, ms, b, k)
    BY <1>1, <2>2, <2>3
  <2> QED
    BY <2>1, <2>4, Zenon
<1> QED
  BY <1>5, <1>6, <1>7, Zenon

(* The conversation is read back after an answer.                          *)
LEMMA ReadingTold ==
  ASSUME NEW t, NEW M, t \in Handlers(M), t.kind \in Improving, NEW k, NEW ms, NEW b, TaskTold(t, ms, b, k),
         NEW then \in {"conflict", "recover", "show"}, NEW p, p.messages \in Tales(k), NEW ms2,
         then = "conflict" /\ t.of = "edit" => NoNote(ms2, t.key)
  PROVE  \A b2 : TaskTold(Reading(t, then, p), ms2, b2, k)
<1>0. PICK x : x = Reading(t, then, p)
  OBVIOUS
<1>1. PICK kind, to, old : /\ x = [t EXCEPT !.kind = kind, !.then = then, !.token = token, !.to = to, !.old = old]
                          /\ kind \in {"thread", "list"} /\ old \in {p.messages, <<>>}
  <2> DEFINE to == IF Backend(p, t.id) # None THEN Backend(p, t.id) ELSE t.id
             kind == IF LoggedIn /\ OnServer(to) THEN "thread" ELSE "list"
             old == IF then = "recover" THEN p.messages ELSE <<>>
  <2>1. Reading(t, then, p) = [t EXCEPT !.kind = kind, !.then = then, !.token = token, !.to = to, !.old = old]
    BY Zenon DEF Reading
  <2>2. kind \in {"thread", "list"} /\ old \in {p.messages, <<>>}
    OBVIOUS
  <2> HIDE DEF kind, to, old
  <2> QED
    BY <1>0, <2>1, <2>2, Zenon
<1>2. x.kind = kind /\ x.then = then /\ x.old = old /\ x.key = t.key /\ x.of = t.of
  BY <1>1 DEF Handlers
<1>3. old \in Tales(k) /\ t.key \in Int /\ t.key <= k
  BY <1>1, NothingSaid DEF TaskTold, Prompted
<1>4. kind \notin Improving
  BY <1>1 DEF Improving
<1> HIDE DEF Improving
<1>5. kind \notin {"submit", "local", "edit"}
  BY <1>1
<1> QED
  BY <1>0, <1>1, <1>2, <1>3, <1>4, <1>5 DEF TaskTold

----------------------------------------------------------------------------
(* Answers                                                                 *)

TalesStored(ths, k) == \A n \in DOMAIN ths : ths[n].messages \in Plain(k)

LEMMA TaskFacts ==
  ASSUME SessionOk, MakeInv, ToldInv, ~strayed, NEW t \in tasks
  PROVE  /\ HandlerOk(t, sent, token, Len(owners), strayed) /\ t \in Handlers(Messages(sent))
         /\ TaskTold(t, page.messages, request.thinking, asked)
         /\ t.id \in Places /\ t.to \in Places /\ t.key \in Int /\ t.rid \in Nat /\ t.text \in Phrases
         /\ t.old \in Tales(asked) /\ t.n \in Nat
         /\ t.kind \in Prompted => t.text \in Texts /\ t.key <= asked
         /\ t.kind \in Improving => t.kind \in Prompted /\ t.old \in Plain(asked) /\ t.of = t.kind
<1>1. HandlerOk(t, sent, token, Len(owners), strayed)
  BY DEF MakeInv, TasksOk
<1>2. TaskTold(t, page.messages, request.thinking, asked)
  BY ToldFacts DEF TasksTold
<1>3. /\ t.old \in Tales(asked) /\ (t.kind \in Prompted => t.key <= asked)
      /\ (t.kind \in Improving => t.old \in Plain(asked) /\ t.of = t.kind)
  BY <1>2 DEF TaskTold
<1>4. t.kind \in Improving => t.kind \in Prompted
  BY DEF Prompted
<1>5. t \in Handlers(Messages(sent))
  BY <1>1 DEF HandlerOk
<1> QED
  BY <1>1, <1>2, <1>3, <1>4, <1>5, HandlerFacts

(* The server stores a prompt with its reply, at the end of what it has.   *)
LEMMA ImproveTold ==
  ASSUME SessionOk, MakeInv, ToldInv, ~strayed, NEW t \in tasks, t.kind \in Improving
  PROVE  TalesStored(Improve(t).after, asked) /\ Improve(t).server \in Places
<1> DEFINE n == Home(t)
           ms == threads[n].messages
           pair == <<Ask(t.key, t.text, t.rid, "saved"), Reply(t.key, t.text)>>
           at == {i \in DOMAIN ms : ms[i].by = "user" /\ ms[i].key = t.key /\ ms[i].mode = "saved"}
           put(new) == [answer |-> "ok", server |-> Server(n), after |-> [threads EXCEPT ![n].messages = new]]
           refuse(why) == [answer |-> why, server |-> None, after |-> threads]
           first == [owner |-> Owner(t.token), live |-> TRUE, first |-> t.rid, messages |-> t.old \o pair]
           Good(r) == TalesStored(r.after, asked)
<1>1. /\ t.key \in Int /\ t.key <= asked /\ t.text \in Texts /\ t.rid \in Nat /\ t.old \in Plain(asked)
      /\ asked \in Nat /\ TalesStored(threads, asked)
  BY TaskFacts, ToldFacts DEF ThreadsTold, TalesStored
<1>2. \A x \in Plain(asked) : x \o pair \in Plain(asked)
  BY <1>1, PairPlain
<1> HIDE DEF pair
<1>3. ASSUME NEW why PROVE Good(refuse(why))
  BY <1>1
<1>4. ASSUME NEW new \in Plain(asked) PROVE Good(put(new))
  <2> DEFINE after == [threads EXCEPT ![n].messages = new]
  <2> HIDE DEF n
  <2>1. DOMAIN after = DOMAIN threads
    OBVIOUS
  <2>2. ASSUME NEW i \in DOMAIN after PROVE after[i].messages \in Plain(asked)
    <3>1. i \in DOMAIN threads /\ threads[i].messages \in Plain(asked)
      BY <1>1, <2>1 DEF TalesStored
    <3>2. threads[i] \in Keeps(Messages(sent))
      BY <3>1, ThreadFacts DEF MakeInv, ThreadsOk
    <3>3. [threads[i] EXCEPT !.messages = new].messages = new
      BY <3>2 DEF Keeps
    <3>4. i # n => after[i] = threads[i]
      BY <3>1
    <3>5. i = n => after[i] = [threads[i] EXCEPT !.messages = new]
      BY <3>1
    <3> HIDE DEF after
    <3> QED
      BY <3>1, <3>3, <3>4, <3>5
  <2> HIDE DEF after
  <2> QED
    BY <2>2 DEF TalesStored, after
<1>5. Good([answer |-> "ok", server |-> Server(Len(threads) + 1), after |-> Append(threads, first)])
  <2> DEFINE after == Append(threads, first)
  <2>1. first.messages \in Plain(asked)
    BY <1>1, <1>2
  <2> HIDE DEF first
  <2>2. \A i \in DOMAIN after : (i \in DOMAIN threads /\ after[i] = threads[i]) \/ after[i] = first
    <3>1. threads \in Seq(Keeps(Messages(sent)))
      BY DEF MakeInv, ThreadsOk
    <3> QED
      BY <3>1
  <2> HIDE DEF after
  <2>3. TalesStored(after, asked)
    BY <1>1, <2>1, <2>2 DEF TalesStored
  <2> QED
    BY <2>3 DEF after
<1>6. ASSUME Owned(t, n) PROVE ms \in Plain(asked) /\ ms \o pair \in Plain(asked)
                               /\ (at # {} => SubSeq(ms, 1, First(at) - 1) \o pair \in Plain(asked))
  <2>1. ms \in Plain(asked)
    BY <1>1, <1>6 DEF Owned, TalesStored
  <2>2. ms \in Tales(asked) /\ ms \in Seq(Message) /\ Len(ms) \in Nat /\ DOMAIN ms = 1..Len(ms)
    BY <2>1, PlainIs, TaleIs
  <2>3. at # {} => First(at) - 1 \in 0..Len(ms)
    <3>1. at # {} => First(at) \in DOMAIN ms
      BY <2>2, FirstOf
    <3> QED
      BY <2>2, <3>1
  <2> HIDE DEF at, ms
  <2>4. at # {} => SubSeq(ms, 1, First(at) - 1) \in Plain(asked)
    BY <2>1, <2>2, <2>3, CutTale
  <2> QED
    BY <1>2, <2>1, <2>4
<1>7. Improve(t).server \in Places
  <2>1. Outcome(Improve(t), t, sent)
    BY ImproveOutcome
  <2> HIDE DEF n
  <2>2. CASE Improve(t).server = None
    BY <2>2, ToldFacts
  <2>3. CASE Improve(t).server # None
    <3>1. PICK i \in DOMAIN Improve(t).after : Improve(t).server = Server(i)
      BY <2>1, <2>3 DEF Outcome
    <3>2. i \in Int
      BY <2>1, ThreadFacts DEF Outcome
    <3> QED
      BY <3>1, <3>2 DEF Server, Places
  <2> QED
    BY <2>2, <2>3
<1>8. Good(Improve(t))
  <2> HIDE DEF Good
  <2>1. CASE t.token = 0
    BY <1>3, <2>1, Zenon DEF Improve
  <2>2. CASE t.token # 0 /\ n = 0
    BY <1>5, <2>2, Zenon DEF Improve, pair
  <2>3. CASE t.token # 0 /\ n # 0 /\ ~Owned(t, n)
    BY <1>3, <2>3, Zenon DEF Improve
  <2>4. CASE t.token # 0 /\ n # 0 /\ Owned(t, n)
    BY <1>3, <1>4, <1>6, <2>4, Zenon DEF Improve, pair
  <2> QED
    BY <2>1, <2>2, <2>3, <2>4
<1> QED
  BY <1>7, <1>8

Edits(p, L, V) ==
  /\ \A x \in Phrases : [p EXCEPT !.draft = x] \in Pages(L, V) /\ [p EXCEPT !.draft = x].messages = p.messages
  /\ \A x \in {"idle", "checking", "connected", "fallback"} :
       [p EXCEPT !.status = x] \in Pages(L, V) /\ [p EXCEPT !.status = x].messages = p.messages
  /\ \A x \in Places :
       [p EXCEPT !.transfer = x] \in Pages(L, V) /\ [p EXCEPT !.transfer = x].messages = p.messages
  /\ \A x \in L : [p EXCEPT !.messages = x] \in Pages(L, V) /\ [p EXCEPT !.messages = x].messages = x

LEMMA OtherEdits ==
  ASSUME NEW L, NEW V, NEW p \in Pages(L, V)
  PROVE  Edits(p, L, V)
<1>1. \A x : /\ [p EXCEPT !.draft = x].messages = p.messages
             /\ [p EXCEPT !.status = x].messages = p.messages
             /\ [p EXCEPT !.transfer = x].messages = p.messages
             /\ [p EXCEPT !.messages = x].messages = x
  BY SameWords
<1>2. /\ \A x \in Phrases : [p EXCEPT !.draft = x] \in Pages(L, V)
      /\ \A x \in {"idle", "checking", "connected", "fallback"} : [p EXCEPT !.status = x] \in Pages(L, V)
      /\ \A x \in Places : [p EXCEPT !.transfer = x] \in Pages(L, V)
      /\ \A x \in L : [p EXCEPT !.messages = x] \in Pages(L, V)
  BY PageEdits
<1> QED
  BY <1>1, <1>2, Zenon DEF Edits

(* The reply is put below its prompt, which is still the last message.     *)
LEMMA AnsweredTold ==
  ASSUME SessionOk, MakeInv, ToldInv, NEW t \in tasks, t.kind \in Improving, Answered(t), Applies(t), ~strayed',
         UNCHANGED <<asked, sent>>
  PROVE  ToldNow'
<1> DEFINE L == Tales(asked)
           res == Improve(t)
           told == Improved(page, t.id, res.server)
           p == [told EXCEPT !.status = "connected"]
           q0 == IF t.of = "submit" THEN [p EXCEPT !.draft = NoText] ELSE
                 IF IndexOf(p, t.key) # 0 /\ p.messages[IndexOf(p, t.key)].mode = "follow-up"
                 THEN SetMode(p, t.key, "new") ELSE p
           q == [q0 EXCEPT !.messages = Append(@, Reply(t.key, t.text))]
           r == Applied(Updated(q, t.id), t.id)
           sync == IF t.of = "submit" THEN LoggedIn ELSE t.rid # 0
           done == IF sync /\ Backend(r, t.id) # None /\ r.transfer = t.id
                   THEN [r EXCEPT !.transfer = None] ELSE r
           rest == tasks \ {t}
<1>1. ~strayed
  BY DEF Applies
<1>2. /\ t.id \in Places /\ t.key \in Int /\ t.key <= asked /\ t.text \in Texts /\ t.of = t.kind
      /\ t \in Handlers(Messages(sent)) /\ TaskTold(t, page.messages, request.thinking, asked)
  BY <1>1, TaskFacts
<1>3. /\ asked \in Nat /\ Stories(L) /\ page \in Pages(L, Places) /\ page.messages \in L /\ None \in Places
  BY <1>1, ToldFacts
<1>4. threads' = res.after
  BY Zenon DEF Answered
<1>5. \/ page' = p /\ tasks' = rest
      \/ page' = p /\ tasks' = rest \cup {Reading(t, "show", p)}
      \/ t.of # "edit" /\ page' = done /\ tasks' = rest \cup (IF sync THEN {Reading(t, "show", done)} ELSE {})
  BY Zenon DEF Answered
<1>6. TalesStored(res.after, asked) /\ res.server \in Places
  BY <1>1, ImproveTold
<1> HIDE DEF res, sync
<1>7. told \in Pages(L, Places) /\ told.messages = page.messages
  BY <1>2, <1>3, <1>6, ImprovedPage, ImprovedWords
<1> HIDE DEF told
<1>8. p \in Pages(L, Places) /\ p.messages = page.messages
  <2>1. Edits(told, L, Places)
    BY <1>7, OtherEdits
  <2> QED
    BY <1>7, <2>1, Zenon DEF Edits
<1> HIDE DEF p
<1>9. ASSUME t.of # "edit" PROVE done \in Pages(L, Places)
  <2>1. Below(p.messages, t) /\ NoNote(p.messages, t.key)
    BY <1>2, <1>8, <1>9 DEF TaskTold, Improving
  <2>2. q0 \in Pages(L, Places) /\ Below(q0.messages, t) /\ NoNote(q0.messages, t.key)
    <3>1. NoText \in Phrases
      BY DEF Phrases
    <3>2. [p EXCEPT !.draft = NoText] \in Pages(L, Places) /\ [p EXCEPT !.draft = NoText].messages = p.messages
      <4>1. Edits(p, L, Places)
        BY <1>8, OtherEdits
      <4> QED
        BY <3>1, <4>1, Zenon DEF Edits
    <3>3. /\ SetMode(p, t.key, "new") \in Pages(L, Places) /\ Below(SetMode(p, t.key, "new").messages, t)
          /\ NoNote(SetMode(p, t.key, "new").messages, t.key)
      BY <1>3, <1>8, <2>1, ModeSetWords
    <3>4. q0 \in {[p EXCEPT !.draft = NoText], SetMode(p, t.key, "new"), p}
      BY Zenon
    <3> HIDE DEF q0
    <3> QED
      BY <1>8, <2>1, <3>2, <3>3, <3>4
  <2> HIDE DEF q0
  <2>3. Append(q0.messages, Reply(t.key, t.text)) \in L
    <3>1. q0.messages \in L
      BY <2>2, PageFacts
    <3> QED
      BY <1>2, <1>3, <2>2, <3>1, RepliedTale
  <2>4. q \in Pages(L, Places)
    BY <2>2, <2>3, PageEdits
  <2> HIDE DEF q
  <2>5. r \in Pages(L, Places)
    <3>1. Updated(q, t.id) \in Pages(L, Places)
      BY <1>2, <1>3, <2>4, UpdatedPage
    <3> QED
      BY <1>2, <1>3, <3>1, ImprovedPage
  <2> HIDE DEF r
  <2>6. [r EXCEPT !.transfer = None] \in Pages(L, Places)
    BY <1>3, <2>5, PageEdits
  <2> QED
    BY <2>5, <2>6
<1> HIDE DEF done
<1>10. ASSUME NEW x \in Pages(L, Places)
       PROVE  \A b, ms : TaskTold(Reading(t, "show", x), ms, b, asked)
  <2>1. x.messages \in L
    BY PageFacts
  <2>2. "show" \in {"conflict", "recover", "show"} /\ "show" # "conflict"
    OBVIOUS
  <2> QED
    BY <1>2, <2>1, <2>2, ReadingTold
<1>11. page' \in Pages(L, Places) /\ \A u \in tasks' : u \in tasks \ {t} \/ TaskTold(u, page'.messages, request'.thinking, asked)
  BY <1>5, <1>8, <1>9, <1>10
<1>12. asked' = asked /\ \A n \in DOMAIN threads' : threads'[n].messages \in Plain(asked')
  BY <1>4, <1>6 DEF TalesStored
<1> QED
  BY <1>11, <1>12, AnswerTold

LEMMA HandledWords ==
  ASSUME NEW L, NEW V, NEW p \in Pages(L, V), NEW why, why # "auth" \/ ~LoggedIn, NEW prompt
  PROVE  HandleError(why, p, prompt).messages = p.messages
<1>1. [p EXCEPT !.transfer = p.open].messages = p.messages
  BY SameWords
<1> QED
  BY <1>1, Zenon DEF HandleError

(* The page after a call has failed.                                       *)
LEMMA FailureTold ==
  ASSUME SessionOk, ToldInv, ~strayed, NEW why, NEW prompt \in Phrases,
         NEW status \in {"idle", "checking", "connected", "fallback"}
  PROVE  /\ HandleError(why, page, prompt) \in Pages(Tales(asked), Places)
         /\ HandleError(why, [page EXCEPT !.status = status], prompt) \in Pages(Tales(asked), Places)
         /\ why # "auth" => HandleError(why, [page EXCEPT !.status = status], prompt).messages = page.messages
<1> DEFINE q == [page EXCEPT !.status = status]
<1>1. /\ asked \in Nat /\ Stories(Tales(asked)) /\ None \in Places
      /\ page \in Pages(Tales(asked), Places)
  BY ToldFacts
<1>2. q \in Pages(Tales(asked), Places) /\ q.messages = page.messages
  <2>1. Edits(page, Tales(asked), Places)
    BY <1>1, OtherEdits
  <2> QED
    BY <2>1, Zenon DEF Edits
<1> HIDE DEF q
<1>3. why # "auth" => HandleError(why, q, prompt).messages = page.messages
  BY <1>2, HandledWords
<1>4. HandleError(why, q, prompt) \in Pages(Tales(asked), Places)
  BY <1>1, <1>2, HandledPage
<1>5. HandleError(why, page, prompt) \in Pages(Tales(asked), Places)
  BY <1>1, HandledPage
<1> QED
  BY <1>3, <1>4, <1>5 DEF q

(* A call that failed: the prompt stays where it is, until the             *)
(* conversation has been read back.                                        *)
LEMMA FailsTold ==
  ASSUME SessionOk, MakeInv, ToldInv, NEW t \in tasks, t.kind \in Improving, NEW why, Fails(t, why), Applies(t),
         ~strayed', UNCHANGED <<asked, sent>>, threads' \in {threads, Improve(t).after}
  PROVE  ToldNow'
<1> DEFINE L == Tales(asked)
           p == HandleError(why, [page EXCEPT !.status = "fallback"], t.text)
           again == HandleError(why, Failed(p, t), t.text)
           rest == tasks \ {t}
<1>1. ~strayed
  BY DEF Applies
<1>2. /\ t.id \in Places /\ t.text \in Phrases /\ t.of = t.kind
      /\ t \in Handlers(Messages(sent)) /\ TaskTold(t, page.messages, request.thinking, asked)
  BY <1>1, TaskFacts
<1>3. /\ asked \in Nat /\ Stories(L) /\ page \in Pages(L, Places) /\ page.messages \in L /\ None \in Places
      /\ TalesStored(threads, asked)
  BY <1>1, ToldFacts DEF ThreadsTold, TalesStored
<1>4. \/ page' \in {p, again} /\ tasks' = rest
      \/ /\ page' = p /\ why # "auth"
         /\ \E u \in {Reading(t, "conflict", p), Reading(t, "recover", p), Reading(t, "show", p), Recent(t.n)} :
              tasks' = rest \cup {u}
  <2>1. \/ page' = p /\ tasks' = rest
        \/ page' = again /\ tasks' = rest
        \/ /\ why # "auth" /\ page' = p
           /\ \/ tasks' = rest \cup {Reading(t, "conflict", p)}
              \/ tasks' = rest \cup {Reading(t, "recover", p)}
              \/ tasks' = rest \cup {Reading(t, "show", p)}
              \/ tasks' = rest \cup {Recent(t.n)}
    BY Zenon DEF Fails
  <2> QED
    BY <2>1
<1>5. p \in Pages(L, Places) /\ (why # "auth" => p.messages = page.messages)
  BY <1>1, <1>2, FailureTold
<1> HIDE DEF p
<1>6. again \in Pages(L, Places)
  <2>1. Failed(p, t) \in Pages(L, Places)
    BY <1>2, <1>3, <1>5, FailedPage
  <2> QED
    BY <1>2, <1>3, <2>1, HandledPage
<1> HIDE DEF again
<1>7. ASSUME why # "auth", NEW then \in {"conflict", "recover", "show"}
      PROVE  \A b : TaskTold(Reading(t, then, p), p.messages, b, asked)
  <2>1. t.of = "edit" => NoNote(p.messages, t.key)
    BY <1>2, <1>5, <1>7, Zenon DEF TaskTold
  <2>2. p.messages \in L
    BY <1>5, PageFacts
  <2> QED
    BY <1>2, <2>1, <2>2, <1>7, ReadingTold
<1>8. why # "auth" => \A b : \A u \in {Reading(t, "conflict", p), Reading(t, "recover", p), Reading(t, "show", p),
                                        Recent(t.n)} : TaskTold(u, p.messages, b, asked)
  <2> SUFFICES ASSUME why # "auth", NEW b
               PROVE  /\ TaskTold(Reading(t, "conflict", p), p.messages, b, asked)
                      /\ TaskTold(Reading(t, "recover", p), p.messages, b, asked)
                      /\ TaskTold(Reading(t, "show", p), p.messages, b, asked)
                      /\ TaskTold(Recent(t.n), p.messages, b, asked)
    OBVIOUS
  <2>1. TaskTold(Recent(t.n), p.messages, b, asked)
    BY RecentTold, Zenon
  <2> QED
    BY <1>7, <2>1
<1>9. page' \in Pages(L, Places) /\ \A u \in tasks' : u \in rest \/ TaskTold(u, page'.messages, request'.thinking, asked)
  BY <1>4, <1>5, <1>6, <1>8
<1>10. asked' = asked /\ \A n \in DOMAIN threads' : threads'[n].messages \in Plain(asked')
  <2>1. TalesStored(threads', asked)
    BY <1>1, <1>3, ImproveTold
  <2> QED
    BY <2>1 DEF TalesStored
<1> QED
  BY <1>9, <1>10, AnswerTold

LEMMA ImproveAnswerTold ==
  ASSUME SessionOk, MakeInv, ToldInv, NEW t, NEW how, ImproveAnswer(t, how), ~strayed'
  PROVE  ToldNow'
<1>1. t \in tasks /\ t.kind \in Improving /\ Applies(t) /\ UNCHANGED <<asked, sent>>
  BY DEF ImproveAnswer
<1>2. \/ Answered(t)
      \/ threads' \in {threads, Improve(t).after} /\ \E why : Fails(t, why)
  <2>1. \/ Answered(t)
        \/ threads' = threads /\ \E why : Fails(t, why)
        \/ threads' = Improve(t).after /\ \E why : Fails(t, why)
    BY Zenon DEF ImproveAnswer
  <2> QED
    BY <2>1
<1> QED
  BY <1>1, <1>2, AnsweredTold, FailsTold

LEMMA CancelTold ==
  ASSUME SessionOk, MakeInv, ToldInv, NEW t, Cancel(t), ~strayed'
  PROVE  ToldNow'
<1> DEFINE q == IF t.of = "edit" THEN [page EXCEPT !.draft = t.text] ELSE page
<1>1. /\ t \in tasks /\ t.kind \in Improving /\ Applies(t) /\ UNCHANGED <<asked, sent>>
      /\ threads' \in {threads, Improve(t).after} /\ page' = Updated(q, t.id) /\ tasks' = tasks \ {t}
  BY DEF Cancel
<1>2. ~strayed
  BY <1>1 DEF Applies
<1>3. t.id \in Places /\ t.text \in Phrases
  BY <1>1, <1>2, TaskFacts
<1>4. page \in Pages(Tales(asked), Places) /\ None \in Places /\ TalesStored(threads, asked)
  BY <1>2, ToldFacts DEF ThreadsTold, TalesStored
<1>5. q \in Pages(Tales(asked), Places)
  BY <1>3, <1>4, PageEdits
<1> HIDE DEF q
<1>6. page' \in Pages(Tales(asked), Places)
  BY <1>1, <1>3, <1>4, <1>5, UpdatedPage
<1>7. asked' = asked /\ \A n \in DOMAIN threads' : threads'[n].messages \in Plain(asked')
  <2>1. TalesStored(threads', asked)
    BY <1>1, <1>2, <1>4, ImproveTold
  <2> QED
    BY <1>1, <2>1 DEF TalesStored
<1>8. \A u \in tasks' : u \in tasks \ {t}
  BY <1>1
<1> QED
  BY <1>1, <1>6, <1>7, <1>8, AnswerTold

(* A prompt that met a conflict is put below what was read back: no note   *)
(* there is about the prompt it was to replace.                            *)
LEMMA NoteTold ==
  ASSUME SessionOk, MakeInv, ToldInv, ~strayed, NEW t \in tasks, t.kind \in Prompted,
         NEW ms \in Tales(asked), t.of = "edit" => NoNote(ms, t.key)
  PROVE  Append(ms, Note(t)) \in Tales(asked + 1)
<1> DEFINE mode == IF t.of = "edit" THEN "edit note" ELSE "note"
           target == IF t.of = "edit" THEN t.key ELSE 0
<1>1. /\ t.key \in Int /\ t.key <= asked /\ t.text \in Texts /\ t.rid \in Nat
      /\ asked \in Nat
  BY TaskFacts, ToldFacts
<1>2. PICK m : m = Note(t)
  OBVIOUS
<1>3. m = [Ask(asked + 1, t.text, t.rid, mode) EXCEPT !.target = target]
  BY <1>2, Zenon DEF Note
<1>4. (mode = "edit note" => t.of = "edit" /\ target = t.key) /\ mode \in {"note", "edit note"}
  <2>1. "note" # "edit note"
    OBVIOUS
  <2> QED
    BY <2>1, Zenon
<1>10. mode \in Modes
  BY <1>4, Zenon DEF Modes
<1>5. target \in Int /\ target <= asked
  BY <1>1
<1> HIDE DEF mode, target
<1>6. m.mode = mode
  <2>1. PICK a : a = Ask(asked + 1, t.text, t.rid, mode)
    OBVIOUS
  <2>2. asked + 1 \in Int
    BY <1>1
  <2>3. [a EXCEPT !.target = target].mode = mode
    BY <1>1, <1>10, <1>5, <2>1, <2>2, AskIs
  <2> QED
    BY <1>3, <2>1, <2>3, Zenon
<1>7. IsNote(m)
  BY <1>4, <1>6, Zenon DEF IsNote
<1>8. OnEdit(m) => NoNote(ms, target)
  BY <1>4, <1>6, Zenon DEF OnEdit
<1>9. Append(ms, m) \in Tales(asked + 1)
  BY <1>1, <1>3, <1>10, <1>5, <1>7, <1>8, NotedTale
<1> QED
  BY <1>2, <1>9

(* What waited for a conversation goes on.                                 *)
LEMMA GoesOnTold ==
  ASSUME SessionOk, MakeInv, ToldInv, ~strayed, NEW t \in tasks, t.kind \in {"thread", "list"},
         t.then \in {"conflict", "recover", "show"}, NEW p \in Pages(Tales(asked), Places),
         t.then = "conflict" /\ t.of = "edit" => NoNote(p.messages, t.key),
         NEW found, GoesOn(t, p, found)
  PROVE  page' \in Pages(Tales(asked'), Places) /\ asked' \in {asked, asked + 1}
<1> DEFINE L == Tales(asked)
           there == found /\ \E i \in DOMAIN p.messages :
                                p.messages[i].by = "user" /\ p.messages[i].text = t.text
           wanted == [p EXCEPT !.draft = t.text]
           noted == Updated(Added(wanted, t.id, Note(t)), t.id)
           back == Restored(p, t)
<1>1. t.kind \in Prompted
  BY DEF Prompted
<1>2. /\ t.id \in Places /\ t.text \in Phrases /\ t.old \in L /\ asked \in Nat /\ None \in Places /\ Stories(L)
      /\ p.messages \in L
  BY TaskFacts, ToldFacts, PageFacts
<1>3. ASSUME t.then = "conflict" PROVE noted \in Pages(Tales(asked + 1), Places)
  <2>1. wanted \in Pages(L, Places) /\ wanted.messages = p.messages
    <3>1. Edits(p, L, Places)
      BY OtherEdits
    <3> QED
      BY <1>2, <3>1, Zenon DEF Edits
  <2>2. asked \in Int /\ asked + 1 \in Int /\ asked <= asked + 1
    BY <1>2
  <2>3. \A ms \in L : ms \in Tales(asked + 1)
    BY <2>2, LaterTales
  <2> HIDE DEF wanted
  <2>4. wanted \in Pages(Tales(asked + 1), Places)
    BY <2>1, <2>3, WiderPages
  <2>5. Append(p.messages, Note(t)) \in Tales(asked + 1)
    BY <1>1, <1>2, <1>3, NoteTold
  <2>6. Append(wanted.messages, Note(t)) \in Tales(asked + 1)
    BY <2>1, <2>5
  <2>7. Added(wanted, t.id, Note(t)) \in Pages(Tales(asked + 1), Places)
    BY <1>2, <2>4, <2>6, AddedPage
  <2> QED
    BY <1>2, <2>7, UpdatedPage
<1>4. back \in Pages(L, Places) /\ Failed(back, t) \in Pages(L, Places)
  <2>1. back \in Pages(L, Places)
    BY <1>2, PageEdits DEF Restored
  <2> QED
    BY <1>2, <2>1, FailedPage
<1>5. CASE t.then = "conflict"
  <2>1. page' = noted /\ asked' = asked + 1
    BY <1>5, Zenon DEF GoesOn
  <2> QED
    BY <1>3, <1>5, <2>1
<1>6. CASE t.then = "recover" /\ ~there
  <2>1. page' = (IF t.of = "edit" THEN back ELSE Failed(back, t)) /\ asked' = asked
    BY <1>6, Zenon DEF GoesOn
  <2> QED
    BY <1>4, <2>1
<1>7. CASE t.then = "show" \/ (t.then = "recover" /\ there)
  <2>1. page' = p /\ asked' = asked
    BY <1>7, Zenon DEF GoesOn
  <2> QED
    BY <2>1
<1> QED
  BY <1>5, <1>6, <1>7

(* A conversation of the server, and the list of them.                     *)
LEMMA FetchedTold ==
  ASSUME SessionOk, MakeInv, ToldInv, ~strayed, NEW n \in DOMAIN threads
  PROVE  /\ Fetched(Server(n)) \in Talks(Tales(asked), Places)
         /\ Fetched(Server(n)).messages \in Plain(asked)
<1>1. threads[n].messages \in Plain(asked) /\ threads[n].messages \in Tales(asked)
  BY ToldFacts, PlainIs DEF ThreadsTold
<1>2. n \in Int
  BY ThreadFacts DEF MakeInv, ThreadsOk
<1>3. Server(n) \in Places /\ Server(n)[2] = n
  BY <1>2 DEF Server, Places
<1>4. Fetched(Server(n)) = [id |-> Server(n), server |-> Server(n), messages |-> threads[n].messages]
  BY <1>3 DEF Fetched
<1> QED
  BY <1>1, <1>3, <1>4, TalkFacts

LEMMA AllMineTold ==
  ASSUME SessionOk, MakeInv, ToldInv, ~strayed, NEW tok
  PROVE  AllMine(tok) \in Seq(Talks(Tales(asked), Places))
<1> DEFINE S == Mine(tok)
           k == Cardinality(S)
           E == Talks(Tales(asked), Places)
           at(i) == Fetched(Server(Nth(S, k + 1 - i)))
<1>1. threads \in Seq(Keeps(Messages(sent)))
  BY DEF MakeInv, ThreadsOk
<1>2. Len(threads) \in Nat /\ DOMAIN threads = 1..Len(threads)
  BY <1>1
<1>3. S \in SUBSET (1..Len(threads))
  BY <1>2 DEF Mine
<1>4. k \in Nat
  <2>1. IsFiniteSet(1..Len(threads))
    BY <1>2, FS_Interval
  <2>2. IsFiniteSet(S)
    BY <1>3, <2>1, FS_Subset
  <2> QED
    BY <2>2, FS_CardinalityType
<1>5. ASSUME NEW n \in S PROVE Fetched(Server(n)) \in E
  <2>1. n \in DOMAIN threads
    BY <1>5 DEF Mine
  <2> QED
    BY <2>1, FetchedTold
<1> HIDE DEF E
<1>6. ASSUME NEW i \in 1..k PROVE at(i) \in E
  <2>1. k + 1 - i \in 1..k
    BY <1>4
  <2>2. Nth(S, k + 1 - i) \in S
    BY <1>2, <1>3, <2>1, NthIsIn
  <2> QED
    BY <1>5, <2>2
<1>7. AllMine(tok) = [i \in 1..k |-> at(i)]
  BY Zenon DEF AllMine
<1> HIDE DEF at, k
<1>8. [i \in 1..k |-> at(i)] \in Seq(E)
  BY <1>4, <1>6
<1> QED
  BY <1>7, <1>8 DEF E

LEMMA ReadBackTold ==
  ASSUME SessionOk, MakeInv, ToldInv, ~strayed, NEW t \in tasks, t.kind = "thread", Owned(t, t.to[2])
  PROVE  /\ Refreshed(page, t.to) \in Pages(Tales(asked), Places)
         /\ Refreshed(page, t.to).messages \in Plain(asked)
<1>1. HandlerOk(t, sent, token, Len(owners), strayed)
  BY TaskFacts
<1>2. t.to = Server(t.to[2])
  <2>1. t.to \in Places /\ t.to[1] = "server"
    BY <1>1 DEF HandlerOk, Handlers, OnServer
  <2>2. t.to = <<t.to[1], t.to[2]>>
    BY <2>1, Pairs DEF Places
  <2> QED
    BY <2>1, <2>2 DEF Server
<1>3. t.to[2] \in DOMAIN threads
  BY DEF Owned
<1>4. Fetched(Server(t.to[2])) \in Talks(Tales(asked), Places) /\ Fetched(Server(t.to[2])).messages \in Plain(asked)
  BY <1>3, FetchedTold
<1>5. Fetched(t.to) \in Talks(Tales(asked), Places) /\ Fetched(t.to).messages \in Plain(asked)
  BY <1>2, <1>4, Zenon
<1>6. page \in Pages(Tales(asked), Places)
  BY ToldFacts
<1>7. Refreshed(page, t.to) \in Pages(Tales(asked), Places)
  BY <1>5, <1>6, ReadBackPage
<1>8. PICK q, e : Refreshed(page, t.to) = Opened(q, e) /\ e = Fetched(t.to) /\ \E x : q = [page EXCEPT !.recent = x]
  BY Zenon DEF Refreshed
<1>9. Opened(q, e).messages = e.messages
  <2>1. PICK x : q = [page EXCEPT !.recent = x]
    BY <1>8
  <2>2. "messages" \in DOMAIN q
    BY <1>6, <2>1 DEF Pages
  <2> QED
    BY <2>2 DEF Opened
<1> QED
  BY <1>5, <1>7, <1>8, <1>9

LEMMA ThreadAnswerTold ==
  ASSUME SessionOk, MakeInv, ToldInv, NEW t, NEW ok, ThreadAnswer(t, ok), ~strayed'
  PROVE  ToldNow' /\ AskedOn
<1> DEFINE p == IF ok THEN Refreshed(page, t.to) ELSE page
           u == [t EXCEPT !.kind = "list"]
<1>1. t \in tasks /\ t.kind = "thread" /\ threads' = threads
  BY DEF ThreadAnswer
<1>2. \/ tasks' = (tasks \ {t}) \cup {u} /\ UNCHANGED <<page, request, asked, strayed>>
      \/ /\ tasks' = tasks \ {t} /\ Applies(t) /\ GoesOn(t, p, ok)
         /\ ~(ok /\ ~Owned(t, t.to[2]))
  BY Zenon DEF ThreadAnswer
<1>3. ~strayed
  BY <1>2 DEF Applies
<1>4. t.then \in {"conflict", "recover", "show"} /\ t.kind \in {"thread", "list"}
  BY <1>1 DEF SessionOk
<1>5. t \in Handlers(Messages(sent)) /\ TaskTold(t, page.messages, request.thinking, asked)
  BY <1>1, <1>3, TaskFacts
<1>6. /\ page \in Pages(Tales(asked), Places) /\ ThreadsTold /\ TasksTold
  BY <1>3, ToldFacts
<1>7. CASE tasks' = (tasks \ {t}) \cup {u} /\ UNCHANGED <<page, request, asked, strayed>>
  <2>1. u.kind = "list" /\ u.of = t.of /\ u.then = t.then /\ u.key = t.key /\ u.old = t.old
    BY <1>5 DEF Handlers
  <2> HIDE DEF u
  <2>2. "list" \notin {"submit", "local", "edit"} /\ "thread" \notin {"submit", "local", "edit"}
    OBVIOUS
  <2>3. u.kind \notin Improving /\ u.kind \notin {"submit", "local"} /\ u.kind # "edit" /\ t.kind \in Prompted
    BY <1>1, <2>1, <2>2 DEF Improving, Prompted
  <2>4. TaskTold(u, page.messages, request.thinking, asked)
    BY <1>5, <2>1, <2>3 DEF TaskTold
  <2> QED
    BY <1>1, <1>3, <1>6, <1>7, <2>4 DEF ToldNow, PageTold, ThreadsTold, TasksTold, AskedOn
<1>8. CASE tasks' = tasks \ {t} /\ Applies(t) /\ GoesOn(t, p, ok) /\ ~(ok /\ ~Owned(t, t.to[2]))
  <2>1. p \in Pages(Tales(asked), Places) /\ (t.then = "conflict" /\ t.of = "edit" => NoNote(p.messages, t.key))
    <3>1. CASE ok
      BY <1>1, <1>3, <1>8, <3>1, ReadBackTold, PlainIs
    <3>2. CASE ~ok
      BY <1>5, <1>6, <3>2 DEF TaskTold
    <3> QED
      BY <3>1, <3>2
  <2> HIDE DEF p
  <2>2. page' \in Pages(Tales(asked'), Places) /\ asked' \in {asked, asked + 1}
    BY <1>1, <1>3, <1>4, <1>8, <2>1, GoesOnTold
  <2>3. \A n \in DOMAIN threads' : threads'[n].messages \in Plain(asked')
    BY <1>1, <1>3, <2>2, LaterToldPage
  <2>4. \A x \in tasks' : x \in tasks \ {t}
    BY <1>8
  <2> QED
    BY <1>1, <1>3, <1>8, <2>2, <2>3, <2>4, AnswerTold DEF AskedOn
<1> QED
  BY <1>2, <1>7, <1>8

LEMMA ListAnswerTold ==
  ASSUME SessionOk, MakeInv, ToldInv, NEW t, NEW ok, ListAnswer(t, ok), ~strayed'
  PROVE  ToldNow' /\ AskedOn
<1> DEFINE p == IF ok /\ t.token # 0 THEN Listed(page, AllMine(t.token)) ELSE page
           found == Known(p, t.to)
           q == IF found THEN Opened(p, Entry(p, t.to)) ELSE p
<1>1. t \in tasks /\ t.kind = "list" /\ threads' = threads /\ tasks' = tasks \ {t} /\ Applies(t)
  BY DEF ListAnswer
<1>2. GoesOn(t, q, found)
  BY Zenon DEF ListAnswer
<1>3. ~strayed /\ t.then # "conflict"
  BY <1>1 DEF Applies, Astray, Gone
<1>4. t.then \in {"conflict", "recover", "show"} /\ t.kind \in {"thread", "list"}
  BY <1>1 DEF SessionOk
<1>5. page \in Pages(Tales(asked), Places) /\ Stories(Tales(asked)) /\ None \in Places
  BY <1>3, ToldFacts
<1>6. AllMine(t.token) \in Seq(Talks(Tales(asked), Places))
  BY <1>3, AllMineTold
<1>7. p \in Pages(Tales(asked), Places)
  BY <1>5, <1>6, ListedPage
<1> HIDE DEF p
<1>8. q \in Pages(Tales(asked), Places)
  BY <1>7, EntryIsTalk, OpenedPage
<1> HIDE DEF q, found
<1>9. page' \in Pages(Tales(asked'), Places) /\ asked' \in {asked, asked + 1}
  BY <1>1, <1>2, <1>3, <1>4, <1>8, GoesOnTold
<1>10. \A n \in DOMAIN threads' : threads'[n].messages \in Plain(asked')
  BY <1>1, <1>3, <1>9, LaterToldPage
<1>11. \A x \in tasks' : x \in tasks \ {t}
  BY <1>1
<1> QED
  BY <1>1, <1>3, <1>9, <1>10, <1>11, AnswerTold DEF AskedOn

(* The list of the member's conversations arrives.                         *)
LEMMA RecentAnswerTold ==
  ASSUME SessionOk, MakeInv, ToldInv, NEW t, NEW how, RecentAnswer(t, how), ~strayed'
  PROVE  ToldNow'
<1>1. t \in tasks /\ UNCHANGED <<threads, asked>> /\ tasks' = tasks \ {t} /\ Applies(t)
  BY DEF RecentAnswer
<1>2. ~strayed
  BY <1>1 DEF Applies
<1>3. page \in Pages(Tales(asked), Places) /\ Stories(Tales(asked)) /\ None \in Places /\ ThreadsTold
  BY <1>2, ToldFacts
<1>4. AllMine(t.token) \in Seq(Talks(Tales(asked), Places))
  BY <1>2, AllMineTold
<1>5. Listed(page, AllMine(t.token)) \in Pages(Tales(asked), Places)
  BY <1>3, <1>4, ListedPage
<1>6. HandleError(how, page, NoText) \in Pages(Tales(asked), Places)
  <2>1. NoText \in Phrases /\ "idle" \in {"idle", "checking", "connected", "fallback"}
    BY DEF Phrases
  <2> QED
    BY <1>2, <2>1, FailureTold
<1>7. page' \in Pages(Tales(asked'), Places)
  BY <1>1, <1>5, <1>6 DEF RecentAnswer
<1>8. \A n \in DOMAIN threads' : threads'[n].messages \in Plain(asked')
  BY <1>1, <1>3 DEF ThreadsTold
<1>9. \A x \in tasks' : x \in tasks \ {t}
  BY <1>1
<1> QED
  BY <1>1, <1>7, <1>8, <1>9, AnswerTold

LEMMA HydrateAnswerTold ==
  ASSUME SessionOk, MakeInv, ToldInv, NEW t, NEW how, HydrateAnswer(t, how), ~strayed'
  PROVE  ToldNow'
<1>1. t \in tasks /\ UNCHANGED <<threads, asked, request>> /\ tasks' = tasks \ {t}
  BY DEF HydrateAnswer
<1>2. CASE t.key # request.version
  <2>1. UNCHANGED <<page, strayed>>
    BY <1>2 DEF HydrateAnswer
  <2>2. page \in Pages(Tales(asked), Places) /\ ThreadsTold /\ TasksTold
    BY <2>1, ToldFacts
  <2> QED
    BY <1>1, <2>1, <2>2 DEF ToldNow, PageTold, ThreadsTold, TasksTold
<1>3. CASE t.key = request.version
  <2>1. Applies(t)
    BY <1>3 DEF HydrateAnswer
  <2>2. ~strayed
    BY <2>1 DEF Applies
  <2>3. page \in Pages(Tales(asked), Places) /\ Stories(Tales(asked)) /\ None \in Places /\ ThreadsTold
    BY <2>2, ToldFacts
  <2>4. AllMine(t.token) \in Seq(Talks(Tales(asked), Places))
    BY <2>2, AllMineTold
  <2>5. Listed(page, AllMine(t.token)) \in Pages(Tales(asked), Places)
    BY <2>3, <2>4, ListedPage
  <2>6. HandleError(how, page, NoText) \in Pages(Tales(asked), Places)
    <3>1. NoText \in Phrases /\ "idle" \in {"idle", "checking", "connected", "fallback"}
      BY DEF Phrases
    <3> QED
      BY <2>2, <3>1, FailureTold
  <2>7. \/ page' = [Listed(page, AllMine(t.token)) EXCEPT !.status = "connected"]
        \/ page' = [HandleError(how, page, NoText) EXCEPT !.status = "fallback"]
    BY <1>3, Zenon DEF HydrateAnswer
  <2>8. page' \in Pages(Tales(asked'), Places)
    <3>1. Edits(Listed(page, AllMine(t.token)), Tales(asked), Places)
      BY <2>5, OtherEdits, Zenon
    <3>2. Edits(HandleError(how, page, NoText), Tales(asked), Places)
      BY <2>6, OtherEdits, Zenon
    <3>3. page' \in Pages(Tales(asked), Places)
      BY <2>7, <3>1, <3>2, Zenon DEF Edits
    <3> QED
      BY <1>1, <3>3
  <2>9. \A n \in DOMAIN threads' : threads'[n].messages \in Plain(asked')
    BY <1>1, <2>3 DEF ThreadsTold
  <2>10. \A x \in tasks' : x \in tasks \ {t}
    BY <1>1
  <2> QED
    BY <1>1, <2>1, <2>8, <2>9, <2>10, AnswerTold
<1> QED
  BY <1>2, <1>3

LEMMA DeleteAnswerTold ==
  ASSUME SessionOk, MakeInv, ToldInv, NEW t, NEW how, DeleteAnswer(t, how), ~strayed'
  PROVE  ToldNow'
<1> DEFINE gone == [threads EXCEPT ![t.key].live = FALSE]
<1>1. /\ t \in tasks /\ asked' = asked /\ Applies(t)
      /\ threads' = (IF how # "auth" /\ Owned(t, t.key) THEN gone ELSE threads)
      /\ page' = (IF how = "ok" THEN Deleted(page, t.to) ELSE HandleError(how, page, NoText))
      /\ tasks' = (tasks \ {t}) \cup (IF how = "ok" /\ LoggedIn THEN {Recent(0)} ELSE {})
  BY DEF DeleteAnswer
<1>2. ~strayed
  BY <1>1 DEF Applies
<1>3. page \in Pages(Tales(asked), Places) /\ Stories(Tales(asked)) /\ None \in Places /\ ThreadsTold
  BY <1>2, ToldFacts
<1>4. ASSUME NEW n \in DOMAIN gone PROVE gone[n].messages \in Plain(asked)
  <2>1. n \in DOMAIN threads
    BY <1>4
  <2>2. threads[n] \in Keeps(Messages(sent)) /\ threads[n].messages \in Plain(asked)
    BY <1>3, <2>1, ThreadFacts DEF MakeInv, ThreadsOk, ThreadsTold
  <2>3. [threads[n] EXCEPT !.live = FALSE].messages = threads[n].messages
    BY <2>2 DEF Keeps
  <2>4. gone[n] = threads[n] \/ gone[n] = [threads[n] EXCEPT !.live = FALSE]
    BY <2>1
  <2> HIDE DEF gone
  <2> QED
    BY <2>2, <2>3, <2>4
<1> HIDE DEF gone
<1>5. \A n \in DOMAIN threads' : threads'[n].messages \in Plain(asked')
  BY <1>1, <1>3, <1>4 DEF ThreadsTold
<1>6. HandleError(how, page, NoText) \in Pages(Tales(asked), Places)
  <2>1. NoText \in Phrases /\ "idle" \in {"idle", "checking", "connected", "fallback"}
    BY DEF Phrases
  <2> QED
    BY <1>2, <2>1, FailureTold
<1>7. Deleted(page, t.to) \in Pages(Tales(asked), Places)
  BY <1>3, DeletedPage
<1>8. page' \in Pages(Tales(asked'), Places)
  BY <1>1, <1>6, <1>7
<1>9. \A ms, b : TaskTold(Recent(0), ms, b, asked)
  BY RecentTold, Zenon
<1>10. \A x \in tasks' : x \in tasks \ {t} \/ TaskTold(x, page'.messages, request'.thinking, asked')
  BY <1>1, <1>9
<1>11. asked' \in {asked, asked + 1}
  BY <1>1
<1> QED
  BY <1>1, <1>5, <1>8, <1>10, <1>11, AnswerTold

----------------------------------------------------------------------------
(* Prompts are sent                                                        *)

LEMMA CallIs ==
  ASSUME NEW kind, NEW p, NEW id, NEW key, NEW text, NEW rid, NEW old, NEW t,
         t = Call(kind, p, id, key, text, rid, old)
  PROVE  t.kind = kind /\ t.of = kind /\ t.key = key /\ t.text = text /\ t.then = "none" /\ t.old \in {old, <<>>}
<1> DEFINE to == IF LoggedIn THEN Backend(p, id) ELSE None
           saved == IndexOf(p, key) # 0 /\ p.messages[IndexOf(p, key)].mode = "saved"
           past == IF to = None THEN old ELSE <<>>
<1>1. t = [kind |-> kind, of |-> kind, then |-> "none", n |-> asked + 1, token |-> token,
           id |-> id, to |-> to, key |-> key, text |-> text, rid |-> rid, saved |-> saved, old |-> past]
  BY Zenon DEF Call
<1>2. past \in {old, <<>>}
  OBVIOUS
<1> HIDE DEF to, saved, past
<1> QED
  BY <1>1, <1>2

(* The page of which a prompt is sent has no prompt that waits.            *)
LEMMA BeginTold ==
  ASSUME SessionOk, ToldInv, ~strayed, ~request.thinking, NEW q \in Pages(Tales(asked + 1), Places),
         \A n : NoNote(page.messages, n) => NoNote(q.messages, n),
         NEW task, \A b : b => TaskTold(task, q.messages, b, asked + 1),
         NEW version, NEW spoilt, Begin(q, task, version, spoilt)
  PROVE  ToldNow'
<1>1. /\ page' = q /\ request' = Started(version) /\ tasks' = tasks \cup {task} /\ asked' = asked + 1
      /\ threads' = threads
  BY DEF Begin
<1>2. request'.thinking
  BY <1>1 DEF Started
<1>3. asked \in Int /\ asked + 1 \in Int /\ asked <= asked + 1 /\ TasksTold
  <2>1. asked \in Nat /\ TasksTold
    BY ToldFacts
  <2> QED
    BY <2>1
<1>4. ASSUME NEW t \in tasks PROVE TaskTold(t, q.messages, request'.thinking, asked + 1)
  <2>1. TaskTold(t, page.messages, request.thinking, asked)
    BY <1>3 DEF TasksTold
  <2>2. t.kind \notin {"submit", "local"}
    BY <2>1 DEF TaskTold
  <2> QED
    BY <1>3, <2>1, <2>2, WaitingTold
<1>5. TaskTold(task, q.messages, request'.thinking, asked + 1)
  BY <1>2
<1>6. \A n \in DOMAIN threads : threads[n].messages \in Plain(asked + 1)
  BY <1>1, LaterToldPage
<1> QED
  BY <1>1, <1>4, <1>5, <1>6 DEF ToldNow, PageTold, ThreadsTold, TasksTold

(* A new prompt, from the composer.                                        *)
LEMMA SubmitTold ==
  ASSUME SessionOk, ToldInv, ~strayed, ~request.thinking, NEW p \in Pages(Tales(asked), Places),
         \A n : NoNote(page.messages, n) => NoNote(p.messages, n), NEW text \in Texts, SubmitOn(p, text)
  PROVE  ToldNow'
<1> DEFINE n == asked + 1
           id == ThreadOf(p)
           rid == IF LoggedIn THEN n ELSE 0
           m == Ask(n, text, rid, "new")
           blank == [p EXCEPT !.draft = NoText]
           q == Updated(Added(blank, id, m), id)
           old == History(p.messages)
           task == Call("submit", q, id, n, text, rid, old)
           new == Append(p.messages, m)
<1>1. Begin(q, task, request.version + 1, {})
  BY Zenon DEF SubmitOn
<1>2. asked \in Nat /\ p.messages \in Tales(asked) /\ None \in Places
  BY ToldFacts, PageFacts
<1>3. id \in Places
  BY PageFacts DEF ThreadOf, Local, Places, SessionOk
<1>4. rid \in Nat
  BY <1>2
<1> HIDE DEF rid, id
<1>5. /\ new \in Tales(asked + 1) /\ NoNote(new, asked + 1)
      /\ \A x : x.key = asked + 1 /\ x.text = text => Below(new, x)
      /\ \A j : NoNote(p.messages, j) => NoNote(new, j)
  <2>1. PICK a, c, ms, r : a = m /\ c = Append(ms, a) /\ ms = p.messages /\ r = rid
    OBVIOUS
  <2>2. c = new
    BY <2>1
  <2>3. /\ c \in Tales(asked + 1) /\ NoNote(c, asked + 1)
        /\ \A x : x.key = asked + 1 /\ x.text = text => Below(c, x)
        /\ \A j : NoNote(ms, j) => NoNote(c, j)
    <3>1. /\ a \in Message /\ a.by = "user" /\ a.key = asked + 1 /\ a.text = text
          /\ a.target = 0 /\ a.mode = "new"
      <4>1. a = Ask(asked + 1, text, r, "new")
        BY <2>1
      <4>2. "new" \in Modes /\ asked + 1 \in Int /\ r \in Nat
        BY <1>2, <1>4, <2>1 DEF Modes
      <4> HIDE DEF n, m, blank, q, new, old, task
      <4> QED
        BY <4>1, <4>2, AskIs
    <3>2. c = Append(ms, a) /\ asked \in Nat /\ ms \in Tales(asked)
      BY <1>2, <2>1
    <3> HIDE DEF n, m, blank, q, new, old, task
    <3> QED
      BY <3>1, <3>2, AskedTale
  <2> HIDE DEF new
  <2> QED
    BY <2>1, <2>2, <2>3
<1>6. /\ old \in Plain(asked + 1) /\ old \in Tales(asked + 1) /\ <<>> \in Plain(asked + 1)
      /\ <<>> \in Tales(asked + 1) /\ \A ms \in Tales(asked) : ms \in Tales(asked + 1)
  <2>1. asked \in Int /\ asked + 1 \in Int /\ asked <= asked + 1 /\ 0 <= asked
    BY <1>2
  <2>2. old \in Plain(asked)
    BY <1>2, <2>1, HistoryTale
  <2> QED
    BY <2>1, <2>2, LaterTales, PlainIs, NothingSaid
<1> HIDE DEF m, old
<1>7. blank \in Pages(Tales(asked + 1), Places) /\ blank.messages = p.messages
  <2>1. p \in Pages(Tales(asked + 1), Places)
    BY <1>6, WiderPages
  <2>2. Edits(p, Tales(asked + 1), Places) /\ NoText \in Phrases
    BY <2>1, OtherEdits DEF Phrases
  <2> QED
    BY <2>2, Zenon DEF Edits
<1> HIDE DEF blank
<1>8. q \in Pages(Tales(asked + 1), Places) /\ q.messages = new
  <2> DEFINE a == Added(blank, id, m)
  <2>1. Append(blank.messages, m) \in Tales(asked + 1)
    BY <1>5, <1>7
  <2>2. a \in Pages(Tales(asked + 1), Places)
    BY <1>3, <1>7, <2>1, AddedPage
  <2>3. a.messages = new
    <3>1. a = [[blank EXCEPT !.open = id] EXCEPT !.messages = Append(blank.messages, m)]
      BY <1>7 DEF Added, Pages
    <3>2. "messages" \in DOMAIN blank
      BY <1>7 DEF Pages
    <3> HIDE DEF a
    <3>3. a.messages = Append(blank.messages, m)
      BY <3>1, <3>2
    <3> QED
      BY <1>7, <3>3
  <2> HIDE DEF a
  <2>4. Updated(a, id) \in Pages(Tales(asked + 1), Places) /\ Updated(a, id).messages = a.messages
    BY <1>2, <1>3, <2>2, UpdatedPage, SameWords
  <2> QED
    BY <2>3, <2>4 DEF a
<1> HIDE DEF q, new
<1>9. ASSUME NEW b, b PROVE TaskTold(task, q.messages, b, asked + 1)
  <2> DEFINE t == task
  <2>1. t.kind = "submit" /\ t.of = "submit" /\ t.key = asked + 1 /\ t.text = text /\ t.then = "none" /\ t.old \in {old, <<>>}
    BY CallIs
  <2> HIDE DEF t
  <2>2. t.old \in Tales(asked + 1) /\ t.old \in Plain(asked + 1)
    BY <1>6, <2>1
  <2>3. Below(q.messages, t) /\ NoNote(q.messages, t.key)
    BY <1>5, <1>8, <2>1
  <2>4. asked + 1 \in Int /\ asked + 1 <= asked + 1
    BY <1>2
  <2>5. TaskTold(t, q.messages, b, asked + 1)
    BY <1>9, <2>1, <2>2, <2>3, <2>4 DEF TaskTold
  <2> QED
    BY <2>5 DEF t
<1>10. \A j : NoNote(page.messages, j) => NoNote(q.messages, j)
  BY <1>5, <1>8
<1> HIDE DEF task
<1> QED
  BY <1>1, <1>8, <1>9, <1>10, BeginTold

LEMMA IndexIs ==
  ASSUME NEW k \in Nat, NEW p \in Pages(Tales(k), Places), NEW key, IndexOf(p, key) # 0
  PROVE  LET i == IndexOf(p, key)
         IN  /\ i \in DOMAIN p.messages /\ p.messages[i] \in Message
             /\ p.messages[i].by = "user" /\ p.messages[i].key = key
             /\ ~IsNote(p.messages[i]) => NoNote(p.messages, key)
<1> DEFINE at == {i \in DOMAIN p.messages : p.messages[i].by = "user" /\ p.messages[i].key = key}
           i == IndexOf(p, key)
<1>1. at # {} /\ i = First(at)
  BY DEF IndexOf
<1>2. p.messages \in Tales(k) /\ p.messages \in Seq(Message) /\ at \in SUBSET (DOMAIN p.messages)
  BY PageFacts, TaleIs
<1>3. First(at) \in at
  <2> HIDE DEF at
  <2> QED
    BY <1>1, <1>2, FirstOf
<1> HIDE DEF i
<1>4. i \in DOMAIN p.messages /\ p.messages[i].by = "user" /\ p.messages[i].key = key
  BY <1>1, <1>3
<1>5. ASSUME ~IsNote(p.messages[i]) PROVE NoNote(p.messages, key)
  <2> SUFFICES ASSUME NEW j \in DOMAIN p.messages, IsNote(p.messages[j]) PROVE p.messages[j].key # key
    BY DEF NoNote
  <2>1. j # i
    BY <1>5
  <2> QED
    BY <1>2, <1>4, <2>1, TaleIs DEF NotesApart
<1> QED
  BY <1>2, <1>4, <1>5 DEF i

(* A prompt that is sent again: as an edit of what the server has, and the *)
(* messages stay; or as the last message of what came before it.           *)
LEMMA MarkedInPlace ==
  ASSUME NEW k \in Nat, NEW ms \in Tales(k), NEW i \in DOMAIN ms, ~IsNote(ms[i]), NEW rid \in Nat, NEW text \in Texts,
         NEW m, m = ms[i] \/ m = [ms[i] EXCEPT !.rid = rid, !.sentText = text]
  PROVE  /\ m \in Message /\ Echoes(m, ms[i]) /\ m.target <= k /\ ~IsNote(m) /\ ~OnEdit(m)
         /\ [ms EXCEPT ![i] = m] \in Tales(k)
         /\ \A n : NoNote(ms, n) => NoNote([ms EXCEPT ![i] = m], n)
<1>1. ms \in Seq(Message) /\ ms[i] \in Message /\ ms[i].target <= k
  BY TaleIs DEF Upto
<1>2. text \in Phrases
  BY DEF Phrases
<1>3. m \in Message /\ Echoes(m, ms[i]) /\ m.target = ms[i].target /\ m.mode = ms[i].mode
  BY <1>1, <1>2 DEF Message, Echoes
<1>4. ~IsNote(m)
  BY <1>3, Zenon DEF IsNote
<1>5. ~OnEdit(m)
  BY <1>4, OnEditIsNote
<1>6. [ms EXCEPT ![i] = m] \in Tales(k)
  BY <1>1, <1>3, <1>4, MarkedTale
<1>7. \A n : NoNote(ms, n) => NoNote([ms EXCEPT ![i] = m], n)
  BY <1>1, <1>4 DEF NoNote
<1> QED
  BY <1>1, <1>3, <1>4, <1>5, <1>6, <1>7

LEMMA EditedTale ==
  ASSUME NEW k \in Nat, NEW ms \in Tales(k), NEW i \in DOMAIN ms, NEW key \in Int, key <= k + 1,
         NoNote(ms, key), NEW text \in Texts,
         NEW e \in Message, e.by = "user", e.key = key, e.text = text, e.target <= k, ~IsNote(e), ~OnEdit(e),
         NEW new, new = Edited(ms, i, e)
  PROVE  /\ new \in Tales(k + 1) /\ NoNote(new, key)
         /\ \A x : x.key = key /\ x.text = text => Below(new, x)
         /\ \A n : NoNote(ms, n) => NoNote(new, n)
<1> DEFINE cut == SubSeq(ms, 1, i - 1)
<1>1. k \in Int /\ k + 1 \in Int /\ k <= k + 1 /\ i - 1 \in 0..Len(ms)
  BY TaleIs
<1>2. cut \in Tales(k) /\ \A n : NoNote(ms, n) => NoNote(cut, n)
  BY <1>1, CutTale
<1>3. new = Append(cut, e)
  BY DEF Edited
<1> HIDE DEF cut
<1>4. cut \in Seq(Message) /\ NoNote(cut, e.key)
  BY <1>2, TaleIs
<1>5. e.target <= k + 1
  <2>1. e.target \in Int
    BY MessageIs
  <2> QED
    BY <2>1
<1>6. e.by # "ai"
  OBVIOUS
<1>7. new \in Tales(k + 1)
  BY <1>1, <1>2, <1>3, <1>4, <1>5, <1>6, LongerTale
<1>8. \A n : NoNote(cut, n) => NoNote(new, n)
  BY <1>3, <1>4, LongerNoNote
<1>9. \A x : x.key = key /\ x.text = text => Below(new, x)
  BY <1>3, <1>4, LongerBelow
<1> QED
  BY <1>2, <1>7, <1>8, <1>9

LEMMA ResendTold ==
  ASSUME SessionOk, ToldInv, ~strayed, ~request.thinking, NEW p \in Pages(Tales(asked), Places),
         \A n : NoNote(page.messages, n) => NoNote(p.messages, n),
         NEW key \in Int, IndexOf(p, key) # 0, ~IsNote(p.messages[IndexOf(p, key)]),
         NEW text \in Texts, ResendOn(p, key, text)
  PROVE  ToldNow'
<1> DEFINE L == Tales(asked + 1)
           i == IndexOf(p, key)
           m == p.messages[i]
           id == ThreadOf(p)
           rid == IF LoggedIn THEN RequestId(m, text, asked + 1) ELSE 0
           marked == IF rid = 0 THEN m ELSE [m EXCEPT !.rid = rid, !.sentText = text]
           edited == [marked EXCEPT !.text = text]
           spoilt == IF m.rid # 0 /\ m.sentText = NoText /\ text # m.text THEN {<<m.rid, NoText>>} ELSE {}
           apart == IF LoggedIn THEN {} ELSE spoilt
           there == LoggedIn /\ Backend(p, id) # None /\ m.mode # "follow-up"
           ms == [p.messages EXCEPT ![i] = marked]
           new == Edited(p.messages, i, edited)
           q == IF there THEN Updated([p EXCEPT !.messages[i] = marked], id)
                ELSE [p EXCEPT !.messages = Edited(@, i, [marked EXCEPT !.text = text])]
           kind == IF there THEN "edit" ELSE "local"
           old == History(SubSeq(p.messages, 1, i - 1))
           task == Call(kind, q, id, key, text, rid, old)
<1>1. Begin(q, task, request.version, apart)
  BY Zenon DEF ResendOn
<1>2. /\ asked \in Nat /\ asked \in Int /\ asked + 1 \in Int /\ asked <= asked + 1 /\ 0 <= asked /\ None \in Places
      /\ p.messages \in Tales(asked)
  <2>1. asked \in Nat
    BY ToldFacts
  <2> QED
    BY <2>1, ToldFacts, PageFacts
<1>3. id \in Places
  BY PageFacts DEF ThreadOf, Local, Places, SessionOk
<1>4. i \in DOMAIN p.messages /\ m \in Message /\ m.by = "user" /\ m.key = key /\ NoNote(p.messages, key) /\ ~IsNote(m)
  BY <1>2, IndexIs
<1> HIDE DEF i, id
<1>5. key <= asked
  BY <1>2, <1>4, TaleIs DEF Upto
<1>6. rid \in Nat
  <2>1. m.rid \in Nat /\ asked + 1 \in Nat
    BY <1>2, <1>4, MessageIs
  <2> HIDE DEF m
  <2> QED
    BY <2>1 DEF RequestId
<1> HIDE DEF rid
<1>7. marked = m \/ marked = [m EXCEPT !.rid = rid, !.sentText = text]
  OBVIOUS
<1> HIDE DEF marked
<1>8. /\ marked \in Message /\ Echoes(marked, m) /\ marked.target <= asked /\ ~IsNote(marked) /\ ~OnEdit(marked)
      /\ ms \in Tales(asked) /\ \A n : NoNote(p.messages, n) => NoNote(ms, n)
  <2>1. PICK x, c : x = marked /\ c = p.messages
    OBVIOUS
  <2>2. /\ c \in Tales(asked) /\ i \in DOMAIN c /\ ~IsNote(c[i]) /\ m = c[i] /\ ms = [c EXCEPT ![i] = x]
        /\ (x = c[i] \/ x = [c[i] EXCEPT !.rid = rid, !.sentText = text])
    BY <1>2, <1>4, <1>7, <2>1
  <2> HIDE DEF m, ms
  <2>3. /\ x \in Message /\ Echoes(x, c[i]) /\ x.target <= asked /\ ~IsNote(x) /\ ~OnEdit(x)
        /\ [c EXCEPT ![i] = x] \in Tales(asked) /\ \A n : NoNote(c, n) => NoNote([c EXCEPT ![i] = x], n)
    BY <1>2, <1>6, <2>2, MarkedInPlace
  <2> QED
    BY <2>1, <2>2, <2>3
<1>9. /\ edited \in Message /\ edited.by = "user" /\ edited.key = key /\ edited.text = text
      /\ edited.target <= asked /\ ~IsNote(edited) /\ ~OnEdit(edited)
  <2>1. /\ edited \in Message /\ edited.by = marked.by /\ edited.key = marked.key /\ edited.text = text
        /\ edited.target = marked.target /\ edited.mode = marked.mode
    BY <1>8 DEF Message
  <2>2. ~IsNote(edited)
    BY <1>8, <2>1, Zenon DEF IsNote
  <2> HIDE DEF edited
  <2>3. ~OnEdit(edited)
    BY <2>2, OnEditIsNote
  <2> QED
    BY <1>4, <1>8, <2>1, <2>2, <2>3 DEF Echoes
<1> HIDE DEF edited, m
<1>10. /\ new \in L /\ NoNote(new, key)
       /\ \A x : x.key = key /\ x.text = text => Below(new, x)
       /\ \A n : NoNote(p.messages, n) => NoNote(new, n)
  <2>1. key <= asked + 1
    BY <1>2, <1>5
  <2>2. PICK c : c = new
    OBVIOUS
  <2>3. /\ c \in L /\ NoNote(c, key)
        /\ \A x : x.key = key /\ x.text = text => Below(c, x)
        /\ \A n : NoNote(p.messages, n) => NoNote(c, n)
    BY <1>2, <1>4, <1>9, <2>1, <2>2, EditedTale
  <2> HIDE DEF new
  <2> QED
    BY <2>2, <2>3
<1>11. ms \in L /\ \A x \in Tales(asked) : x \in L
  BY <1>2, <1>8, LaterTales
<1>12. /\ old \in L /\ old \in Plain(asked + 1) /\ <<>> \in L /\ <<>> \in Plain(asked + 1)
  <2>1. i - 1 \in 0..Len(p.messages)
    BY <1>2, <1>4, TaleIs
  <2>2. SubSeq(p.messages, 1, i - 1) \in Tales(asked)
    BY <1>2, <2>1, CutTale
  <2>3. old \in Plain(asked)
    BY <1>2, <2>2, HistoryTale
  <2> QED
    BY <1>2, <2>3, LaterTales, PlainIs, NothingSaid
<1> HIDE DEF old
<1>13. p \in Pages(L, Places)
  BY <1>11, WiderPages
<1>14. [p EXCEPT !.messages[i] = marked] = [p EXCEPT !.messages = ms]
  BY DEF Pages
<1>15. [p EXCEPT !.messages = Edited(@, i, [marked EXCEPT !.text = text])] = [p EXCEPT !.messages = new]
  BY DEF edited
<1> HIDE DEF ms, new, L
<1>16. /\ [p EXCEPT !.messages = ms] \in Pages(L, Places) /\ [p EXCEPT !.messages = ms].messages = ms
       /\ [p EXCEPT !.messages = new] \in Pages(L, Places) /\ [p EXCEPT !.messages = new].messages = new
  <2>1. Edits(p, L, Places)
    BY <1>13, OtherEdits
  <2> QED
    BY <1>10, <1>11, <2>1, Zenon DEF Edits
<1> DEFINE held == [p EXCEPT !.messages = ms]
           cut == [p EXCEPT !.messages = new]
<1>17. there => q = Updated(held, id)
  BY <1>14
<1>18. ~there => q = cut
  BY <1>15
<1> HIDE DEF held, cut, there, q
<1>19. there => q \in Pages(L, Places) /\ q.messages = ms
  <2>1. held \in Pages(L, Places) /\ held.messages = ms
    BY <1>16 DEF held
  <2>2. Updated(held, id) \in Pages(L, Places) /\ Updated(held, id).messages = ms
    BY <1>2, <1>3, <2>1, UpdatedPage, SameWords
  <2> QED
    BY <1>17, <2>2
<1>20. ~there => q \in Pages(L, Places) /\ q.messages = new
  BY <1>16, <1>18 DEF cut
<1>21. q \in Pages(L, Places) /\ \A n : NoNote(page.messages, n) => NoNote(q.messages, n)
  BY <1>8, <1>10, <1>19, <1>20
<1>22. ASSUME NEW b, b PROVE TaskTold(task, q.messages, b, asked + 1)
  <2>1. PICK t : t = task
    OBVIOUS
  <2>2. t.kind = kind /\ t.of = kind /\ t.key = key /\ t.text = text /\ t.then = "none" /\ t.old \in {old, <<>>}
    BY <2>1, CallIs
  <2> HIDE DEF task
  <2>3. t.old \in Tales(asked + 1) /\ t.old \in Plain(asked + 1)
    BY <1>12, <2>2 DEF L
  <2>4. t.key \in Int /\ t.key <= asked + 1
    BY <1>2, <1>5, <2>2
  <2>5. ASSUME there PROVE TaskTold(t, q.messages, b, asked + 1)
    <3>1. NoNote(q.messages, t.key) /\ t.kind = "edit" /\ t.of = "edit"
      BY <1>4, <1>8, <1>19, <2>2, <2>5
    <3> QED
      BY <2>3, <2>4, <3>1 DEF TaskTold
  <2>6. ASSUME ~there PROVE TaskTold(t, q.messages, b, asked + 1)
    <3>1. Below(q.messages, t) /\ NoNote(q.messages, t.key) /\ t.kind = "local" /\ t.of = "local"
      BY <1>10, <1>20, <2>2, <2>6
    <3> QED
      BY <1>22, <2>3, <2>4, <3>1 DEF TaskTold
  <2> QED
    BY <2>1, <2>5, <2>6
<1> HIDE DEF task
<1> QED
  BY <1>1, <1>21, <1>22, BeginTold DEF L

LEMMA OnesKeep ==
  /\ \A p, text : SubmitOn(p, text) => strayed' = strayed
  /\ \A p, key, text : ResendOn(p, key, text) => strayed' = strayed
<1>1. \A p, task, version, spoilt : Begin(p, task, version, spoilt) => strayed' = strayed
  BY DEF Begin
<1>2. ASSUME NEW p, NEW text, SubmitOn(p, text) PROVE strayed' = strayed
  <2>1. \E q, task, version, spoilt : Begin(q, task, version, spoilt)
    BY <1>2, Zenon DEF SubmitOn
  <2> QED
    BY <1>1, <2>1
<1>3. ASSUME NEW p, NEW key, NEW text, ResendOn(p, key, text) PROVE strayed' = strayed
  <2>1. \E q, task, version, spoilt : Begin(q, task, version, spoilt)
    BY <1>3, Zenon DEF ResendOn
  <2> QED
    BY <1>1, <2>1
<1> QED
  BY <1>2, <1>3

LEMMA SubmitsTold ==
  ASSUME SessionOk, ToldInv, NEW text \in Texts, Submit(text), ~strayed'
  PROVE  ToldNow'
<1>1. ~request.thinking /\ SubmitOn(page, text)
  BY DEF Submit, Busy
<1>2. ~strayed
  BY <1>1, OnesKeep
<1>3. page \in Pages(Tales(asked), Places)
  BY <1>2, ToldFacts
<1> QED
  BY <1>1, <1>2, <1>3, SubmitTold

LEMMA ResendsTold ==
  ASSUME SessionOk, ToldInv, NEW i \in DOMAIN page.messages, NEW text \in Texts,
         Resend(page.messages[i].key, text), ~strayed'
  PROVE  ToldNow'
<1> DEFINE key == page.messages[i].key
<1>1. ~request.thinking /\ ResendOn(page, key, text) /\ IndexOf(page, key) # 0 /\ ~IsNote(page.messages[IndexOf(page, key)])
  BY DEF Resend, Busy
<1>2. ~strayed
  BY <1>1, OnesKeep
<1>3. page \in Pages(Tales(asked), Places) /\ key \in Int
  BY <1>2, ToldFacts, TaleIs, MessageIs
<1> HIDE DEF key
<1> QED
  BY <1>1, <1>2, <1>3, ResendTold

(* A prompt put aside is taken out of the conversation, and sent.          *)
LEMMA RetryTold ==
  ASSUME SessionOk, ToldInv, NEW i, RetryConcurrent(i), ~strayed'
  PROVE  ToldNow'
<1> DEFINE ms == page.messages
           m == ms[i]
           rest == {j \in DOMAIN ms : ms[j].key # m.key \/ ms[j].by # "user"}
           left1 == Keep(ms, rest)
           q == [page EXCEPT !.messages = left1, !.draft = m.text]
           p == Updated(q, q.open)
<1>1. i \in DOMAIN ms /\ IsNote(m)
  BY DEF RetryConcurrent
<1>2. \/ page' = p /\ Moves /\ UNCHANGED <<tasks, threads, asked>>
      \/ ~request.thinking /\ OnEdit(m) /\ IndexOf(p, m.target) # 0 /\ ResendOn(p, m.target, m.text)
      \/ ~request.thinking /\ SubmitOn(p, m.text)
  BY Zenon DEF RetryConcurrent, OnEdit
<1>3. ~strayed
  BY <1>2, OnesKeep DEF Moves
<1>4. /\ page \in Pages(Tales(asked), Places) /\ ms \in Tales(asked) /\ asked \in Nat /\ None \in Places
      /\ ms \in Seq(Message) /\ NotesApart(ms)
  BY <1>3, ToldFacts, TaleIs
<1>5. m.text \in Texts /\ m.target \in Int /\ m.text \in Phrases
  BY <1>1, <1>4, MessageIs DEF Phrases
<1>6. \A j \in DOMAIN ms : /\ j # i => ms[j].key # m.key
                           /\ OnEdit(ms[j]) => ms[j].target # m.key
  BY <1>1, <1>4 DEF NotesApart
<1>7. rest \in SUBSET (DOMAIN ms) /\ \A j \in rest : ms[j].by = "ai" => j - 1 \in rest
  <2> SUFFICES ASSUME NEW j \in rest, ms[j].by = "ai" PROVE j - 1 \in rest
    OBVIOUS
  <2>1. j - 1 \in DOMAIN ms /\ ~IsNote(ms[j - 1])
    BY <1>4, RepliesAreNoNotes
  <2>2. j - 1 # i
    BY <1>1, <2>1
  <2> QED
    BY <1>6, <2>1, <2>2
<1>8. left1 \in Tales(asked) /\ \A a \in DOMAIN left1 : \E j \in rest : left1[a] = ms[j]
  <2> HIDE DEF ms, rest
  <2> QED
    BY <1>4, <1>7, KeptTale
<1>9. \A n : NoNote(ms, n) => NoNote(left1, n)
  <2> SUFFICES ASSUME NEW n, NoNote(ms, n), NEW a \in DOMAIN left1, IsNote(left1[a]) PROVE left1[a].key # n
    BY DEF NoNote
  <2>1. PICK j \in rest : left1[a] = ms[j]
    BY <1>8
  <2>2. j \in DOMAIN ms
    OBVIOUS
  <2> HIDE DEF ms, left1, rest
  <2> QED
    BY <2>1, <2>2 DEF NoNote
<1>10. p \in Pages(Tales(asked), Places) /\ p.messages = left1
  <2>1. PICK c, x : c = left1 /\ x = m.text
    OBVIOUS
  <2>2. c \in Tales(asked) /\ x \in Phrases
    BY <1>5, <1>8, <2>1
  <2>3. [page EXCEPT !.messages = c] \in Pages(Tales(asked), Places) /\ [page EXCEPT !.messages = c].messages = c
    <3>1. Edits(page, Tales(asked), Places)
      BY <1>4, OtherEdits
    <3> QED
      BY <2>2, <3>1, Zenon DEF Edits
  <2>4. PICK r : r = [page EXCEPT !.messages = c]
    OBVIOUS
  <2>5. [r EXCEPT !.draft = x] \in Pages(Tales(asked), Places) /\ [r EXCEPT !.draft = x].messages = c
    <3>1. r \in Pages(Tales(asked), Places) /\ r.messages = c
      BY <2>3, <2>4
    <3>2. Edits(r, Tales(asked), Places)
      BY <3>1, OtherEdits
    <3> QED
      BY <2>2, <3>1, <3>2, Zenon DEF Edits
  <2>6. q = [r EXCEPT !.draft = x]
    BY <2>1, <2>4
  <2> HIDE DEF q
  <2>7. q \in Pages(Tales(asked), Places) /\ q.messages = left1
    BY <2>1, <2>5, <2>6
  <2>8. q.open \in Places
    BY <2>7, PageFacts
  <2> QED
    BY <1>4, <2>7, <2>8, UpdatedPage, SameWords
<1> HIDE DEF p
<1>11. CASE page' = p /\ Moves /\ UNCHANGED <<tasks, threads, asked>>
  BY <1>10, <1>11, TurnTold
<1>12. \A n : NoNote(page.messages, n) => NoNote(p.messages, n)
  BY <1>9, <1>10
<1>13. CASE ~request.thinking /\ OnEdit(m) /\ IndexOf(p, m.target) # 0 /\ ResendOn(p, m.target, m.text)
  <2>1. IndexOf(p, m.target) \in DOMAIN left1 /\ left1[IndexOf(p, m.target)].key = m.target
    BY <1>4, <1>10, <1>13, IndexIs
  <2>2. PICK j \in rest : left1[IndexOf(p, m.target)] = ms[j]
    BY <1>8, <2>1
  <2>3. ~IsNote(ms[j])
    <3>1. j \in DOMAIN ms /\ ms[j].key = m.target
      BY <2>1, <2>2
    <3> QED
      BY <1>1, <1>4, <1>13, <3>1 DEF NotesApart
  <2>4. ~IsNote(p.messages[IndexOf(p, m.target)])
    BY <1>10, <2>2, <2>3
  <2> HIDE DEF m
  <2> QED
    BY <1>3, <1>5, <1>10, <1>12, <1>13, <2>4, ResendTold
<1>14. CASE ~request.thinking /\ SubmitOn(p, m.text)
  <2> HIDE DEF m
  <2> QED
    BY <1>3, <1>5, <1>10, <1>12, <1>14, SubmitTold
<1> QED
  BY <1>2, <1>11, <1>13, <1>14

----------------------------------------------------------------------------
(* The list of conversations, and the session                              *)

LEMMA OpenTold ==
  ASSUME SessionOk, ToldInv, NEW i, OpenThread(i), ~strayed'
  PROVE  ToldNow'
<1>1. Moves /\ UNCHANGED <<tasks, threads, asked>>
  BY DEF OpenThread
<1>2. page' = Opened(page, page.recent[i]) /\ i \in DOMAIN page.recent
  BY DEF OpenThread
<1>3. page \in Pages(Tales(asked), Places)
  BY <1>1, ToldFacts DEF Moves
<1>4. page' \in Pages(Tales(asked), Places)
  BY <1>2, <1>3, PageFacts, OpenedPage
<1> QED
  BY <1>1, <1>4, TurnTold

LEMMA NewTold ==
  ASSUME SessionOk, ToldInv, NewChat \/ \E i : NewChatFromConflict(i), ~strayed'
  PROVE  ToldNow'
<1>1. Moves /\ UNCHANGED <<tasks, threads, asked>>
  BY DEF NewChat, NewChatFromConflict
<1>2. \/ page' = BlankChat(page)
      \/ \E i \in DOMAIN page.messages : page' = [BlankChat(page) EXCEPT !.draft = page.messages[i].text]
  BY Zenon DEF NewChat, NewChatFromConflict
<1>3. page \in Pages(Tales(asked), Places) /\ Stories(Tales(asked)) /\ page.messages \in Tales(asked)
  BY <1>1, ToldFacts DEF Moves
<1>4. BlankChat(page) \in Pages(Tales(asked), Places)
  BY <1>3, BlankedPage
<1>5. \A i \in DOMAIN page.messages : page.messages[i].text \in Phrases
  BY <1>3, TaleIs, MessageIs DEF Phrases
<1>6. \A x \in Phrases : [BlankChat(page) EXCEPT !.draft = x] \in Pages(Tales(asked), Places)
  BY <1>4, PageEdits
<1>7. page' \in Pages(Tales(asked), Places)
  BY <1>2, <1>4, <1>5, <1>6
<1> QED
  BY <1>1, <1>7, TurnTold

LEMMA DeleteTold ==
  ASSUME SessionOk, ToldInv, NEW i, DeleteThread(i), ~strayed'
  PROVE  ToldNow'
<1> DEFINE e == page.recent[i]
           b == IF e.server # None THEN e.server ELSE e.id
           call(key, to) == [Recent(0) EXCEPT !.kind = "delete", !.key = key, !.to = to]
<1>1. Moves /\ UNCHANGED <<threads, asked>>
  BY DEF DeleteThread
<1>2. \/ tasks' = tasks \cup {call(b[2], e.id)} /\ page' = page
      \/ page' = Deleted(page, e.id) /\ tasks' = tasks
  BY Zenon DEF DeleteThread
<1>3. page \in Pages(Tales(asked), Places) /\ Stories(Tales(asked))
  BY <1>1, ToldFacts DEF Moves
<1> HIDE DEF e, b
<1>4. \A ms, x : TaskTold(call(b[2], e.id), ms, x, asked)
  BY RecentTold, Zenon
<1> HIDE DEF call
<1>5. page' \in Pages(Tales(asked), Places)
  BY <1>2, <1>3, DeletedPage
<1>6. \A u \in tasks' : u \in tasks \/ TaskTold(u, page'.messages, request'.thinking, asked)
  BY <1>2, <1>4
<1> QED
  BY <1>1, <1>5, <1>6, TurnTold

LEMMA HydrateTold ==
  ASSUME SessionOk, ToldInv, Hydrate, ~strayed'
  PROVE  ToldNow'
<1> DEFINE call == [Recent(0) EXCEPT !.kind = "hydrate", !.key = request.version]
<1>1. UNCHANGED <<threads, asked, strayed, request>>
  BY DEF Hydrate
<1>2. /\ \E s \in {"checking", "fallback"} : page' = [page EXCEPT !.status = s]
      /\ tasks' = tasks \/ tasks' = tasks \cup {call}
  BY Zenon DEF Hydrate
<1>3. page \in Pages(Tales(asked), Places) /\ ThreadsTold /\ TasksTold
  BY <1>1, ToldFacts
<1>4. page' \in Pages(Tales(asked), Places) /\ page'.messages = page.messages
  <2>1. Edits(page, Tales(asked), Places)
    BY <1>3, OtherEdits
  <2>2. {"checking", "fallback"} \subseteq {"idle", "checking", "connected", "fallback"}
    OBVIOUS
  <2> QED
    BY <1>2, <2>1, <2>2, Zenon DEF Edits
<1>5. \A ms, x : TaskTold(call, ms, x, asked)
  BY RecentTold, Zenon
<1> HIDE DEF call
<1> QED
  BY <1>1, <1>2, <1>3, <1>4, <1>5 DEF ToldNow, PageTold, ThreadsTold, TasksTold

LEMMA SignInTold ==
  ASSUME SessionOk, ToldInv, ChatSignIn, ~strayed'
  PROVE  ToldNow'
<1>1. Moves /\ UNCHANGED <<tasks, threads, asked>> /\ page' = [page EXCEPT !.status = "idle"]
  BY DEF ChatSignIn
<1>2. page \in Pages(Tales(asked), Places)
  BY <1>1, ToldFacts DEF Moves
<1>3. page' \in Pages(Tales(asked), Places)
  BY <1>1, <1>2, PageEdits
<1> QED
  BY <1>1, <1>3, TurnTold

LEMMA SignOutTold ==
  ASSUME SessionOk, ToldInv, ChatSignOut \/ ChatExpired, ~strayed'
  PROVE  ToldNow'
<1>1. Moves /\ UNCHANGED <<tasks, threads, asked>> /\ (page' = Cleared(page) \/ page' = Expired(page, NoText))
  BY DEF ChatSignOut, ChatExpired
<1>2. page \in Pages(Tales(asked), Places) /\ Stories(Tales(asked)) /\ None \in Places /\ asked \in Nat
  BY <1>1, ToldFacts DEF Moves
<1>3. NoText \in Phrases
  BY DEF Phrases
<1>4. page' \in Pages(Tales(asked), Places)
  BY <1>1, <1>2, <1>3, ClearedPage, ExpiredPage
<1> QED
  BY <1>1, <1>4, TurnTold

LEMMA UnloadTold ==
  ASSUME SessionOk, ToldInv, ChatUnload, ~strayed'
  PROVE  ToldNow'
<1> DEFINE q == IF token' = token THEN page ELSE Cleared(page)
<1>1. /\ tasks' = {} /\ UNCHANGED <<threads, asked, strayed>>
      /\ page' = [q EXCEPT !.improved = <<None, None>>, !.status = "idle"]
  BY DEF ChatUnload
<1>2. page \in Pages(Tales(asked), Places) /\ Stories(Tales(asked)) /\ None \in Places /\ ThreadsTold
  BY <1>1, ToldFacts
<1>3. q \in Pages(Tales(asked), Places)
  BY <1>2, ClearedPage
<1> HIDE DEF q
<1>4. <<None, None>> \in Places \X Places
  BY <1>2, Pairs
<1>5. [[q EXCEPT !.improved = <<None, None>>] EXCEPT !.status = "idle"] \in Pages(Tales(asked), Places)
  BY <1>3, <1>4, PageEdits
<1> QED
  BY <1>1, <1>2, <1>5 DEF ToldNow, PageTold, ThreadsTold, TasksTold

LEMMA HandlersAskOn ==
  ASSUME ~strayed'
  PROVE  /\ \A text : Submit(text) => AskedOn
         /\ \A key, text : Resend(key, text) => AskedOn
         /\ \A i : RetryConcurrent(i) \/ NewChatFromConflict(i) \/ OpenThread(i) \/ DeleteThread(i) => AskedOn
         /\ NewChat \/ Hydrate \/ ChatSignIn \/ ChatSignOut \/ ChatExpired \/ ChatUnload => AskedOn
         /\ \A t : Cancel(t) => AskedOn
         /\ \A t, how : ImproveAnswer(t, how) \/ RecentAnswer(t, how) \/ DeleteAnswer(t, how)
                        \/ HydrateAnswer(t, how) => AskedOn
<1>1. ASSUME NEW p, NEW task, NEW version, NEW spoilt, Begin(p, task, version, spoilt) PROVE AskedOn
  BY <1>1 DEF Begin, AskedOn
<1>2. ASSUME NEW p, NEW text, SubmitOn(p, text) PROVE AskedOn
  <2>1. \E q, task, version, spoilt : Begin(q, task, version, spoilt)
    BY <1>2, Zenon DEF SubmitOn
  <2> QED
    BY <1>1, <2>1
<1>3. ASSUME NEW p, NEW key, NEW text, ResendOn(p, key, text) PROVE AskedOn
  <2>1. \E q, task, version, spoilt : Begin(q, task, version, spoilt)
    BY <1>3, Zenon DEF ResendOn
  <2> QED
    BY <1>1, <2>1
<1>4. Moves /\ asked' = asked => AskedOn
  BY DEF Moves, AskedOn
<1>5. \A text : Submit(text) => AskedOn
  BY <1>2, Zenon DEF Submit
<1>6. \A key, text : Resend(key, text) => AskedOn
  BY <1>3, Zenon DEF Resend
<1>7. ASSUME NEW i, RetryConcurrent(i) PROVE AskedOn
  <2>1. \/ Moves /\ asked' = asked
        \/ \E p, key, text : ResendOn(p, key, text)
        \/ \E p, text : SubmitOn(p, text)
    BY <1>7, Zenon DEF RetryConcurrent
  <2> QED
    BY <1>2, <1>3, <1>4, <2>1
<1>8. ASSUME NEW i, NewChatFromConflict(i) \/ OpenThread(i) \/ DeleteThread(i) PROVE AskedOn
  <2>1. Moves /\ asked' = asked
    BY <1>8, Zenon DEF NewChatFromConflict, OpenThread, DeleteThread
  <2> QED
    BY <1>4, <2>1
<1>9. ASSUME NewChat \/ ChatSignIn \/ ChatSignOut \/ ChatExpired PROVE AskedOn
  <2>1. Moves /\ asked' = asked
    BY <1>9, Zenon DEF NewChat, ChatSignIn, ChatSignOut, ChatExpired
  <2> QED
    BY <1>4, <2>1
<1>10. ASSUME Hydrate \/ ChatUnload PROVE AskedOn
  <2>1. strayed' = strayed /\ asked' = asked
    BY <1>10, Zenon DEF Hydrate, ChatUnload
  <2> QED
    BY <2>1 DEF AskedOn
<1>11. ASSUME NEW t, Applies(t), asked' = asked PROVE AskedOn
  BY <1>11 DEF Applies, AskedOn
<1>12. ASSUME NEW t, Cancel(t) PROVE AskedOn
  BY <1>11, <1>12, Zenon DEF Cancel
<1>13. ASSUME NEW t, NEW how, ImproveAnswer(t, how) \/ RecentAnswer(t, how) \/ DeleteAnswer(t, how) PROVE AskedOn
  BY <1>11, <1>13, Zenon DEF ImproveAnswer, RecentAnswer, DeleteAnswer
<1>14. ASSUME NEW t, NEW how, HydrateAnswer(t, how) PROVE AskedOn
  <2>1. asked' = asked /\ (Applies(t) \/ strayed' = strayed)
    BY <1>14, Zenon DEF HydrateAnswer
  <2> QED
    BY <1>11, <2>1 DEF AskedOn
<1> QED
  BY <1>5, <1>6, <1>7, <1>8, <1>9, <1>10, <1>12, <1>13, <1>14

----------------------------------------------------------------------------
(* What the folders' handlers hold                                         *)

LEMMA SaidTold ==
  ASSUME SessionOk, ToldInv, ~strayed, NEW thread \in {None} \cup Ids(page)
  PROVE  Said(thread) \in Tales(asked)
<1>1. /\ <<>> \in Tales(asked) /\ page.messages \in Tales(asked) /\ page \in Pages(Tales(asked), Places)
  BY ToldFacts, NothingSaid
<1>2. ASSUME thread # None PROVE Entry(page, thread).messages \in Tales(asked)
  <2>1. PICK i \in DOMAIN page.recent : page.recent[i].id = thread
    BY <1>2 DEF Ids
  <2>2. Known(page, thread)
    BY <1>2, <2>1 DEF Known, Called
  <2> QED
    BY <1>1, <2>2, EntryIsTalk, TalkFacts
<1> QED
  BY <1>1, <1>2 DEF Said

LEMMA ChoresGoOnTold ==
  ASSUME SessionOk, ToldInv, AskedOn,
         \A d \in chores' : d.said \in Tales(asked) \/ \E c \in chores : Same(d, c)
  PROVE  ChoresTold'
<1>1. ~strayed /\ \A ms \in Tales(asked) : ms \in Tales(asked')
  BY LaterToldPage DEF AskedOn
<1>2. \A c \in chores : c.said \in Tales(asked)
  BY <1>1, ToldFacts DEF ChoresTold
<1>3. \A d \in chores' : d.said \in Tales(asked)
  BY <1>2 DEF Same
<1> QED
  BY <1>1, <1>3 DEF ChoresTold

(* A step of the conversation, with what the panel makes of it.            *)
LEMMA BothTold ==
  ASSUME SessionOk, MakeInv, ToldInv, FoldersMove, ~strayed' => ToldNow' /\ AskedOn
  PROVE  ToldInv'
<1> SUFFICES ASSUME ~strayed' PROVE ToldNow' /\ ChoresTold'
  BY DEF ToldInv
<1>1. \A d \in chores' : \E c \in chores : Same(d, c)
  BY MovingKeepsOn
<1> QED
  BY <1>1, ChoresGoOnTold

LEMMA StayingTold ==
  ASSUME SessionOk, MakeInv, ToldInv, UNCHANGED chatVars
  PROVE  ~strayed' => ToldNow' /\ AskedOn
<1> SUFFICES ASSUME ~strayed' PROVE ToldNow' /\ AskedOn
  OBVIOUS
<1>1. ~strayed /\ UNCHANGED <<page, request, tasks, threads, asked>>
  BY DEF chatVars
<1>2. ToldNow
  BY <1>1 DEF ToldInv
<1> QED
  BY <1>1, <1>2 DEF ToldNow, PageTold, ThreadsTold, TasksTold, AskedOn

LEMMA FoldersEventTold ==
  ASSUME SessionOk, MakeInv, ToldInv, UNCHANGED chatVars,
         \/ \E f \in drawer.folders : FolderButtons(f)
         \/ \E f : OpenFolder(f)
         \/ \E name, thread : CreateFolder(name, thread)
         \/ \E id : ThreadMenu(id)
  PROVE  ToldInv'
<1> SUFFICES ASSUME ~strayed' PROVE ToldNow' /\ ChoresTold'
  BY DEF ToldInv
<1>1. ToldNow' /\ AskedOn
  BY StayingTold
<1>2. ~strayed
  BY <1>1 DEF AskedOn
<1>3. \A d \in chores' : TakenUp(d) \/ \E c \in chores : Same(d, c)
  BY FoldersEventIs
<1>4. \A d : TakenUp(d) => d.said \in Tales(asked)
  BY <1>2, SaidTold DEF TakenUp
<1> QED
  BY <1>1, <1>3, <1>4, ChoresGoOnTold

(* What is stored for a folder's sake reads as it did.                     *)
LEMMA StoreTold ==
  ASSUME SessionOk, MakeInv, ToldInv, ~strayed, NEW c \in chores, Store(c)
  PROVE  \A n \in DOMAIN threads' : threads'[n].messages \in Plain(asked)
<1> DEFINE stored(m) == [m EXCEPT !.mode = "new", !.sentText = NoText]
           ms == [i \in DOMAIN c.said |-> stored(c.said[i])]
           new == [owner |-> Owner(c.token), live |-> TRUE, first |-> 0, messages |-> ms]
<1>1. threads' = Append(threads, new)
  BY Zenon DEF Store
<1>2. c.said \in Tales(asked) /\ ThreadsTold
  BY ToldFacts DEF ChoresTold
<1>3. ASSUME NEW m \in Message
      PROVE  stored(m) \in Message /\ Echoes(stored(m), m) /\ stored(m).target = m.target /\ ~IsNote(stored(m))
  <2>1. PICK x : x = stored(m)
    OBVIOUS
  <2>2. x \in Message /\ Echoes(x, m) /\ x.target = m.target /\ x.mode = "new"
    <3>1. ASSUME NEW text \in Phrases, NEW mode \in Modes
          PROVE  LET y == [m EXCEPT !.mode = mode, !.sentText = text]
                 IN  y \in Message /\ Echoes(y, m) /\ y.target = m.target /\ y.mode = mode
      BY DEF Message, Echoes
    <3>2. "new" \in Modes /\ NoText \in Phrases
      BY Zenon DEF Modes, Phrases
    <3> QED
      BY <2>1, <3>1, <3>2, Zenon
  <2>3. ~IsNote(x)
    BY <2>2, NotNotes
  <2> QED
    BY <2>1, <2>2, <2>3
<1> HIDE DEF stored
<1>4. ms \in Seq(Message) /\ DOMAIN ms = DOMAIN c.said
  BY <1>2, <1>3, TaleIs
<1>5. \A i \in DOMAIN c.said : Echoes(ms[i], c.said[i]) /\ ms[i].target <= asked /\ ~IsNote(ms[i])
  BY <1>2, <1>3, TaleIs DEF Upto
<1> HIDE DEF ms
<1>6. new.messages = ms
  OBVIOUS
<1>7. ms \in Plain(asked)
  BY <1>2, <1>4, <1>5, RereadTale
<1> HIDE DEF new
<1>8. \A n \in DOMAIN threads' : (n \in DOMAIN threads /\ threads'[n] = threads[n]) \/ threads'[n] = new
  <2>1. threads \in Seq(Keeps(Messages(sent)))
    BY DEF MakeInv, ThreadsOk
  <2> QED
    BY <1>1, <2>1
<1> QED
  BY <1>2, <1>6, <1>7, <1>8 DEF ThreadsTold

LEMMA StoringTold ==
  ASSUME SessionOk, MakeInv, ToldInv, ~strayed, NEW c \in chores, Store(c),
         page' \in Pages(Tales(asked), Places), page'.messages = page.messages
  PROVE  ToldNow' /\ AskedOn
<1>1. UNCHANGED <<request, tasks, asked>> /\ TasksTold
  BY ToldFacts DEF Store
<1>2. \A n \in DOMAIN threads' : threads'[n].messages \in Plain(asked)
  BY StoreTold
<1> QED
  BY <1>1, <1>2 DEF ToldNow, PageTold, ThreadsTold, TasksTold, AskedOn

LEMMA ChoreDoneTold ==
  ASSUME SessionOk, MakeInv, ToldInv, NEW c, ChoreDone(c)
  PROVE  ToldInv'
<1> DEFINE moved == Numbered(page, c.thread, Server(Len(threads) + 1))
<1> SUFFICES ASSUME ~strayed' PROVE ToldNow' /\ ChoresTold'
  BY DEF ToldInv
<1>1. c \in chores
  BY Zenon DEF ChoreDone
<1>2. \/ UNCHANGED chatVars
      \/ Store(c) /\ (page' = page \/ page' = moved) /\ strayed' = (strayed \/ token # c.token)
  BY Zenon DEF ChoreDone
<1>3. ToldNow' /\ AskedOn
  <2>1. CASE UNCHANGED chatVars
    BY <2>1, StayingTold
  <2>2. CASE Store(c) /\ (page' = page \/ page' = moved) /\ strayed' = (strayed \/ token # c.token)
    <3>1. ~strayed
      BY <2>2
    <3>2. page \in Pages(Tales(asked), Places)
      BY <3>1, ToldFacts
    <3>3. Server(Len(threads) + 1) \in Places
      <4>1. Len(threads) + 1 \in Int
        <5>1. threads \in Seq(Keeps(Messages(sent)))
          BY DEF MakeInv, ThreadsOk
        <5> QED
          BY <5>1
      <4> QED
        BY <4>1 DEF Server, Places
    <3>4. moved \in Pages(Tales(asked), Places) /\ moved.messages = page.messages
      BY <3>2, <3>3, NumberedPage, SameWords
    <3> HIDE DEF moved
    <3> QED
      BY <1>1, <2>2, <3>1, <3>2, <3>4, StoringTold
  <2> QED
    BY <1>2, <2>1, <2>2
<1>4. \A d \in chores' : \E x \in chores : Same(d, x)
  BY DoneKeepsOn
<1> QED
  BY <1>3, <1>4, ChoresGoOnTold

LEMMA ChoreFailsTold ==
  ASSUME SessionOk, MakeInv, ToldInv, NEW c, NEW why, ChoreFails(c, why)
  PROVE  ToldInv'
<1> SUFFICES ASSUME ~strayed' PROVE ToldNow' /\ ChoresTold'
  BY DEF ToldInv
<1>1. c \in chores
  BY Zenon DEF ChoreFails
<1>2. \/ Store(c) /\ UNCHANGED <<page, strayed>>
      \/ UNCHANGED chatVars
      \/ ChatExpired
  BY Zenon DEF ChoreFails
<1>3. ToldNow' /\ AskedOn
  <2>1. CASE Store(c) /\ UNCHANGED <<page, strayed>>
    <3>1. page \in Pages(Tales(asked), Places) /\ ~strayed
      BY <2>1, ToldFacts
    <3> QED
      BY <1>1, <2>1, <3>1, StoringTold
  <2>2. CASE UNCHANGED chatVars
    BY <2>2, StayingTold
  <2>3. CASE ChatExpired
    BY <2>3, SignOutTold, HandlersAskOn
  <2> QED
    BY <1>2, <2>1, <2>2, <2>3
<1>4. \A d \in chores' : \E x \in chores : Same(d, x)
  BY FailingKeepsOn
<1> QED
  BY <1>3, <1>4, ChoresGoOnTold

(* What is done at the Make screen, and what its answers bring.            *)
LEMMA MakeEventsTold ==
  ASSUME SessionOk, MakeInv, ToldInv, MakeEvents
  PROVE  ToldInv'
<1>1. FoldersHear({}) => FoldersMove
  BY DEF FoldersMove
<1>2. ASSUME ~strayed' => ToldNow' /\ AskedOn, FoldersHear({}) PROVE ToldInv'
  BY <1>1, <1>2, BothTold
<1>3. CASE SidePanel
  <2>1. CASE /\ FoldersAlone
             /\ \/ \E f \in drawer.folders : FolderButtons(f)
                \/ \E f \in {None, All} : OpenFolder(f)
                \/ \E name \in Names : CreateFolder(name, None)
                \/ \E id \in DOMAIN drawer.filed : InSight(id) /\ ThreadMenu(id)
    BY <1>1, <2>1, FoldersEventTold DEF FoldersAlone
  <2>2. CASE NewChat /\ ChatAlone
    BY <1>2, <2>2, NewTold, HandlersAskOn DEF ChatAlone
  <2>3. ASSUME NEW i, OpenThread(i) \/ DeleteThread(i), ChatAlone PROVE ToldInv'
    BY <1>2, <2>3, OpenTold, DeleteTold, HandlersAskOn DEF ChatAlone
  <2> QED
    BY <1>3, <2>1, <2>2, <2>3 DEF SidePanel
<1>4. ASSUME NEW i \in DOMAIN page.messages, MessageButtons(i), ChatAlone PROVE ToldInv'
  BY <1>2, <1>4, NewTold, ResendsTold, RetryTold, HandlersAskOn DEF MessageButtons, ChatAlone
<1>5. ASSUME NEW t, Cancel(t), ChatAlone PROVE ToldInv'
  BY <1>2, <1>5, CancelTold, HandlersAskOn DEF ChatAlone
<1>6. ASSUME NEW text \in Texts, Submit(text), ChatAlone PROVE ToldInv'
  BY <1>2, <1>6, SubmitsTold, HandlersAskOn DEF ChatAlone
<1> QED
  BY <1>3, <1>4, <1>5, <1>6 DEF MakeEvents, Feed

LEMMA MakeAnswersTold ==
  ASSUME SessionOk, MakeInv, ToldInv, MakeAnswers
  PROVE  ToldInv'
<1>1. ASSUME ~strayed' => ToldNow' /\ AskedOn, \E heard : FoldersHear(heard) \/ FoldersFollow(heard) PROVE ToldInv'
  BY <1>1, BothTold DEF FoldersFollow, FoldersMove
<1>2. CASE Hydrate /\ ChatAlone
  BY <1>1, <1>2, HydrateTold, HandlersAskOn DEF ChatAlone
<1>3. ASSUME NEW t, NEW how, ImproveAnswer(t, how), FoldersFollow({}) PROVE ToldInv'
  BY <1>1, <1>3, ImproveAnswerTold, HandlersAskOn
<1>4. ASSUME NEW t, NEW ok, ThreadAnswer(t, ok) \/ ListAnswer(t, ok), FoldersHear(Brought(t, ok)) PROVE ToldInv'
  BY <1>1, <1>4, ThreadAnswerTold, ListAnswerTold
<1>5. ASSUME NEW t, NEW how, \/ RecentAnswer(t, how) /\ FoldersFollow(Brought(t, how = "ok"))
                             \/ DeleteAnswer(t, how) /\ FoldersFollow({})
      PROVE  ToldInv'
  BY <1>1, <1>5, RecentAnswerTold, DeleteAnswerTold, HandlersAskOn
<1>6. ASSUME NEW t, NEW how, NEW got, HydrateAnswer(t, how),
             IF token' = token THEN FoldersHydrated(t, how = "ok", got) ELSE ~got /\ FoldersSignOut
      PROVE  ToldInv'
  <2>1. FoldersMove
    BY <1>6 DEF FoldersMove
  <2> QED
    BY <1>6, <2>1, HydrateAnswerTold, HandlersAskOn, BothTold
<1>7. ASSUME NEW c, ChoreDone(c) \/ \E why : ChoreFails(c, why) PROVE ToldInv'
  BY <1>7, ChoreDoneTold, ChoreFailsTold
<1> QED
  BY <1>2, <1>3, <1>4, <1>5, <1>6, <1>7 DEF MakeAnswers

LEMMA StepsKeepTold ==
  ASSUME SessionOk, MakeInv, ToldInv, MakeStep
  PROVE  ToldInv'
<1>1. CASE SessionStays /\ UNCHANGED <<chatVars, folderVars>>
  BY <1>1, StayingTold, BothTold DEF FoldersMove, folderVars
<1>2. ASSUME ChatSignIn, FoldersHear({}) PROVE ToldInv'
  BY <1>2, SignInTold, HandlersAskOn, BothTold DEF FoldersMove
<1>3. CASE SignOut /\ ChatSignOut /\ FoldersSignOut
  BY <1>3, SignOutTold, HandlersAskOn, BothTold DEF FoldersMove
<1>4. CASE Ends /\ ChatUnload /\ FoldersUnload
  BY <1>4, UnloadTold, HandlersAskOn, BothTold DEF FoldersMove
<1>5. CASE Ends /\ ChatFollows
  <2>1. CASE token' = token
    <3>1. UNCHANGED <<chatVars, folderVars>>
      BY <1>5, <2>1 DEF ChatFollows
    <3> QED
      BY <3>1, StayingTold, BothTold DEF FoldersMove, folderVars
  <2>2. CASE token' # token
    <3>1. ChatExpired /\ FoldersSignOut
      BY <1>5, <2>2 DEF ChatFollows
    <3> QED
      BY <3>1, SignOutTold, HandlersAskOn, BothTold DEF FoldersMove
  <2> QED
    BY <2>1, <2>2
<1> QED
  BY <1>1, <1>2, <1>3, <1>4, <1>5, MakeEventsTold, MakeAnswersTold DEF MakeStep

(* The first page says nothing; the member's old conversations are pairs.  *)
LEMMA InitTold == Init => ToldInv
<1> SUFFICES ASSUME Init PROVE ToldInv
  OBVIOUS
<1>1. /\ page = BlankPage /\ tasks = {} /\ threads = Before /\ asked = 0 /\ chores = {}
  BY DEF Init, ChatInit, FoldersInit
<1>2. None \in Places
  BY DEF None, Places
<1>3. PageTold
  <2>1. <<None, None>> \in Places \X Places
    BY <1>2, Pairs
  <2>2. <<>> \in Tales(0)
    BY NothingSaid
  <2>3. BlankPage \in Pages(Tales(0), Places)
    BY <1>2, <2>1, <2>2 DEF BlankPage, Pages, Phrases
  <2> QED
    BY <1>1, <2>3 DEF PageTold
<1>4. ThreadsTold
  <2> DEFINE text == CHOOSE x \in Texts : TRUE
             ms(i) == <<Ask(-i, text, 0, "saved"), Reply(-i, text)>>
             old(i) == [owner |-> owners[1], live |-> TRUE, first |-> 0, messages |-> ms(i)]
  <2>1. \/ threads = <<>>
        \/ threads = [i \in 1..2 |-> old(i)]
    BY <1>1, Zenon DEF Before
  <2>2. text \in Texts
    BY TextsAssumption
  <2> HIDE DEF text
  <2>3. \A i \in 1..2 : ms(i) \in Plain(0)
    <3> TAKE i \in 1..2
    <3>1. -i \in Int /\ -i <= 0 /\ 0 \in Nat /\ <<>> \in Plain(0)
      BY NothingSaid
    <3>2. <<>> \o ms(i) \in Plain(0)
      BY <2>2, <3>1, PairPlain
    <3>3. <<>> \o ms(i) = ms(i)
      <4>1. PICK a, b : a = Ask(-i, text, 0, "saved") /\ b = Reply(-i, text)
        OBVIOUS
      <4>2. <<>> \o <<a, b>> = <<a, b>>
        OBVIOUS
      <4> QED
        BY <4>1, <4>2, Zenon
    <3> QED
      BY <3>2, <3>3
  <2> HIDE DEF ms
  <2>4. \A i : old(i).messages = ms(i)
    OBVIOUS
  <2> HIDE DEF old
  <2>5. CASE threads = <<>>
    BY <2>5 DEF ThreadsTold
  <2>6. CASE threads = [i \in 1..2 |-> old(i)]
    BY <1>1, <2>3, <2>4, <2>6 DEF ThreadsTold
  <2> QED
    BY <2>1, <2>5, <2>6
<1>5. TasksTold /\ ChoresTold
  BY <1>1 DEF TasksTold, ChoresTold
<1> QED
  BY <1>3, <1>4, <1>5 DEF ToldInv, ToldNow

LEMMA SpecKeepsTold == Spec => []ToldInv
<1>1. SessionOk /\ MakeInv /\ ToldInv /\ [Next]_vars => ToldInv'
  BY NextMovesMake, StepsKeepTold
<1> QED
  BY <1>1, InitTold, SessionFacts, SpecKeepsBilling, SpecKeepsComposer, SpecKeepsMake, PTL DEF Spec

(* Whatever is sent, edited, retried, opened, recovered or deleted while   *)
(* answers are on their way, each reply the page shows or lists stands     *)
(* right after the prompt it answers, and has its words.                   *)
THEOREM AnswersFollowTheirQuestions == Spec => []AnswerFollowsQuestion
<1>1. SessionOk /\ ToldInv => AnswerFollowsQuestion
  <2> SUFFICES ASSUME SessionOk, ToldInv, ~strayed
               PROVE  Paired(page.messages) /\ \A i \in DOMAIN page.recent : Paired(page.recent[i].messages)
    BY DEF AnswerFollowsQuestion
  <2>1. page \in Pages(Tales(asked), Places)
    BY ToldFacts
  <2>2. page.messages \in Tales(asked) /\ \A i \in DOMAIN page.recent : page.recent[i].messages \in Tales(asked)
    BY <2>1, PageFacts
  <2> QED
    BY <2>2, TaleIs
<1> QED
  BY <1>1, SpecKeepsTold, SessionFacts, SpecKeepsBilling, SpecKeepsComposer, PTL
==============================================================================
