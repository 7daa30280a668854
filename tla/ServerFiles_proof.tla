------------------------- MODULE ServerFiles_proof ---------------------------
(***************************************************************************)
(* Proofs about ServerFiles, for any number of sessions, turns and         *)
(* crashes.  The conversions between the history file and the language     *)
(* model are inverse for every chat; from that follow the shape of the     *)
(* chats and what the file keeps.                                          *)
(***************************************************************************)
EXTENDS ServerFiles, SequenceTheorems, WellFoundedInduction, TLAPS

------------------------------------------------------------------------------
(* The invariants *)

\* A proper conversation that ends with an answer, of turns up to n.
Proper(known, n) ==
    /\ Len(known) % 2 = 1
    /\ known[1] = PromptContent
    /\ \A i \in 2..Len(known) :
           /\ known[i].role = IF i % 2 = 0 THEN "user" ELSE "model"
           /\ IF i % 2 = 0 THEN known[i].content > known[i - 1].content
                           ELSE known[i].content = known[i - 1].content
    /\ \A i \in 1..Len(known) : known[i].content <= n

\* Execute has a chat with the language model.
Chatting == {"ready", "create", "encode"}

\* What a session at a place knows.
ChatOK(place, known, n) == IF place \in Chatting THEN Proper(known, n) ELSE known = <<>>

\* What was stored last is a proper conversation.
Stored(stored, n) ==
    \/ stored = <<>>
    \/ \E known \in Seq(GeminiEntry) : Proper(known, n) /\ stored = History(known)

ChatInv ==
    /\ TypeOK
    /\ \A s \in Sessions : ChatOK(chat[s], gemini[s], turns)
    /\ Stored(history, turns)

\* Everything that was said and is not lost.
Remembered == (1..turns) \ lost

\* One session after the other: the file has everything, or the chat of the
\* session has, and what the file has as well.
OneByOne ==
    /\ \A s, o \in Sessions : chat[s] # "off" /\ chat[o] # "off" => s = o
    /\ ~torn /\ (\A s \in Sessions : chat[s] \notin Chatting) =>
           TurnsOf(history) = Remembered
    /\ \A s \in Sessions : chat[s] \in Chatting =>
           /\ TurnsOf(gemini[s]) = Remembered
           /\ IF chat[s] = "encode" THEN torn
              ELSE ~torn /\ TurnsOf(history) \subseteq Remembered

\* The same, unless two sessions were open at once.
KeptInv ==
    /\ ChatInv
    /\ lost \subseteq 1..turns
    /\ ~overlapped => OneByOne

------------------------------------------------------------------------------
(* The conversions *)

\* Induction: a set of numbers has a least one.
LEMMA Least ==
    ASSUME NEW T, T \subseteq Nat, T # {}
    PROVE  \E n \in T : \A m \in T : n <= m
  <1> DEFINE R == OpToRel(<, Nat)
  <1>1. IsWellFoundedOn(R, Nat)
    BY NatLessThanWellFounded
  <1> HIDE DEF R
  <1>2. PICK n \in T : \A m \in T : <<m, n>> \notin R
    BY <1>1, WFMin
  <1>3. \A m \in T : m < n => <<m, n>> \in R
    BY DEF R, OpToRel
  <1>4. \A m \in T : ~ (m < n)
    BY <1>2, <1>3
  <1>5. n \in Nat /\ \A m \in T : m \in Nat
    OBVIOUS
  <1>6. \A m \in T : n <= m
    BY <1>4, <1>5
  <1> QED BY <1>6

\* A stored message in the roles of the language model.
Back(m) == [role |-> IF m.role = "user" THEN "user" ELSE "model", content |-> m.content]

\* f is the function that the loop of GenerateChat computes.
Computes(f, start, stored) ==
    f = [n \in 0..Len(stored) |->
            IF n = 0 THEN start
            ELSE IF stored[n].role = "system" THEN f[n - 1]
            ELSE Append(f[n - 1], Back(stored[n]))]

\* There is at most one such function.
LEMMA LoopIsUnique ==
    ASSUME NEW start, NEW stored, Len(stored) \in Nat, NEW f, NEW g,
           Computes(f, start, stored), Computes(g, start, stored)
    PROVE  f = g
  <1> DEFINE N == Len(stored)
             T == {n \in 0..N : f[n] # g[n]}
  <1> DEFINE next(h, n) == IF n = 0 THEN start
                           ELSE IF stored[n].role = "system" THEN h[n - 1]
                           ELSE Append(h[n - 1], Back(stored[n]))
  <1>0a. f = [n \in 0..N |-> next(f, n)]
    BY Zenon DEF Computes
  <1>0b. g = [n \in 0..N |-> next(g, n)]
    BY Zenon DEF Computes
  <1> HIDE DEF next
  <1>0c. \A n \in 0..N : f[n] = next(f, n)
    BY <1>0a
  <1>0d. \A n \in 0..N : g[n] = next(g, n)
    BY <1>0b
  <1>0e. next(f, 0) = start /\ next(g, 0) = start
    BY DEF next
  <1>0f. \A n \in 1..N : f[n - 1] = g[n - 1] => next(f, n) = next(g, n)
    BY Zenon DEF next
  <1>1. /\ f[0] = start /\ g[0] = start
        /\ \A n \in 1..N : f[n - 1] = g[n - 1] => f[n] = g[n]
    <2>1. 0 \in 0..N /\ \A n \in 1..N : n \in 0..N
      OBVIOUS
    <2> HIDE DEF N
    <2> QED BY <1>0c, <1>0d, <1>0e, <1>0f, <2>1, Zenon
  <1>2. T = {}
    <2> SUFFICES ASSUME T # {} PROVE FALSE
      OBVIOUS
    <2>1. T \subseteq Nat
      OBVIOUS
    <2>2. PICK n \in T : \A m \in T : n <= m
      BY <2>1, Least
    <2>3. n \in 0..N /\ f[n] # g[n]
      OBVIOUS
    <2>4. n # 0
      BY <1>1, <2>3
    <2>5. n - 1 \in 0..N /\ ~ (n <= n - 1) /\ n \in 1..N
      BY <2>3, <2>4
    <2>6. f[n - 1] = g[n - 1]
      BY <2>2, <2>5
    <2> QED BY <1>1, <2>3, <2>5, <2>6
  <1>3. \A n \in 0..N : f[n] = g[n]
    BY <1>2
  <1>4. f = [n \in 0..N |-> f[n]] /\ g = [n \in 0..N |-> g[n]]
    BY <1>0a, <1>0b
  <1> QED BY <1>3, <1>4

\* So whoever guesses it knows what the loop gives.
LEMMA LoopGives ==
    ASSUME NEW start, NEW stored, Len(stored) \in Nat, NEW f, Computes(f, start, stored)
    PROVE  Converted(start, stored) = f[Len(stored)]
  <1> DEFINE c == CHOOSE g : Computes(g, start, stored)
  <1>1. Computes(c, start, stored)
    BY Zenon
  <1>2. Converted(start, stored) = c[Len(stored)]
    BY Zenon DEF Converted, Computes, Back
  <1> HIDE DEF c
  <1>3. c = f
    BY <1>1, LoopIsUnique
  <1> QED BY <1>2, <1>3

\* What History makes of a chat, entry by entry.
LEMMA HistoryEntries ==
    ASSUME NEW known \in Seq(GeminiEntry)
    PROVE  /\ History(known) \in Seq(Entry) /\ Len(History(known)) = Len(known) + 1
           /\ History(known)[1] = [role |-> "system", content |-> Prompt]
           /\ \A i \in 1..Len(known) :
                 /\ History(known)[i + 1].content = known[i].content
                 /\ History(known)[i + 1].role \in {"user", "doll"}
                 /\ History(known)[i + 1].role = "user" <=> known[i].role = "user"
                 /\ Back(History(known)[i + 1]) = known[i]
  <1> DEFINE e(i) == [role |-> IF known[i].role = "user" THEN "user" ELSE "doll",
                      content |-> known[i].content]
             t == [i \in 1..Len(known) |-> e(i)]
             first == [role |-> "system", content |-> Prompt]
  <1>1. Len(known) \in Nat /\ \A i \in 1..Len(known) : known[i] \in GeminiEntry
    OBVIOUS
  <1>2. first \in Entry /\ \A i \in 1..Len(known) : e(i) \in Entry
    BY <1>1, FilesAssumption DEF Entry, GeminiEntry, Content, Prompt
  <1>3. \A i \in 1..Len(known) : /\ e(i).content = known[i].content
                                 /\ e(i).role \in {"user", "doll"}
                                 /\ e(i).role = "user" <=> known[i].role = "user"
    OBVIOUS
  <1>4. \A i \in 1..Len(known) : Back(e(i)) = known[i]
    BY <1>1 DEF Back, GeminiEntry
  <1> HIDE DEF e, first
  <1>5. /\ t \in Seq(Entry) /\ Len(t) = Len(known)
        /\ \A i \in 1..Len(known) : t[i] = e(i)
    BY <1>1, <1>2
  <1> HIDE DEF t
  <1>6. History(known) = <<first>> \o t
    BY DEF History, t, e, first
  <1>7. /\ <<first>> \o t \in Seq(Entry) /\ Len(<<first>> \o t) = Len(known) + 1
        /\ (<<first>> \o t)[1] = first
        /\ \A i \in 1..Len(known) : (<<first>> \o t)[i + 1] = e(i)
    BY <1>1, <1>2, <1>5
  <1> QED BY <1>3, <1>4, <1>6, <1>7 DEF first

\* The part of a chat up to an entry, and the entry after it.
LEMMA Prefixes ==
    ASSUME NEW known \in Seq(GeminiEntry)
    PROVE  /\ SubSeq(known, 1, 0) = <<>> /\ SubSeq(known, 1, Len(known)) = known
           /\ \A k \in 1..Len(known) :
                 Append(SubSeq(known, 1, k - 1), known[k]) = SubSeq(known, 1, k)
  <1>1. SubSeq(known, 1, 0) = <<>>
    OBVIOUS
  <1>2. SubSeq(known, 1, Len(known)) = known
    OBVIOUS
  <1>3. ASSUME NEW k \in 1..Len(known)
        PROVE  Append(SubSeq(known, 1, k - 1), known[k]) = SubSeq(known, 1, k)
    <2> DEFINE p == SubSeq(known, 1, k - 1)
               q == SubSeq(known, 1, k)
    <2>1. /\ p \in Seq(GeminiEntry) /\ Len(p) = k - 1
          /\ \A i \in 1..(k - 1) : p[i] = known[i]
      OBVIOUS
    <2>2. /\ q \in Seq(GeminiEntry) /\ Len(q) = k
          /\ \A i \in 1..k : q[i] = known[i]
      OBVIOUS
    <2>3. known[k] \in GeminiEntry
      OBVIOUS
    <2> HIDE DEF p, q
    <2>4. /\ Append(p, known[k]) \in Seq(GeminiEntry) /\ Len(Append(p, known[k])) = k
          /\ \A i \in 1..k : Append(p, known[k])[i] = known[i]
      BY <2>1, <2>3
    <2>5. Append(p, known[k]) = q
      BY <2>2, <2>4
    <2> QED BY <2>5 DEF p, q
  <1> QED BY <1>1, <1>2, <1>3

\* What a session stores, the next one reads back, for every chat: GenerateChat
\* (gemini.go lines 51-108) undoes History (lines 133-157), the prompt and the
\* roles included.
THEOREM HistoryReadsBack ==
    ASSUME NEW known \in Seq(GeminiEntry)
    PROVE  GenerateChat(History(known)) = known
  <1> DEFINE h == History(known)
             N == Len(known) + 1
             w == [n \in 0..N |-> IF n = 0 THEN <<>> ELSE SubSeq(known, 1, n - 1)]
             next(n) == IF n = 0 THEN <<>>
                        ELSE IF h[n].role = "system" THEN w[n - 1]
                        ELSE Append(w[n - 1], Back(h[n]))
  <1>1. /\ Len(h) = N /\ h \in Seq(Entry) /\ h[1].role = "system"
        /\ \A n \in 2..N : h[n].role # "system" /\ Back(h[n]) = known[n - 1]
    <2>1. /\ Len(h) = N /\ h \in Seq(Entry)
          /\ h[1] = [role |-> "system", content |-> Prompt]
      BY HistoryEntries
    <2>2. ASSUME NEW n \in 2..N PROVE h[n].role # "system" /\ Back(h[n]) = known[n - 1]
      <3>1. n - 1 \in 1..Len(known) /\ (n - 1) + 1 = n
        OBVIOUS
      <3>2. /\ h[(n - 1) + 1].role \in {"user", "doll"}
            /\ Back(h[(n - 1) + 1]) = known[n - 1]
        BY <3>1, HistoryEntries
      <3> QED BY <3>1, <3>2
    <2> QED BY <2>1, <2>2
  <1>2. Len(known) \in Nat /\ N \in Nat
    OBVIOUS
  <1> HIDE DEF h
  <1>3. /\ w[0] = <<>>
        /\ \A n \in 1..N : w[n] = SubSeq(known, 1, n - 1)
    BY <1>2
  <1>4. w = [n \in 0..N |-> w[n]]
    OBVIOUS
  <1> HIDE DEF w, N
  <1>5. ASSUME NEW n \in 0..N PROVE w[n] = next(n)
    <2>1. CASE n = 0
      BY <2>1, <1>3
    <2>2. CASE n = 1
      <3>1. w[1] = SubSeq(known, 1, 0) /\ w[1 - 1] = <<>>
        BY <1>2, <1>3, <2>2
      <3> QED BY <3>1, <2>2, <1>1, Prefixes
    <2>3. CASE n \in 2..N
      <3>1. /\ w[n] = SubSeq(known, 1, n - 1)
            /\ w[n - 1] = SubSeq(known, 1, (n - 1) - 1)
            /\ n - 1 \in 1..Len(known)
        BY <1>2, <1>3, <2>3 DEF N
      <3>2. Append(SubSeq(known, 1, (n - 1) - 1), known[n - 1]) = SubSeq(known, 1, n - 1)
        BY <3>1, Prefixes
      <3>3. next(n) = Append(w[n - 1], Back(h[n])) /\ Back(h[n]) = known[n - 1]
        BY <1>1, <2>3
      <3> HIDE DEF next
      <3> QED BY <3>1, <3>2, <3>3
    <2> QED BY <2>1, <2>2, <2>3, <1>2
  <1>6. w = [n \in 0..N |-> next(n)]
    <2> HIDE DEF next
    <2> QED BY <1>4, <1>5
  <1>7. Computes(w, <<>>, h)
    BY <1>1, <1>6, Zenon DEF Computes
  <1>8. Converted(<<>>, h) = w[N]
    BY <1>1, <1>2, <1>7, LoopGives
  <1>9. w[N] = known
    <2>1. N \in 1..N /\ N - 1 = Len(known)
      BY <1>2 DEF N
    <2> QED BY <2>1, <1>3, Prefixes
  <1>10. h # <<>>
    BY <1>1, <1>2 DEF N
  <1>11. GenerateChat(h) = Converted(<<>>, h)
    BY <1>1, <1>10, Zenon DEF GenerateChat
  <1> QED BY <1>8, <1>9, <1>11 DEF h

\* A chat that starts without a file has the prompt.
LEMMA NewChat == GenerateChat(<<>>) = <<PromptContent>>
  <1> DEFINE w == [n \in 0..0 |-> <<PromptContent>>]
  <1>1. Len(<<>>) = 0 /\ w[0] = <<PromptContent>>
    OBVIOUS
  <1>2. Computes(w, <<PromptContent>>, <<>>)
    <2>1. ASSUME NEW n \in 0..0 PROVE n = 0
      OBVIOUS
    <2> DEFINE next(n) == IF n = 0 THEN <<PromptContent>>
                          ELSE IF <<>>[n].role = "system" THEN w[n - 1]
                          ELSE Append(w[n - 1], Back(<<>>[n]))
    <2>2. \A n \in 0..0 : next(n) = <<PromptContent>>
      BY <2>1, Zenon
    <2> HIDE DEF next
    <2>3. w = [n \in 0..0 |-> next(n)]
      BY <2>2
    <2> QED BY <1>1, <2>3, Zenon DEF Computes, next
  <1> HIDE DEF w
  <1>3. Converted(<<PromptContent>>, <<>>) = w[0]
    BY <1>1, <1>2, LoopGives
  <1> QED BY <1>1, <1>3, Zenon DEF GenerateChat

------------------------------------------------------------------------------
(* The turns of a chat *)

\* The entries that tell of a turn.
LEMMA TurnEntries ==
    ASSUME NEW entries, NEW x
    PROVE  x \in TurnsOf(entries) <=>
               \E i \in DOMAIN entries : /\ entries[i].role = "user"
                                         /\ entries[i].content # Prompt
                                         /\ x = entries[i].content
  BY DEF TurnsOf

\* A chat that has only the prompt, or nothing, has no turns.
LEMMA NoTurns == TurnsOf(<<>>) = {} /\ TurnsOf(<<PromptContent>>) = {}
  <1>1. \A x : x \notin TurnsOf(<<>>)
    <2>1. DOMAIN <<>> = {}
      OBVIOUS
    <2> QED BY <2>1, TurnEntries
  <1>2. \A x : x \notin TurnsOf(<<PromptContent>>)
    <2>1. \A i \in DOMAIN <<PromptContent>> : <<PromptContent>>[i].content = Prompt
      BY DEF PromptContent
    <2> QED BY <2>1, TurnEntries
  <1> QED BY <1>1, <1>2

\* The file has the turns of the chat it was made of.
LEMMA SameTurns ==
    ASSUME NEW known \in Seq(GeminiEntry)
    PROVE  TurnsOf(History(known)) = TurnsOf(known)
  <1> DEFINE h == History(known)
             N == Len(known)
  <1>1. /\ h \in Seq(Entry) /\ Len(h) = N + 1
        /\ h[1] = [role |-> "system", content |-> Prompt]
        /\ \A i \in 1..N : /\ h[i + 1].content = known[i].content
                           /\ h[i + 1].role = "user" <=> known[i].role = "user"
    BY HistoryEntries
  <1>2. DOMAIN known = 1..N /\ N \in Nat
    OBVIOUS
  <1> HIDE DEF h, N
  <1>3. DOMAIN h = 1..(N + 1) /\ h[1].role = "system"
    BY <1>1
  <1>4. ASSUME NEW x \in TurnsOf(known) PROVE x \in TurnsOf(h)
    <2>1. PICK i \in 1..N : /\ known[i].role = "user" /\ known[i].content # Prompt
                            /\ x = known[i].content
      BY <1>2, TurnEntries
    <2>2. i + 1 \in DOMAIN h /\ h[i + 1].role = "user" /\ h[i + 1].content = x
      BY <1>1, <1>2, <1>3, <2>1
    <2> QED BY <2>1, <2>2, TurnEntries
  <1>5. ASSUME NEW x \in TurnsOf(h) PROVE x \in TurnsOf(known)
    <2>1. PICK j \in DOMAIN h : /\ h[j].role = "user" /\ h[j].content # Prompt
                                /\ x = h[j].content
      BY TurnEntries
    <2>2. j - 1 \in 1..N /\ (j - 1) + 1 = j
      BY <1>2, <1>3, <2>1
    <2>3. /\ h[(j - 1) + 1].content = known[j - 1].content
          /\ h[(j - 1) + 1].role = "user" <=> known[j - 1].role = "user"
      BY <1>1, <2>2
    <2>4. j - 1 \in DOMAIN known /\ known[j - 1].role = "user" /\ known[j - 1].content = x
      BY <1>2, <2>1, <2>2, <2>3
    <2> QED BY <2>1, <2>4, TurnEntries
  <1> QED BY <1>4, <1>5 DEF h

\* What SendMessage appends.
Question(n) == [role |-> "user", content |-> n]
Reply(n) == [role |-> "model", content |-> n]

\* The chat after SendMessage, entry by entry.
LEMMA Extended ==
    ASSUME NEW known \in Seq(GeminiEntry), NEW n \in 1..MaxTurns
    PROVE  LET more == known \o <<Question(n), Reply(n)>> IN
           /\ more \in Seq(GeminiEntry) /\ Len(more) = Len(known) + 2
           /\ \A i \in 1..Len(known) : more[i] = known[i]
           /\ more[Len(known) + 1] = Question(n) /\ more[Len(known) + 2] = Reply(n)
  <1> DEFINE two == <<Question(n), Reply(n)>>
  <1>1. Question(n) \in GeminiEntry /\ Reply(n) \in GeminiEntry
    BY FilesAssumption DEF Question, Reply, GeminiEntry, Content
  <1>2. two \in Seq(GeminiEntry) /\ Len(two) = 2 /\ two[1] = Question(n) /\ two[2] = Reply(n)
    BY <1>1
  <1> HIDE DEF two
  <1> DEFINE more == known \o two
             N == Len(known)
  <1>3. /\ more \in Seq(GeminiEntry) /\ Len(more) = N + Len(two)
        /\ \A i \in 1..(N + Len(two)) : more[i] = IF i <= N THEN known[i] ELSE two[i - N]
    BY <1>2, ConcatProperties
  <1>4. N \in Nat
    OBVIOUS
  <1> HIDE DEF more, N
  <1>5. \A i \in 1..N : more[i] = known[i]
    BY <1>2, <1>3, <1>4
  <1>6. more[N + 1] = two[1] /\ more[N + 2] = two[2]
    <2>1. \A j \in 1..2 : N + j \in 1..(N + Len(two)) /\ ~ (N + j <= N) /\ (N + j) - N = j
      BY <1>2, <1>4
    <2> QED BY <1>3, <2>1
  <1>7. Len(more) = N + 2
    BY <1>2, <1>3
  <1> QED BY <1>2, <1>3, <1>5, <1>6, <1>7 DEF two, more, N

\* It has one more turn.
LEMMA MoreTurns ==
    ASSUME NEW known \in Seq(GeminiEntry), NEW n \in 1..MaxTurns
    PROVE  TurnsOf(known \o <<Question(n), Reply(n)>>) = TurnsOf(known) \cup {n}
  <1> DEFINE more == known \o <<Question(n), Reply(n)>>
             N == Len(known)
  <1>1. /\ more \in Seq(GeminiEntry) /\ Len(more) = N + 2
        /\ \A i \in 1..N : more[i] = known[i]
        /\ more[N + 1] = Question(n) /\ more[N + 2] = Reply(n)
    BY Extended
  <1>2. DOMAIN known = 1..N /\ N \in Nat
    OBVIOUS
  <1> HIDE DEF more, N
  <1>3. /\ DOMAIN more = 1..(N + 2) /\ more[N + 2].role # "user"
        /\ more[N + 1].role = "user" /\ more[N + 1].content = n /\ n # Prompt
    BY <1>1, FilesAssumption DEF Question, Reply, Prompt
  <1>4. ASSUME NEW x \in TurnsOf(known) PROVE x \in TurnsOf(more)
    <2>1. PICK i \in 1..N : /\ known[i].role = "user" /\ known[i].content # Prompt
                            /\ x = known[i].content
      BY <1>2, TurnEntries
    <2>2. i \in DOMAIN more /\ more[i] = known[i]
      BY <1>1, <1>2, <1>3
    <2> QED BY <2>1, <2>2, TurnEntries
  <1>5. n \in TurnsOf(more)
    <2>1. N + 1 \in DOMAIN more
      BY <1>2, <1>3
    <2> QED BY <2>1, <1>3, TurnEntries
  <1>6. ASSUME NEW x \in TurnsOf(more) PROVE x \in TurnsOf(known) \cup {n}
    <2>1. PICK j \in DOMAIN more : /\ more[j].role = "user" /\ more[j].content # Prompt
                                   /\ x = more[j].content
      BY TurnEntries
    <2>2. j \in 1..N \/ j = N + 1
      BY <1>2, <1>3, <2>1
    <2>3. CASE j \in 1..N
      BY <1>1, <1>2, <2>1, <2>3, TurnEntries
    <2>4. CASE j = N + 1
      BY <1>3, <2>1, <2>4
    <2> QED BY <2>2, <2>3, <2>4
  <1> QED BY <1>4, <1>5, <1>6 DEF more

\* The turns of a proper conversation are turns that have been.
LEMMA ProperTurns ==
    ASSUME NEW n \in 0..MaxTurns, NEW known \in Seq(GeminiEntry), Proper(known, n)
    PROVE  TurnsOf(known) \subseteq 1..n
  <1> SUFFICES ASSUME NEW x \in TurnsOf(known) PROVE x \in 1..n
    OBVIOUS
  <1>1. PICK i \in 1..Len(known) : known[i].content # Prompt /\ x = known[i].content
    BY TurnEntries
  <1>2. x \in 0..MaxTurns
    <2>1. known[i] \in GeminiEntry
      OBVIOUS
    <2> QED BY <1>1, <2>1 DEF GeminiEntry, Content
  <1>3. x <= n
    BY <1>1 DEF Proper
  <1> QED BY <1>1, <1>2, <1>3, FilesAssumption DEF Prompt

------------------------------------------------------------------------------
(* Proper conversations *)

\* The contents of a chat are numbers.
LEMMA Contents ==
    ASSUME NEW known \in Seq(GeminiEntry)
    PROVE  \A i \in 1..Len(known) : known[i].content \in Nat
  <1>1. \A i \in 1..Len(known) : known[i] \in GeminiEntry
    OBVIOUS
  <1>2. \A e \in GeminiEntry : e.content \in Nat
    BY FilesAssumption DEF GeminiEntry, Content
  <1> QED BY <1>1, <1>2

\* A new chat is one.
LEMMA ProperNew ==
    ASSUME NEW n \in 0..MaxTurns
    PROVE  <<PromptContent>> \in Seq(GeminiEntry) /\ Proper(<<PromptContent>>, n)
  <1>1. PromptContent \in GeminiEntry /\ PromptContent.content <= n
    BY FilesAssumption DEF PromptContent, GeminiEntry, Content, Prompt
  <1>2. Len(<<PromptContent>>) = 1 /\ <<PromptContent>>[1] = PromptContent
    OBVIOUS
  <1>3. \A i \in 2..1 : FALSE
    OBVIOUS
  <1>4. \A i \in 1..1 : <<PromptContent>>[i] = PromptContent
    OBVIOUS
  <1>5. 1 % 2 = 1
    OBVIOUS
  <1> QED BY <1>1, <1>2, <1>3, <1>4, <1>5 DEF Proper

\* It stays one when turns go on elsewhere.
LEMMA ProperLater ==
    ASSUME NEW n \in 0..MaxTurns, NEW known \in Seq(GeminiEntry), Proper(known, n)
    PROVE  Proper(known, n + 1)
  <1>1. \A i \in 1..Len(known) : known[i].content \in Nat
    BY Contents
  <1>2. \A i \in 1..Len(known) : known[i].content <= n
    BY DEF Proper
  <1>3. \A i \in 1..Len(known) : known[i].content <= n + 1
    BY <1>1, <1>2, FilesAssumption
  <1> QED BY <1>3 DEF Proper

\* And when a turn is added to it.
LEMMA ProperMore ==
    ASSUME NEW n \in 0..MaxTurns, n + 1 \in 1..MaxTurns,
           NEW known \in Seq(GeminiEntry), Proper(known, n)
    PROVE  Proper(known \o <<Question(n + 1), Reply(n + 1)>>, n + 1)
  <1> DEFINE more == known \o <<Question(n + 1), Reply(n + 1)>>
             N == Len(known)
  <1>1. /\ more \in Seq(GeminiEntry) /\ Len(more) = N + 2
        /\ \A i \in 1..N : more[i] = known[i]
        /\ more[N + 1] = Question(n + 1) /\ more[N + 2] = Reply(n + 1)
    BY Extended
  <1>2. /\ N \in Nat /\ N % 2 = 1 /\ known[1] = PromptContent
        /\ \A i \in 2..N :
              /\ known[i].role = IF i % 2 = 0 THEN "user" ELSE "model"
              /\ IF i % 2 = 0 THEN known[i].content > known[i - 1].content
                              ELSE known[i].content = known[i - 1].content
        /\ \A i \in 1..N : known[i].content <= n
    BY DEF Proper
  <1>3. \A i \in 1..N : known[i].content \in Nat
    BY Contents
  <1> HIDE DEF more, N
  <1>4. /\ N \in 1..N /\ (N + 1) % 2 = 0 /\ (N + 2) % 2 = 1
        /\ (N + 1) - 1 = N /\ (N + 2) - 1 = N + 1
    <2>1. N # 0
      BY <1>2
    <2>2. N \in 1..N /\ (N + 1) - 1 = N /\ (N + 2) - 1 = N + 1
      BY <1>2, <2>1
    <2>3. (N + 1) % 2 = 0
      BY <1>2
    <2>4. (N + 2) % 2 = 1
      BY <1>2
    <2> QED BY <2>2, <2>3, <2>4
  <1>5. more[1] = PromptContent
    BY <1>1, <1>2, <1>4
  <1>6. ASSUME NEW i \in 2..Len(more)
        PROVE  /\ more[i].role = IF i % 2 = 0 THEN "user" ELSE "model"
               /\ IF i % 2 = 0 THEN more[i].content > more[i - 1].content
                               ELSE more[i].content = more[i - 1].content
    <2>1. CASE i \in 2..N
      <3>1. more[i] = known[i] /\ more[i - 1] = known[i - 1]
        BY <1>1, <1>2, <2>1
      <3> QED BY <1>2, <2>1, <3>1
    <2>2. CASE i = N + 1
      <3>1. /\ more[i].role = "user" /\ more[i].content = n + 1
            /\ more[i - 1] = known[N]
        <4>1. more[N + 1].role = "user" /\ more[N + 1].content = n + 1
          BY <1>1 DEF Question
        <4>2. more[N] = known[N]
          BY <1>1, <1>4
        <4> QED BY <4>1, <4>2, <2>2, <1>4
      <3>2. n + 1 > known[N].content
        <4>1. known[N].content \in Nat /\ known[N].content <= n
          BY <1>2, <1>3, <1>4
        <4>2. \A c \in Nat : c <= n => n + 1 > c
          BY FilesAssumption
        <4> QED BY <4>1, <4>2
      <3> QED BY <3>1, <3>2, <2>2, <1>4
    <2>3. CASE i = N + 2
      <3>1. /\ more[i].role = "model" /\ more[i].content = n + 1
            /\ more[i - 1].content = n + 1 /\ i % 2 = 1
        <4>1. /\ more[N + 2].role = "model" /\ more[N + 2].content = n + 1
              /\ more[N + 1].content = n + 1
          BY <1>1 DEF Question, Reply
        <4> QED BY <4>1, <2>3, <1>4
      <3> QED BY <3>1
    <2> QED BY <1>1, <1>2, <2>1, <2>2, <2>3
  <1>7. ASSUME NEW i \in 1..Len(more) PROVE more[i].content <= n + 1
    <2>1. CASE i \in 1..N
      <3>1. more[i] = known[i] /\ known[i].content \in Nat /\ known[i].content <= n
        BY <1>1, <1>2, <1>3, <2>1
      <3>2. \A c \in Nat : c <= n => c <= n + 1
        BY FilesAssumption
      <3> QED BY <3>1, <3>2
    <2>2. CASE i = N + 1
      BY <1>1, <2>2, FilesAssumption DEF Question
    <2>3. CASE i = N + 2
      BY <1>1, <2>3, FilesAssumption DEF Reply
    <2> QED BY <1>1, <1>2, <2>1, <2>2, <2>3
  <1>8. Len(more) % 2 = 1
    BY <1>1, <1>4
  <1> QED BY <1>5, <1>6, <1>7, <1>8 DEF Proper, more

\* What is read back is proper when what was stored is, and has the same turns.
LEMMA ReadBack ==
    ASSUME NEW stored, NEW n \in 0..MaxTurns, Stored(stored, n)
    PROVE  /\ GenerateChat(stored) \in Seq(GeminiEntry) /\ Proper(GenerateChat(stored), n)
           /\ TurnsOf(GenerateChat(stored)) = TurnsOf(stored)
  <1>1. CASE stored = <<>>
    BY <1>1, NewChat, ProperNew, NoTurns
  <1>2. ASSUME NEW known \in Seq(GeminiEntry), Proper(known, n), stored = History(known)
        PROVE  /\ GenerateChat(stored) = known
               /\ TurnsOf(stored) = TurnsOf(known)
    BY <1>2, HistoryReadsBack, SameTurns
  <1> QED BY <1>1, <1>2 DEF Stored

LEMMA StoredLater ==
    ASSUME NEW stored, NEW n \in 0..MaxTurns, Stored(stored, n)
    PROVE  Stored(stored, n + 1)
  BY ProperLater DEF Stored

LEMMA StoredNow ==
    ASSUME NEW n \in 0..MaxTurns, NEW known \in Seq(GeminiEntry), Proper(known, n)
    PROVE  History(known) \in Seq(Entry) /\ Stored(History(known), n)
  BY HistoryEntries DEF Stored

\* The places of Execute.
Places == {"off", "open", "decode", "ready", "failed", "create", "encode"}

\* A step of one session leaves the chats of the others as they were.
LEMMA OneMoves ==
    ASSUME ChatInv, NEW s \in Sessions, NEW place \in Places,
           NEW known \in Seq(GeminiEntry), NEW n \in 0..MaxTurns,
           n = turns \/ n = turns + 1, ChatOK(place, known, n)
    PROVE  LET c == [chat EXCEPT ![s] = place]
               g == [gemini EXCEPT ![s] = known]
           IN  /\ c \in [Sessions -> Places] /\ g \in [Sessions -> Seq(GeminiEntry)]
               /\ \A o \in Sessions : ChatOK(c[o], g[o], n)
  <1> DEFINE c == [chat EXCEPT ![s] = place]
             g == [gemini EXCEPT ![s] = known]
  <1>1. /\ chat \in [Sessions -> Places] /\ gemini \in [Sessions -> Seq(GeminiEntry)]
        /\ turns \in 0..MaxTurns
    BY DEF ChatInv, TypeOK, Places
  <1>2. c \in [Sessions -> Places] /\ g \in [Sessions -> Seq(GeminiEntry)]
    BY <1>1
  <1>3. ASSUME NEW o \in Sessions PROVE ChatOK(c[o], g[o], n)
    <2>1. CASE o = s
      <3>1. c[o] = place /\ g[o] = known
        BY <1>1, <2>1
      <3> QED BY <3>1
    <2>2. CASE o # s
      <3>1. c[o] = chat[o] /\ g[o] = gemini[o] /\ gemini[o] \in Seq(GeminiEntry)
        BY <1>1, <2>2
      <3>2. ChatOK(chat[o], gemini[o], turns)
        BY DEF ChatInv
      <3> HIDE DEF c, g
      <3>3. ChatOK(chat[o], gemini[o], n)
        BY <1>1, <3>1, <3>2, ProperLater DEF ChatOK
      <3> QED BY <3>1, <3>3
    <2> QED BY <2>1, <2>2
  <1> QED BY <1>2, <1>3

\* The step, when what the rest of the state becomes is known.
LEMMA ChatMoves ==
    ASSUME ChatInv, NEW s \in Sessions, NEW place \in Places,
           NEW known \in Seq(GeminiEntry),
           turns' \in 0..MaxTurns, turns' = turns \/ turns' = turns + 1,
           ChatOK(place, known, turns'),
           chat' = [chat EXCEPT ![s] = place], gemini' = [gemini EXCEPT ![s] = known],
           history' \in Seq(Entry), Stored(history', turns'),
           torn' \in BOOLEAN, cut' \in BOOLEAN, overlapped' \in BOOLEAN,
           lost' \subseteq 1..MaxTurns,
           speech' \in [Sessions -> {"off", "lookup", "remote", "truncate", "write"}],
           UNCHANGED <<cache, cutSpeech, crashes>>
    PROVE  ChatInv'
  <1>1. /\ chat' \in [Sessions -> Places] /\ gemini' \in [Sessions -> Seq(GeminiEntry)]
        /\ \A o \in Sessions : ChatOK(chat'[o], gemini'[o], turns')
    BY OneMoves
  <1>2. /\ cache' \in {"absent", "short", "whole"} /\ cutSpeech' \in BOOLEAN
        /\ crashes' \in 0..MaxCrashes
    BY DEF ChatInv, TypeOK
  <1> QED BY <1>1, <1>2 DEF ChatInv, TypeOK, Places

LEMMA ChatInit == Init => ChatInv
  <1> SUFFICES ASSUME Init PROVE ChatInv
    OBVIOUS
  <1>1. /\ torn \in BOOLEAN /\ overlapped \in BOOLEAN /\ cut \in BOOLEAN
        /\ cutSpeech \in BOOLEAN
    BY Zenon DEF Init
  <1>2. <<>> \in Seq(GeminiEntry) /\ <<>> \in Seq(Entry)
    OBVIOUS
  <1>3. TypeOK
    BY <1>1, <1>2, FilesAssumption DEF Init, TypeOK
  <1>4. \A s \in Sessions : ChatOK(chat[s], gemini[s], turns)
    BY DEF Init, ChatOK, Chatting
  <1>5. Stored(history, turns)
    BY DEF Init, Stored
  <1> QED BY <1>3, <1>4, <1>5 DEF ChatInv

LEMMA ChatStep == ChatInv /\ [Next]_vars => ChatInv'
  <1> SUFFICES ASSUME ChatInv, [Next]_vars PROVE ChatInv'
    OBVIOUS
  <1>t. /\ chat \in [Sessions -> Places] /\ gemini \in [Sessions -> Seq(GeminiEntry)]
        /\ speech \in [Sessions -> {"off", "lookup", "remote", "truncate", "write"}]
        /\ history \in Seq(Entry) /\ turns \in 0..MaxTurns
        /\ lost \subseteq 1..MaxTurns
    BY DEF ChatInv, TypeOK, Places
  <1>b. torn \in BOOLEAN /\ cut \in BOOLEAN /\ overlapped \in BOOLEAN /\ cutSpeech \in BOOLEAN
    BY DEF ChatInv, TypeOK
  <1>c. cache \in {"absent", "short", "whole"} /\ crashes \in 0..MaxCrashes
    BY DEF ChatInv, TypeOK
  <1>k. /\ \A o \in Sessions : ChatOK(chat[o], gemini[o], turns)
        /\ Stored(history, turns)
    BY DEF ChatInv
  <1>e. <<>> \in Seq(GeminiEntry)
    OBVIOUS
  <1>g. \A s \in Sessions : gemini[s] \in Seq(GeminiEntry) /\ gemini = [gemini EXCEPT ![s] = gemini[s]]
    BY <1>t
  <1>n. \A s \in Sessions : chat[s] \in Chatting => /\ Proper(gemini[s], turns)
                                                    /\ TurnsOf(gemini[s]) \subseteq 1..turns
    BY <1>t, <1>k, <1>g, ProperTurns DEF ChatOK
  <1>m. 1..turns \subseteq 1..MaxTurns
    BY <1>t, FilesAssumption
  <1>1. ASSUME NEW s \in Sessions, Connect(s) PROVE ChatInv'
    <2>1. /\ chat' = [chat EXCEPT ![s] = "open"] /\ gemini' = gemini
          /\ UNCHANGED <<history, torn, cut, lost, cache, cutSpeech, turns, crashes>>
          /\ speech' = [speech EXCEPT ![s] = "lookup"] /\ chat[s] = "off"
      BY <1>1 DEF Connect, Go, Say, historyVars
    <2>2. overlapped' \in BOOLEAN
      BY <1>1, Zenon DEF Connect
    <2>3. speech' \in [Sessions -> {"off", "lookup", "remote", "truncate", "write"}]
      BY <1>t, <2>1
    <2>4. "open" \in Places /\ ChatOK("open", gemini[s], turns)
      BY <1>k, <2>1 DEF Places, ChatOK, Chatting
    <2> QED BY <1>t, <1>b, <1>k, <1>g, <2>1, <2>2, <2>3, <2>4, ChatMoves
  <1>2. ASSUME NEW s \in Sessions, Open(s) PROVE ChatInv'
    <2>1. /\ UNCHANGED <<history, torn, cut, lost, speech, cache, cutSpeech, turns,
                         overlapped, crashes>>
          /\ chat[s] = "open"
      BY <1>2 DEF Open, historyVars, speechVars
    <2>2. gemini[s] = <<>>
      BY <1>k, <2>1 DEF ChatOK, Chatting
    <2>3. CASE /\ gemini' = [gemini EXCEPT ![s] = GenerateChat(<<>>)]
               /\ chat' = [chat EXCEPT ![s] = "ready"]
      <3>1. /\ "ready" \in Places /\ GenerateChat(<<>>) \in Seq(GeminiEntry)
            /\ ChatOK("ready", GenerateChat(<<>>), turns)
        BY <1>t, NewChat, ProperNew DEF Places, ChatOK, Chatting
      <3> QED BY <1>t, <1>b, <1>k, <2>1, <2>3, <3>1, ChatMoves
    <2>4. ASSUME NEW place \in {"decode", "failed"}, gemini' = gemini,
                 chat' = [chat EXCEPT ![s] = place]
          PROVE  ChatInv'
      <3>1. place \in Places /\ ChatOK(place, gemini[s], turns)
        BY <2>2 DEF Places, ChatOK, Chatting
      <3> QED BY <1>t, <1>b, <1>k, <1>g, <2>1, <2>4, <3>1, ChatMoves
    <2> QED BY <1>2, <2>3, <2>4 DEF Open, Go
  <1>3. ASSUME NEW s \in Sessions, Decode(s) PROVE ChatInv'
    <2>1. /\ UNCHANGED <<history, torn, cut, lost, speech, cache, cutSpeech, turns,
                         overlapped, crashes>>
          /\ chat[s] = "decode"
      BY <1>3 DEF Decode, historyVars, speechVars
    <2>2. gemini[s] = <<>>
      BY <1>k, <2>1 DEF ChatOK, Chatting
    <2>3. CASE /\ gemini' = [gemini EXCEPT ![s] = GenerateChat(history)]
               /\ chat' = [chat EXCEPT ![s] = "ready"]
      <3>1. /\ "ready" \in Places /\ GenerateChat(history) \in Seq(GeminiEntry)
            /\ ChatOK("ready", GenerateChat(history), turns)
        BY <1>t, <1>k, ReadBack DEF Places, ChatOK, Chatting
      <3> QED BY <1>t, <1>b, <1>k, <2>1, <2>3, <3>1, ChatMoves
    <2>4. CASE gemini' = gemini /\ chat' = [chat EXCEPT ![s] = "failed"]
      <3>1. "failed" \in Places /\ ChatOK("failed", gemini[s], turns)
        BY <2>2 DEF Places, ChatOK, Chatting
      <3> QED BY <1>t, <1>b, <1>k, <1>g, <2>1, <2>4, <3>1, ChatMoves
    <2> QED BY <1>3, <2>3, <2>4 DEF Decode, Go
  <1>4. ASSUME NEW s \in Sessions, SendMessage(s) PROVE ChatInv'
    <2> DEFINE more == gemini[s] \o <<Question(turns + 1), Reply(turns + 1)>>
    <2>1. /\ UNCHANGED <<chat, history, torn, cut, lost, speech, cache, cutSpeech,
                         overlapped, crashes>>
          /\ chat[s] = "ready" /\ turns < MaxTurns /\ turns' = turns + 1
      BY <1>4 DEF SendMessage, historyVars, speechVars
    <2>2. gemini' = [gemini EXCEPT ![s] = more]
      BY <1>4 DEF SendMessage, Question, Reply
    <2>3. turns + 1 \in 1..MaxTurns /\ turns' \in 0..MaxTurns
      BY <1>t, <2>1, FilesAssumption
    <2>4. Proper(gemini[s], turns)
      BY <1>n, <2>1 DEF Chatting
    <2>5. more \in Seq(GeminiEntry) /\ Proper(more, turns + 1)
      BY <1>t, <1>g, <2>3, <2>4, Extended, ProperMore
    <2>6. Stored(history, turns + 1)
      BY <1>t, <1>k, StoredLater
    <2> HIDE DEF more
    <2>7. /\ "ready" \in Places /\ ChatOK("ready", more, turns')
          /\ chat' = [chat EXCEPT ![s] = "ready"]
      BY <1>t, <2>1, <2>5 DEF Places, ChatOK, Chatting
    <2> QED BY <1>t, <1>b, <2>1, <2>2, <2>3, <2>5, <2>6, <2>7, ChatMoves
  <1>5. ASSUME NEW s \in Sessions, Done(s) PROVE ChatInv'
    <2>1. /\ UNCHANGED <<gemini, history, torn, cut, lost, speech, cache, cutSpeech, turns,
                         overlapped, crashes>>
          /\ \/ chat[s] = "ready" /\ chat' = [chat EXCEPT ![s] = "create"]
             \/ chat[s] = "failed" /\ chat' = [chat EXCEPT ![s] = "off"]
      BY <1>5 DEF Done, Go, historyVars, speechVars
    <2>2. CASE chat[s] = "ready" /\ chat' = [chat EXCEPT ![s] = "create"]
      <3>1. "create" \in Places /\ ChatOK("create", gemini[s], turns)
        BY <1>k, <2>2 DEF Places, ChatOK, Chatting
      <3> QED BY <1>t, <1>b, <1>k, <1>g, <2>1, <2>2, <3>1, ChatMoves
    <2>3. CASE chat[s] = "failed" /\ chat' = [chat EXCEPT ![s] = "off"]
      <3>1. "off" \in Places /\ ChatOK("off", gemini[s], turns)
        BY <1>k, <2>3 DEF Places, ChatOK, Chatting
      <3> QED BY <1>t, <1>b, <1>k, <1>g, <2>1, <2>3, <3>1, ChatMoves
    <2> QED BY <2>1, <2>2, <2>3
  <1>6. ASSUME NEW s \in Sessions, Create(s) PROVE ChatInv'
    <2>1. /\ UNCHANGED <<history, cut, speech, cache, cutSpeech, turns, overlapped, crashes>>
          /\ chat[s] = "create"
      BY <1>6 DEF Create, speechVars
    <2>2. CASE torn' = TRUE /\ Go(s, "encode") /\ UNCHANGED <<gemini, lost>>
      <3>1. "encode" \in Places /\ ChatOK("encode", gemini[s], turns)
        BY <1>k, <2>1 DEF Places, ChatOK, Chatting
      <3>2. torn' \in BOOLEAN
        BY <2>2, Zenon
      <3>3. chat' = [chat EXCEPT ![s] = "encode"] /\ gemini' = gemini /\ lost' = lost
        BY <2>2 DEF Go
      <3> QED BY <1>t, <1>b, <1>k, <1>g, <2>1, <3>1, <3>2, <3>3, ChatMoves
    <2>3. CASE /\ lost' = lost \cup (TurnsOf(gemini[s]) \ TurnsOf(history))
               /\ Leave(s) /\ UNCHANGED torn
      <3>1. "off" \in Places /\ ChatOK("off", <<>>, turns)
        BY DEF Places, ChatOK, Chatting
      <3>2. lost' \subseteq 1..MaxTurns
        BY <1>t, <1>m, <1>n, <2>1, <2>3 DEF Chatting
      <3>3. /\ chat' = [chat EXCEPT ![s] = "off"] /\ gemini' = [gemini EXCEPT ![s] = <<>>]
            /\ torn' = torn
        BY <2>3 DEF Leave, Go
      <3> QED BY <1>t, <1>b, <1>k, <1>e, <2>1, <3>1, <3>2, <3>3, ChatMoves
    <2> QED BY <1>6, <2>2, <2>3 DEF Create
  <1>7. ASSUME NEW s \in Sessions, Encode(s) PROVE ChatInv'
    <2>1. /\ UNCHANGED <<speech, cache, cutSpeech, turns, overlapped, crashes>>
          /\ chat' = [chat EXCEPT ![s] = "off"] /\ gemini' = [gemini EXCEPT ![s] = <<>>]
          /\ chat[s] = "encode"
      BY <1>7 DEF Encode, speechVars, Leave, Go
    <2>2. "off" \in Places /\ ChatOK("off", <<>>, turns)
      BY DEF Places, ChatOK, Chatting
    <2>3. torn' \in BOOLEAN /\ cut' \in BOOLEAN
      BY <1>7, Zenon DEF Encode
    <2>4. Proper(gemini[s], turns) /\ TurnsOf(gemini[s]) \subseteq 1..MaxTurns
      BY <1>m, <1>n, <2>1 DEF Chatting
    <2>5. history' = History(gemini[s]) \/ history' = history
      BY <1>7 DEF Encode
    <2>6. history' \in Seq(Entry) /\ Stored(history', turns)
      BY <1>t, <1>g, <1>k, <2>4, <2>5, StoredNow
    <2>7. lost' \subseteq 1..MaxTurns
      BY <1>7, <1>t, <2>4 DEF Encode
    <2> QED BY <1>t, <1>b, <1>e, <2>1, <2>2, <2>3, <2>6, <2>7, ChatMoves
  <1>8. ASSUME NEW s \in Sessions, Synthesize(s) PROVE ChatInv'
    <2>1. UNCHANGED <<chat, gemini, history, torn, cut, lost, turns, overlapped, crashes>>
      BY <1>8 DEF Synthesize, Lookup, Remote, Truncate, WriteCache, historyVars
    <2>2. speech' \in [Sessions -> {"off", "lookup", "remote", "truncate", "write"}]
      BY <1>8, <1>t DEF Synthesize, Lookup, Remote, Truncate, WriteCache, Say
    <2>3. cache' \in {"absent", "short", "whole"}
      BY <1>8, <1>c DEF Synthesize, Lookup, Remote, Truncate, WriteCache
    <2>4. cutSpeech' \in BOOLEAN
      BY <1>8, <1>b, Zenon DEF Synthesize, Lookup, Remote, Truncate, WriteCache
    <2>5. TypeOK'
      BY <1>t, <1>b, <1>c, <2>1, <2>2, <2>3, <2>4 DEF TypeOK, Places
    <2> QED BY <1>k, <2>1, <2>5 DEF ChatInv
  <1>9. CASE Crash
    <2>1. /\ chat' = [o \in Sessions |-> "off"] /\ gemini' = [o \in Sessions |-> <<>>]
          /\ speech' = [o \in Sessions |-> "off"] /\ crashes < MaxCrashes
          /\ crashes' = crashes + 1 /\ UNCHANGED <<history, torn, cache, turns, overlapped>>
      BY <1>9 DEF Crash
    <2>2. cut' \in BOOLEAN /\ cutSpeech' \in BOOLEAN
      BY <1>9, Zenon DEF Crash
    <2>3. lost' \subseteq 1..MaxTurns
      <3>1. ASSUME NEW o \in Sessions PROVE TurnsOf(gemini[o]) \subseteq 1..MaxTurns
        BY <1>k, <1>m, <1>n, NoTurns DEF ChatOK
      <3>2. UNION {TurnsOf(gemini[o]) : o \in Sessions} \subseteq 1..MaxTurns
        BY <3>1
      <3> QED BY <1>9, <1>t, <3>2 DEF Crash
    <2>4. crashes' \in 0..MaxCrashes
      BY <1>c, <2>1, FilesAssumption
    <2>5. /\ chat' \in [Sessions -> Places] /\ gemini' \in [Sessions -> Seq(GeminiEntry)]
          /\ speech' \in [Sessions -> {"off", "lookup", "remote", "truncate", "write"}]
          /\ \A o \in Sessions : ChatOK(chat'[o], gemini'[o], turns')
      BY <1>e, <2>1 DEF Places, ChatOK, Chatting
    <2>6. TypeOK'
      BY <1>t, <1>b, <1>c, <2>1, <2>2, <2>3, <2>4, <2>5 DEF TypeOK, Places
    <2> QED BY <1>k, <2>1, <2>5, <2>6 DEF ChatInv
  <1>10. CASE UNCHANGED vars
    BY <1>10 DEF vars, historyVars, speechVars, ChatInv, TypeOK
  <1> QED BY <1>1, <1>2, <1>3, <1>4, <1>5, <1>6, <1>7, <1>8, <1>9, <1>10
          DEF Next, Execute, GenerateChatPanics

\* The chats, the files and what is in hand keep their types: what GenerateChat
\* makes of a history file is a chat, and what History makes of a chat is one
\* that GenerateChat can read (gemini.go lines 51-157).
THEOREM FilesTypeCorrect == Spec => []TypeOK
  <1>1. ChatInv => TypeOK
    BY DEF ChatInv
  <1> QED BY <1>1, ChatInit, ChatStep, PTL DEF Spec

\* However often a chat is stored, read back and continued, and whatever other
\* sessions or crashes do to the file, the language model sees a proper
\* conversation (chat_service.go lines 20-76, gemini.go lines 51-157).
THEOREM ConversationStaysProper == Spec => []ProperConversation
  <1>1. ChatInv => ProperConversation
    BY DEF ChatInv, ChatOK, Chatting, Proper, ProperConversation
  <1> QED BY <1>1, ChatInit, ChatStep, PTL DEF Spec

------------------------------------------------------------------------------
(* What the file keeps *)

\* Everything that was said and is not lost, with one more turn.
LEMMA OneMoreTurn ==
    ASSUME NEW n \in Nat, NEW l, l \subseteq 1..n
    PROVE  (1..(n + 1)) \ l = ((1..n) \ l) \cup {n + 1}
  <1>1. 1..(n + 1) = (1..n) \cup {n + 1}
    OBVIOUS
  <1>2. n + 1 \notin 1..n
    OBVIOUS
  <1> QED BY <1>1, <1>2

LEMMA KeptStep == KeptInv /\ [Next]_vars => KeptInv'
  <1> SUFFICES ASSUME KeptInv, [Next]_vars PROVE KeptInv'
    OBVIOUS
  <1>0. ChatInv /\ ChatInv'
    BY ChatStep DEF KeptInv
  <1>t. /\ chat \in [Sessions -> Places] /\ gemini \in [Sessions -> Seq(GeminiEntry)]
        /\ turns \in 0..MaxTurns
    BY <1>0 DEF ChatInv, TypeOK, Places
  <1>b. torn \in BOOLEAN /\ overlapped \in BOOLEAN
    BY <1>0 DEF ChatInv, TypeOK
  <1>k. /\ \A o \in Sessions : ChatOK(chat[o], gemini[o], turns)
        /\ Stored(history, turns)
    BY <1>0 DEF ChatInv
  <1>l. lost \subseteq 1..turns
    BY DEF KeptInv
  <1>o. ~overlapped => OneByOne
    BY DEF KeptInv
  <1>n. \A o \in Sessions : TurnsOf(gemini[o]) \subseteq 1..turns
    BY <1>t, <1>k, ProperTurns, NoTurns DEF ChatOK
  <1>1. ASSUME NEW s \in Sessions, Connect(s) PROVE KeptInv'
    <2>1. /\ chat' = [chat EXCEPT ![s] = "open"]
          /\ UNCHANGED <<gemini, history, torn, lost, turns>>
      BY <1>1 DEF Connect, Go, historyVars
    <2>2. ~overlapped' => ~overlapped /\ \A o \in Sessions : chat[o] = "off"
      BY <1>1, Zenon DEF Connect
    <2>3. ASSUME ~overlapped' PROVE OneByOne'
      <3>1. OneByOne /\ \A o \in Sessions : chat[o] = "off"
        BY <1>o, <2>2, <2>3
      <3>2. \A o \in Sessions : chat'[o] = IF o = s THEN "open" ELSE "off"
        BY <1>t, <2>1, <3>1
      <3> QED BY <2>1, <3>1, <3>2 DEF OneByOne, Remembered, Chatting
    <2> QED BY <1>0, <1>l, <2>1, <2>3 DEF KeptInv
  <1>2. ASSUME NEW s \in Sessions, Open(s) PROVE KeptInv'
    <2>1. /\ UNCHANGED <<history, torn, lost, turns, overlapped>>
          /\ chat[s] = "open"
      BY <1>2 DEF Open, historyVars
    <2>2. ASSUME ~overlapped' PROVE OneByOne'
      <3>1. OneByOne
        BY <1>o, <2>1, <2>2
      <3>2. \A o \in Sessions : o # s => chat[o] = "off"
        BY <2>1, <3>1 DEF OneByOne
      <3>3. CASE /\ history = <<>> /\ ~torn
                 /\ gemini' = [gemini EXCEPT ![s] = GenerateChat(<<>>)]
                 /\ chat' = [chat EXCEPT ![s] = "ready"]
        <4>1. TurnsOf(history) = Remembered
          BY <2>1, <3>1, <3>2, <3>3 DEF OneByOne, Chatting
        <4>2. TurnsOf(GenerateChat(<<>>)) = TurnsOf(history)
          BY <3>3, NewChat, NoTurns
        <4>3. /\ \A o \in Sessions : chat'[o] = IF o = s THEN "ready" ELSE "off"
              /\ gemini'[s] = GenerateChat(<<>>)
          BY <1>t, <3>2, <3>3
        <4> QED BY <2>1, <3>3, <4>1, <4>2, <4>3 DEF OneByOne, Remembered, Chatting
      <3>4. ASSUME NEW place \in {"decode", "failed"}, gemini' = gemini,
                   chat' = [chat EXCEPT ![s] = place]
            PROVE  OneByOne'
        <4>1. \A o \in Sessions : chat'[o] = IF o = s THEN place ELSE "off"
          BY <1>t, <3>2, <3>4
        <4>2. ~torn => TurnsOf(history) = Remembered
          BY <2>1, <3>1, <3>2 DEF OneByOne, Chatting
        <4> QED BY <2>1, <3>4, <4>1, <4>2 DEF OneByOne, Remembered, Chatting
      <3> QED BY <1>2, <3>3, <3>4 DEF Open, Go
    <2> QED BY <1>0, <1>l, <2>1, <2>2 DEF KeptInv
  <1>3. ASSUME NEW s \in Sessions, Decode(s) PROVE KeptInv'
    <2>1. /\ UNCHANGED <<history, torn, lost, turns, overlapped>>
          /\ chat[s] = "decode"
      BY <1>3 DEF Decode, historyVars
    <2>2. ASSUME ~overlapped' PROVE OneByOne'
      <3>1. OneByOne
        BY <1>o, <2>1, <2>2
      <3>2. \A o \in Sessions : o # s => chat[o] = "off"
        BY <2>1, <3>1 DEF OneByOne
      <3>3. ~torn => TurnsOf(history) = Remembered
        BY <2>1, <3>1, <3>2 DEF OneByOne, Chatting
      <3>4. CASE /\ ~torn /\ gemini' = [gemini EXCEPT ![s] = GenerateChat(history)]
                 /\ chat' = [chat EXCEPT ![s] = "ready"]
        <4>1. TurnsOf(GenerateChat(history)) = Remembered
          BY <1>t, <1>k, <3>3, <3>4, ReadBack
        <4>2. /\ \A o \in Sessions : chat'[o] = IF o = s THEN "ready" ELSE "off"
              /\ gemini'[s] = GenerateChat(history)
          BY <1>t, <3>2, <3>4
        <4> QED BY <2>1, <3>3, <3>4, <4>1, <4>2 DEF OneByOne, Remembered, Chatting
      <3>5. CASE gemini' = gemini /\ chat' = [chat EXCEPT ![s] = "failed"]
        <4>1. \A o \in Sessions : chat'[o] = IF o = s THEN "failed" ELSE "off"
          BY <1>t, <3>2, <3>5
        <4> QED BY <2>1, <3>3, <3>5, <4>1 DEF OneByOne, Remembered, Chatting
      <3> QED BY <1>3, <3>4, <3>5 DEF Decode, Go
    <2> QED BY <1>0, <1>l, <2>1, <2>2 DEF KeptInv
  <1>4. ASSUME NEW s \in Sessions, SendMessage(s) PROVE KeptInv'
    <2> DEFINE more == gemini[s] \o <<Question(turns + 1), Reply(turns + 1)>>
    <2>1. /\ UNCHANGED <<chat, history, torn, lost, overlapped>>
          /\ chat[s] = "ready" /\ turns < MaxTurns /\ turns' = turns + 1
      BY <1>4 DEF SendMessage, historyVars
    <2>2. gemini' = [gemini EXCEPT ![s] = more]
      BY <1>4 DEF SendMessage, Question, Reply
    <2>3. turns \in Nat /\ turns + 1 \in 1..MaxTurns /\ 1..turns \subseteq 1..(turns + 1)
      BY <1>t, <2>1, FilesAssumption
    <2>4. TurnsOf(more) = TurnsOf(gemini[s]) \cup {turns + 1}
      BY <1>t, <2>3, MoreTurns
    <2>5. Remembered' = Remembered \cup {turns + 1}
      BY <1>l, <2>1, <2>3, OneMoreTurn DEF Remembered
    <2> HIDE DEF more
    <2>6. ASSUME ~overlapped' PROVE OneByOne'
      <3>1. OneByOne
        BY <1>o, <2>1, <2>6
      <3>2. \A o \in Sessions : o # s => chat[o] = "off"
        BY <2>1, <3>1 DEF OneByOne
      <3>3. /\ TurnsOf(gemini[s]) = Remembered
            /\ ~torn /\ TurnsOf(history) \subseteq Remembered
        BY <2>1, <3>1 DEF OneByOne, Chatting
      <3>4. gemini'[s] = more
        BY <1>t, <2>2
      <3>5. TurnsOf(gemini'[s]) = Remembered'
        BY <2>4, <2>5, <3>3, <3>4
      <3>6. ~torn' /\ TurnsOf(history') \subseteq Remembered'
        BY <2>1, <2>5, <3>3
      <3>7. chat'[s] = "ready" /\ \A o \in Sessions : o # s => chat'[o] = "off"
        BY <2>1, <3>2
      <3> QED BY <3>5, <3>6, <3>7 DEF OneByOne, Chatting
    <2> QED BY <1>0, <1>l, <2>1, <2>3, <2>6 DEF KeptInv
  <1>5. ASSUME NEW s \in Sessions, Done(s) PROVE KeptInv'
    <2>1. /\ UNCHANGED <<gemini, history, torn, lost, turns, overlapped>>
          /\ \/ chat[s] = "ready" /\ chat' = [chat EXCEPT ![s] = "create"]
             \/ chat[s] = "failed" /\ chat' = [chat EXCEPT ![s] = "off"]
      BY <1>5 DEF Done, Go, historyVars
    <2>2. ASSUME ~overlapped' PROVE OneByOne'
      <3>1. OneByOne
        BY <1>o, <2>1, <2>2
      <3>2. \A o \in Sessions : o # s => chat[o] = "off"
        BY <2>1, <3>1 DEF OneByOne
      <3>3. CASE chat[s] = "ready" /\ chat' = [chat EXCEPT ![s] = "create"]
        <4>1. \A o \in Sessions : chat'[o] = IF o = s THEN "create" ELSE "off"
          BY <1>t, <3>2, <3>3
        <4>2. /\ TurnsOf(gemini[s]) = Remembered
              /\ ~torn /\ TurnsOf(history) \subseteq Remembered
          BY <3>1, <3>3 DEF OneByOne, Chatting
        <4> QED BY <2>1, <4>1, <4>2 DEF OneByOne, Remembered, Chatting
      <3>4. CASE chat[s] = "failed" /\ chat' = [chat EXCEPT ![s] = "off"]
        <4>1. \A o \in Sessions : chat'[o] = "off"
          BY <1>t, <3>2, <3>4
        <4>2. ~torn => TurnsOf(history) = Remembered
          BY <3>1, <3>2, <3>4 DEF OneByOne, Chatting
        <4> QED BY <2>1, <4>1, <4>2 DEF OneByOne, Remembered, Chatting
      <3> QED BY <2>1, <3>3, <3>4
    <2> QED BY <1>0, <1>l, <2>1, <2>2 DEF KeptInv
  <1>6. ASSUME NEW s \in Sessions, Create(s) PROVE KeptInv'
    <2>1. /\ UNCHANGED <<history, turns, overlapped>> /\ chat[s] = "create"
      BY <1>6 DEF Create
    <2>2. ASSUME ~overlapped
          PROVE  /\ TurnsOf(gemini[s]) = Remembered
                 /\ ~torn /\ TurnsOf(history) \subseteq Remembered
                 /\ \A o \in Sessions : o # s => chat[o] = "off"
      BY <1>o, <2>1, <2>2 DEF OneByOne, Chatting
    <2>3. CASE torn' = TRUE /\ Go(s, "encode") /\ UNCHANGED <<gemini, lost>>
      <3>1. torn'
        BY <2>3, Zenon
      <3>2. ASSUME ~overlapped' PROVE OneByOne'
        <4>1. \A o \in Sessions : chat'[o] = IF o = s THEN "encode" ELSE "off"
          BY <1>t, <2>1, <2>2, <2>3, <3>2 DEF Go
        <4> QED BY <2>1, <2>2, <2>3, <3>1, <3>2, <4>1 DEF OneByOne, Remembered, Chatting
      <3> QED BY <1>0, <1>l, <2>1, <2>3, <3>2 DEF KeptInv
    <2>4. CASE /\ lost' = lost \cup (TurnsOf(gemini[s]) \ TurnsOf(history))
               /\ Leave(s) /\ UNCHANGED torn
      <3>1. lost' \subseteq 1..turns
        BY <1>l, <1>n, <2>4
      <3>2. ASSUME ~overlapped' PROVE OneByOne'
        <4>1. \A o \in Sessions : chat'[o] = "off"
          BY <1>t, <2>1, <2>2, <2>4, <3>2 DEF Leave, Go
        <4>2. TurnsOf(history) = Remembered'
          BY <2>1, <2>2, <2>4, <3>2 DEF Remembered
        <4> QED BY <2>1, <4>1, <4>2 DEF OneByOne, Chatting
      <3> QED BY <1>0, <2>1, <3>1, <3>2 DEF KeptInv
    <2> QED BY <1>6, <2>3, <2>4 DEF Create
  <1>7. ASSUME NEW s \in Sessions, Encode(s) PROVE KeptInv'
    <2>1. /\ UNCHANGED <<turns, overlapped>> /\ chat[s] = "encode"
          /\ chat' = [chat EXCEPT ![s] = "off"]
      BY <1>7 DEF Encode, Leave, Go
    <2>2. ASSUME ~overlapped
          PROVE  /\ TurnsOf(gemini[s]) = Remembered
                 /\ \A o \in Sessions : chat'[o] = "off"
      <3>1. OneByOne
        BY <1>o, <2>2
      <3> QED BY <1>t, <2>1, <3>1 DEF OneByOne, Chatting
    <2>3. CASE history' = History(gemini[s]) /\ lost' = lost
      <3>1. TurnsOf(history') = TurnsOf(gemini[s])
        BY <1>t, <2>3, SameTurns
      <3>2. ASSUME ~overlapped' PROVE OneByOne'
        BY <2>1, <2>2, <2>3, <3>1, <3>2 DEF OneByOne, Remembered, Chatting
      <3> QED BY <1>0, <1>l, <2>1, <2>3, <3>2 DEF KeptInv
    <2>4. CASE torn' = TRUE /\ lost' = lost \cup TurnsOf(gemini[s])
      <3>1. torn'
        BY <2>4, Zenon
      <3>2. lost' \subseteq 1..turns
        BY <1>l, <1>n, <2>4
      <3>3. ASSUME ~overlapped' PROVE OneByOne'
        BY <2>1, <2>2, <3>1, <3>3 DEF OneByOne, Chatting
      <3> QED BY <1>0, <2>1, <3>2, <3>3 DEF KeptInv
    <2> QED BY <1>7, <2>3, <2>4 DEF Encode
  <1>8. ASSUME NEW s \in Sessions, Synthesize(s) PROVE KeptInv'
    <2>1. UNCHANGED <<chat, gemini, history, torn, lost, turns, overlapped>>
      BY <1>8 DEF Synthesize, Lookup, Remote, Truncate, WriteCache, historyVars
    <2> QED BY <1>0, <1>l, <1>o, <2>1 DEF KeptInv, OneByOne, Remembered
  <1>9. CASE Crash
    <2> DEFINE said == UNION {TurnsOf(gemini[o]) : o \in Sessions}
    <2>0. lost' = lost \cup (said \ TurnsOf(history))
      BY <1>9, Zenon DEF Crash
    <2>1. /\ UNCHANGED <<history, torn, turns, overlapped>>
          /\ lost' = lost \cup (said \ TurnsOf(history))
          /\ \A o \in Sessions : chat'[o] = "off"
      <3> HIDE DEF said
      <3> QED BY <1>9, <2>0 DEF Crash
    <2>2. said \subseteq 1..turns
      BY <1>n
    <2>3. ASSUME ~overlapped, ~torn
          PROVE  TurnsOf(history) = Remembered \ (said \ TurnsOf(history))
      <3>1. OneByOne
        BY <1>o, <2>3
      <3>2. CASE \A o \in Sessions : chat[o] \notin Chatting
        <4>1. \A o \in Sessions : TurnsOf(gemini[o]) = {}
          BY <1>k, <3>2, NoTurns DEF ChatOK
        <4>2. said = {}
          BY <4>1
        <4>3. TurnsOf(history) = Remembered
          BY <2>3, <3>1, <3>2 DEF OneByOne
        <4> QED BY <4>2, <4>3
      <3>3. ASSUME NEW c \in Sessions, chat[c] \in Chatting
            PROVE  TurnsOf(history) = Remembered \ (said \ TurnsOf(history))
        <4>1. TurnsOf(gemini[c]) = Remembered /\ TurnsOf(history) \subseteq Remembered
          BY <2>3, <3>1, <3>3 DEF OneByOne
        <4>2. Remembered \subseteq said
          BY <4>1
        <4> HIDE DEF said
        <4> QED BY <4>1, <4>2
      <3> QED BY <3>2, <3>3
    <2> HIDE DEF said
    <2>4. lost' \subseteq 1..turns
      BY <1>l, <2>1, <2>2
    <2>5. Remembered' = Remembered \ (said \ TurnsOf(history))
      BY <2>1 DEF Remembered
    <2>6. ASSUME ~overlapped' PROVE OneByOne'
      <3>1. ~torn' => TurnsOf(history') = Remembered'
        BY <2>1, <2>3, <2>5, <2>6
      <3> QED BY <2>1, <3>1 DEF OneByOne, Chatting
    <2> QED BY <1>0, <2>1, <2>4, <2>6 DEF KeptInv
  <1>10. CASE UNCHANGED vars
    <2>1. UNCHANGED <<chat, gemini, history, torn, lost, turns, overlapped>>
      BY <1>10 DEF vars, historyVars
    <2> QED BY <1>0, <1>l, <1>o, <2>1 DEF KeptInv, OneByOne, Remembered
  <1> QED BY <1>1, <1>2, <1>3, <1>4, <1>5, <1>6, <1>7, <1>8, <1>9, <1>10
          DEF Next, Execute, GenerateChatPanics

LEMMA KeptInit == Init => KeptInv
  <1> SUFFICES ASSUME Init PROVE KeptInv
    OBVIOUS
  <1>1. ChatInv
    BY ChatInit
  <1>2. TurnsOf(history) = {} /\ Remembered = {} /\ lost \subseteq 1..turns
    BY NoTurns DEF Init, Remembered
  <1>3. \A s \in Sessions : chat[s] = "off"
    BY DEF Init
  <1>4. OneByOne
    BY <1>2, <1>3 DEF OneByOne, Chatting
  <1> QED BY <1>1, <1>2, <1>4 DEF KeptInv

\* While the sessions of a user follow one another, nothing that was said is
\* missing from the file that was not lost with a session, and nothing lost
\* comes back, over any number of sessions and crashes.
THEOREM HistoryIsKept == Spec => []HistoryKept
  <1>1. KeptInv => HistoryKept
    BY DEF KeptInv, OneByOne, Remembered, Chatting, HistoryKept
  <1> QED BY <1>1, KeptInit, KeptStep, PTL DEF Spec

------------------------------------------------------------------------------
(* Torn files *)

\* With the types, the property is inductive.
TornInv == TypeOK /\ TornOnlyByFailure

LEMMA TornStep == TornInv /\ TypeOK' /\ [Next]_vars => TornInv'
  <1> SUFFICES ASSUME TornInv, TypeOK', [Next]_vars PROVE TornInv'
    OBVIOUS
  <1>t. /\ chat \in [Sessions -> Places]
        /\ speech \in [Sessions -> {"off", "lookup", "remote", "truncate", "write"}]
    BY DEF TornInv, TypeOK, Places
  <1>1. ASSUME NEW s \in Sessions, chat[s] # "encode", UNCHANGED <<torn, cut>>,
               \/ chat' = chat
               \/ \E place \in Places : chat' = [chat EXCEPT ![s] = place]
        PROVE  torn' => cut' \/ \E o \in Sessions : chat'[o] = "encode"
    <2>1. \A o \in Sessions : chat[o] = "encode" => chat'[o] = "encode"
      BY <1>t, <1>1
    <2> QED BY <1>1, <2>1 DEF TornInv, TornOnlyByFailure
  <1>2. ASSUME UNCHANGED <<speech, cache, cutSpeech>>
        PROVE  cache' = "short" => cutSpeech' \/ \E o \in Sessions : speech'[o] = "write"
    BY <1>2 DEF TornInv, TornOnlyByFailure
  <1>3. ASSUME NEW s \in Sessions, Connect(s) PROVE TornInv'
    <2>1. torn' => cut' \/ \E o \in Sessions : chat'[o] = "encode"
      BY <1>1, <1>3 DEF Connect, Go, historyVars, Places
    <2>2. /\ \A o \in Sessions : speech[o] = "write" => speech'[o] = "write"
          /\ UNCHANGED <<cache, cutSpeech>>
      BY <1>t, <1>3 DEF Connect, Say
    <2> QED BY <2>1, <2>2 DEF TornInv, TornOnlyByFailure
  <1>4. ASSUME NEW s \in Sessions, Open(s) \/ Decode(s) \/ SendMessage(s) \/ Done(s)
        PROVE  TornInv'
    <2>1. UNCHANGED <<torn, cut, speech, cache, cutSpeech>> /\ chat[s] # "encode"
      BY <1>4 DEF Open, Decode, SendMessage, Done, historyVars, speechVars
    <2>2. chat' = chat \/ \E place \in Places : chat' = [chat EXCEPT ![s] = place]
      BY <1>4 DEF Open, Decode, SendMessage, Done, Go, Places
    <2> QED BY <1>1, <1>2, <2>1, <2>2 DEF TornInv, TornOnlyByFailure
  <1>5. ASSUME NEW s \in Sessions, Create(s) PROVE TornInv'
    <2>1. UNCHANGED <<cut, speech, cache, cutSpeech>> /\ chat[s] = "create"
      BY <1>5 DEF Create, speechVars
    <2>2. CASE Go(s, "encode")
      <3>1. chat'[s] = "encode"
        BY <1>t, <2>2 DEF Go
      <3> QED BY <1>2, <2>1, <3>1 DEF TornInv, TornOnlyByFailure
    <2>3. CASE Leave(s) /\ UNCHANGED torn
      <3>1. torn' => cut' \/ \E o \in Sessions : chat'[o] = "encode"
        BY <1>1, <2>1, <2>3 DEF Leave, Go, Places
      <3> QED BY <1>2, <2>1, <3>1 DEF TornInv, TornOnlyByFailure
    <2> QED BY <1>5, <2>2, <2>3 DEF Create
  <1>6. ASSUME NEW s \in Sessions, Encode(s) PROVE TornInv'
    <2>1. UNCHANGED <<speech, cache, cutSpeech>>
      BY <1>6 DEF Encode, speechVars
    <2>2. torn' => cut'
      BY <1>6, Zenon DEF Encode
    <2> QED BY <1>2, <2>1, <2>2 DEF TornInv, TornOnlyByFailure
  <1>7. ASSUME NEW s \in Sessions, Synthesize(s) PROVE TornInv'
    <2>1. UNCHANGED <<chat, torn, cut>>
      BY <1>7 DEF Synthesize, Lookup, Remote, Truncate, WriteCache, historyVars
    <2>2. CASE Lookup(s) \/ Remote(s)
      <3>1. /\ \A o \in Sessions : speech[o] = "write" => speech'[o] = "write"
            /\ UNCHANGED <<cache, cutSpeech>>
        BY <1>t, <2>2 DEF Lookup, Remote, Say
      <3> QED BY <2>1, <3>1 DEF TornInv, TornOnlyByFailure
    <2>3. CASE Truncate(s)
      <3>1. CASE speech' = [speech EXCEPT ![s] = "write"]
        <4>1. speech'[s] = "write"
          BY <1>t, <3>1
        <4> QED BY <2>1, <4>1 DEF TornInv, TornOnlyByFailure
      <3>2. CASE speech' = [speech EXCEPT ![s] = "off"] /\ UNCHANGED cache
        <4>1. /\ \A o \in Sessions : speech[o] = "write" => speech'[o] = "write"
              /\ UNCHANGED <<cache, cutSpeech>>
          BY <1>t, <2>3, <3>2 DEF Truncate
        <4> QED BY <2>1, <4>1 DEF TornInv, TornOnlyByFailure
      <3> QED BY <2>3, <3>1, <3>2 DEF Truncate, Say
    <2>4. CASE WriteCache(s)
      <3>1. cache' = "short" => cutSpeech'
        BY <2>4, Zenon DEF WriteCache
      <3> QED BY <2>1, <3>1 DEF TornInv, TornOnlyByFailure
    <2> QED BY <1>7, <2>2, <2>3, <2>4 DEF Synthesize
  <1>8. CASE Crash
    <2>1. UNCHANGED <<torn, cache>>
      BY <1>8 DEF Crash
    <2>2. /\ cut \/ (\E s \in Sessions : chat[s] = "encode") => cut'
          /\ cutSpeech \/ (\E s \in Sessions : speech[s] = "write") => cutSpeech'
      BY <1>8, Zenon DEF Crash
    <2> QED BY <2>1, <2>2 DEF TornInv, TornOnlyByFailure
  <1>9. CASE UNCHANGED vars
    BY <1>9 DEF vars, historyVars, speechVars, TornInv, TornOnlyByFailure
  <1> QED BY <1>3, <1>4, <1>5, <1>6, <1>7, <1>8, <1>9 DEF Next, Execute, GenerateChatPanics

\* A history or a cached speech that is not whole is being written, or its
\* writing was cut off by a crash or a full disk: no interleaving of sessions
\* alone leaves one behind (chat_service.go, google.go).
THEOREM TornIsFailure == Spec => []TornOnlyByFailure
  <1>1. Init => TornOnlyByFailure
    <2>1. Init => ~torn
      BY Zenon DEF Init
    <2>2. Init => cache # "short"
      BY DEF Init
    <2> QED BY <2>1, <2>2 DEF TornOnlyByFailure
  <1>2. TypeOK /\ TypeOK' /\ TornOnlyByFailure /\ [Next]_vars => TornOnlyByFailure'
    BY TornStep DEF TornInv
  <1> QED BY <1>1, <1>2, FilesTypeCorrect, PTL DEF Spec
==============================================================================
