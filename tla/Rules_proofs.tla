----------------------------- MODULE Rules_proofs -----------------------------
(***************************************************************************)
(* A deletion of iptables finds the rule it names and no other, for every     *)
(* instruction the instance of Algorithms makes.                             *)
(*                                                                         *)
(* An instruction is parsed by a loop over its words, and a line by loops over *)
(* its options.  What both come to is written down once, as the fields a rule  *)
(* is about: the deletion says them (Says), what iptables lists for the rule   *)
(* shows them (ShowsThese), equalToRule holds exactly between an instruction    *)
(* and a line with the same fields (EqualWhenSame), and the words of a rule    *)
(* follow from its fields (Writes), so that two rules with the same fields are *)
(* one.  Each kind of instruction has its words, its fields, and the lemmas     *)
(* that relate them.                                                       *)
(***************************************************************************)
EXTENDS MCProgram, WellFoundedInduction, NaturalsInduction, SequenceTheorems, TLAPS

\* A set of numbers that is not empty has a least one.
LEMMA LeastOfSome ==
    ASSUME NEW T, T \subseteq Nat, T # {}
    PROVE  \E n \in T : \A m \in T : n <= m
<1>1. IsWellFoundedOn(OpToRel(<, Nat), Nat)
    BY NatLessThanWellFounded
<1>2. \E n \in T : \A m \in T : ~ (<<m, n>> \in OpToRel(<, Nat))
    BY <1>1, WFMin, Zenon
<1>3. PICK n \in T : \A m \in T : ~ (<<m, n>> \in OpToRel(<, Nat))
    BY <1>2
<1>4. \A m \in T : ~(m < n)
    BY <1>3 DEF OpToRel
<1>. QED BY <1>4

\* A set of numbers that has zero and the next of each has them all.
LEMMA CountingUp ==
    ASSUME NEW D, 0 \in D, \A n \in Nat : n \in D => n + 1 \in D
    PROVE  \A n \in Nat : n \in D
<1>. SUFFICES ASSUME Nat \ D # {} PROVE FALSE
    OBVIOUS
<1>1. PICK n \in Nat \ D : \A m \in Nat \ D : n <= m
    <2>. DEFINE T == Nat \ D
    <2>1. T \subseteq Nat /\ T # {}
        OBVIOUS
    <2>. HIDE DEF T
    <2>2. \E n \in T : \A m \in T : n <= m
        BY <2>1, LeastOfSome
    <2>. QED BY <2>2 DEF T
<1>2. n # 0 /\ n - 1 \in Nat /\ n - 1 \notin Nat \ D
    BY <1>1
<1>. QED BY <1>1, <1>2

(***************************************************************************)
(* Loops over words, pairs and options.                                     *)
(***************************************************************************)

\* A function reads the first n words of an instruction, one by one.
ReadsTo(f, words, n) == f = [k \in 0..n |-> IF k = 0 THEN [next |-> 1, i |-> A!Blank] ELSE A!ReadWord(words, k,
      f[k - 1])]

\* There is one for every number of words.
LEMMA ReadingExists ==
    ASSUME NEW words
    PROVE  \A n \in Nat : \E f : ReadsTo(f, words, n)
<1>. DEFINE D == {n \in Nat : \E f : ReadsTo(f, words, n)}
<1>1. 0 \in D
    <2>. DEFINE f == [k \in 0..0 |-> [next |-> 1, i |-> A!Blank]]
    <2>1. ReadsTo(f, words, 0)
        BY DEF ReadsTo
    <2>. QED BY <2>1
<1>2. ASSUME NEW n \in Nat, n \in D PROVE n + 1 \in D
    <2>1. PICK f : ReadsTo(f, words, n)
        BY <1>2
    <2>. DEFINE g == [k \in 0..(n + 1) |-> IF k <= n THEN f[k] ELSE A!ReadWord(words, n + 1, f[n])]
    <2>2. ASSUME NEW k \in 0..(n + 1)
          PROVE  g[k] = IF k = 0 THEN [next |-> 1, i |-> A!Blank] ELSE A!ReadWord(words, k, g[k - 1])
        <3>1. CASE k = 0
            BY <3>1, <2>1 DEF ReadsTo
        <3>2. CASE k \in 1..n
            <4>1. k \in 0..n /\ k - 1 \in 0..n /\ k - 1 \in 0..(n + 1) /\ k # 0
                BY <3>2
            <4>2. f[k] = A!ReadWord(words, k, f[k - 1])
                BY <4>1, <2>1 DEF ReadsTo
            <4>3. g[k] = f[k] /\ g[k - 1] = f[k - 1]
                BY <4>1
            <4>. QED BY <4>1, <4>2, <4>3
        <3>3. CASE k = n + 1
            <4>1. g[k] = A!ReadWord(words, n + 1, f[n]) /\ g[k - 1] = f[n] /\ k # 0
                BY <3>3
            <4>. QED BY <4>1, <3>3
        <3>. QED BY <3>1, <3>2, <3>3
    <2>3. g = [k \in 0..(n + 1) |-> g[k]]
        OBVIOUS
    <2>. HIDE DEF g
    <2>4. ReadsTo(g, words, n + 1)
        BY <2>2, <2>3 DEF ReadsTo
    <2>. QED BY <2>4
<1>3. \A n \in Nat : n \in D
    BY <1>1, <1>2, CountingUp
<1>. QED BY <1>3

\* A function sets what the first n pairs of an option say, one by one.
SetsPairs(f, pairs, from, n) == f = [k \in 0..n |-> IF k = 0 THEN from ELSE A!Option(f[k - 1], pairs[k])]

\* There is one for every number of pairs.
LEMMA PortOptionsExists ==
    ASSUME NEW pairs, NEW from
    PROVE  \A n \in Nat : \E f : SetsPairs(f, pairs, from, n)
<1>. DEFINE D == {n \in Nat : \E f : SetsPairs(f, pairs, from, n)}
<1>1. 0 \in D
    <2>. DEFINE f == [k \in 0..0 |-> from]
    <2>1. SetsPairs(f, pairs, from, 0)
        BY DEF SetsPairs
    <2>. QED BY <2>1
<1>2. ASSUME NEW n \in Nat, n \in D PROVE n + 1 \in D
    <2>1. PICK f : SetsPairs(f, pairs, from, n)
        BY <1>2
    <2>. DEFINE g == [k \in 0..(n + 1) |-> IF k <= n THEN f[k] ELSE A!Option(f[n], pairs[n + 1])]
    <2>2. ASSUME NEW k \in 0..(n + 1)
          PROVE  g[k] = IF k = 0 THEN from ELSE A!Option(g[k - 1], pairs[k])
        <3>1. CASE k = 0
            BY <3>1, <2>1 DEF SetsPairs
        <3>2. CASE k \in 1..n
            <4>1. k \in 0..n /\ k - 1 \in 0..n /\ k - 1 \in 0..(n + 1) /\ k # 0
                BY <3>2
            <4>2. f[k] = A!Option(f[k - 1], pairs[k])
                BY <4>1, <2>1 DEF SetsPairs
            <4>3. g[k] = f[k] /\ g[k - 1] = f[k - 1]
                BY <4>1
            <4>. QED BY <4>1, <4>2, <4>3
        <3>3. CASE k = n + 1
            <4>1. g[k] = A!Option(f[n], pairs[n + 1]) /\ g[k - 1] = f[n] /\ k # 0
                BY <3>3
            <4>. QED BY <4>1, <3>3
        <3>. QED BY <3>1, <3>2, <3>3
    <2>3. g = [k \in 0..(n + 1) |-> g[k]]
        OBVIOUS
    <2>. HIDE DEF g
    <2>4. SetsPairs(g, pairs, from, n + 1)
        BY <2>2, <2>3 DEF SetsPairs
    <2>. QED BY <2>4
<1>3. \A n \in Nat : n \in D
    BY <1>1, <1>2, CountingUp
<1>. QED BY <1>3

\* A function sets what the first n options of a line say, one by one.
SetsOptions(f, opts, from, n) == f = [k \in 0..n |-> IF k = 0 THEN from ELSE A!Optional(f[k - 1], opts[k])]

\* There is one for every number of options.
LEMMA OptionsExists ==
    ASSUME NEW opts, NEW from
    PROVE  \A n \in Nat : \E f : SetsOptions(f, opts, from, n)
<1>. DEFINE D == {n \in Nat : \E f : SetsOptions(f, opts, from, n)}
<1>1. 0 \in D
    <2>. DEFINE f == [k \in 0..0 |-> from]
    <2>1. SetsOptions(f, opts, from, 0)
        BY DEF SetsOptions
    <2>. QED BY <2>1
<1>2. ASSUME NEW n \in Nat, n \in D PROVE n + 1 \in D
    <2>1. PICK f : SetsOptions(f, opts, from, n)
        BY <1>2
    <2>. DEFINE g == [k \in 0..(n + 1) |-> IF k <= n THEN f[k] ELSE A!Optional(f[n], opts[n + 1])]
    <2>2. ASSUME NEW k \in 0..(n + 1)
          PROVE  g[k] = IF k = 0 THEN from ELSE A!Optional(g[k - 1], opts[k])
        <3>1. CASE k = 0
            BY <3>1, <2>1 DEF SetsOptions
        <3>2. CASE k \in 1..n
            <4>1. k \in 0..n /\ k - 1 \in 0..n /\ k - 1 \in 0..(n + 1) /\ k # 0
                BY <3>2
            <4>2. f[k] = A!Optional(f[k - 1], opts[k])
                BY <4>1, <2>1 DEF SetsOptions
            <4>3. g[k] = f[k] /\ g[k - 1] = f[k - 1]
                BY <4>1
            <4>. QED BY <4>1, <4>2, <4>3
        <3>3. CASE k = n + 1
            <4>1. g[k] = A!Optional(f[n], opts[n + 1]) /\ g[k - 1] = f[n] /\ k # 0
                BY <3>3
            <4>. QED BY <4>1, <3>3
        <3>. QED BY <3>1, <3>2, <3>3
    <2>3. g = [k \in 0..(n + 1) |-> g[k]]
        OBVIOUS
    <2>. HIDE DEF g
    <2>4. SetsOptions(g, opts, from, n + 1)
        BY <2>2, <2>3 DEF SetsOptions
    <2>. QED BY <2>4
<1>3. \A n \in Nat : n \in D
    BY <1>1, <1>2, CountingUp
<1>. QED BY <1>3

\* Reading is such a function.
LEMMA ReadingStep ==
    ASSUME NEW words, Len(words) \in Nat
    PROVE  \E f : ReadsTo(f, words, Len(words)) /\ A!Reading(words) = f
<1>. DEFINE Is(f) == ReadsTo(f, words, Len(words))
<1>1. \E f : Is(f)
    BY ReadingExists
<1>2. A!Reading(words) = (CHOOSE f : Is(f))
    BY DEF A!Reading, ReadsTo
<1>. HIDE DEF Is
<1>3. Is(CHOOSE f : Is(f))
    BY <1>1
<1>. QED BY <1>2, <1>3 DEF Is

\* The pairs of an option are set by such a function.
LEMMA PortOptionsStep ==
    ASSUME NEW pairs, NEW from, Len(pairs) \in Nat
    PROVE  \E f : SetsPairs(f, pairs, from, Len(pairs)) /\ A!PortOptions(from, pairs) = f[Len(pairs)]
<1>. DEFINE Is(f) == SetsPairs(f, pairs, from, Len(pairs))
<1>1. \E f : Is(f)
    BY PortOptionsExists
<1>2. A!PortOptions(from, pairs) = (CHOOSE f : Is(f))[Len(pairs)]
    BY DEF A!PortOptions, SetsPairs
<1>. HIDE DEF Is
<1>3. Is(CHOOSE f : Is(f))
    BY <1>1
<1>. QED BY <1>2, <1>3 DEF Is

\* And so are the options of a line.
LEMMA OptionsStep ==
    ASSUME NEW opts, NEW from, Len(opts) \in Nat
    PROVE  \E f : SetsOptions(f, opts, from, Len(opts)) /\ A!Options(from, opts) = f[Len(opts)]
<1>. DEFINE Is(f) == SetsOptions(f, opts, from, Len(opts))
<1>1. \E f : Is(f)
    BY OptionsExists
<1>2. A!Options(from, opts) = (CHOOSE f : Is(f))[Len(opts)]
    BY DEF A!Options, SetsOptions
<1>. HIDE DEF Is
<1>3. Is(CHOOSE f : Is(f))
    BY <1>1
<1>. QED BY <1>2, <1>3 DEF Is

\* A flag with one value: the next flag is two words further.
LEMMA TakesTwo ==
    ASSUME NEW words, Len(words) \in Nat, NEW n \in 1..(Len(words) - 1), NEW j,
           A!Reading(words)[n - 1] = [next |-> n, i |-> j],
           A!Consumed(SubSeq(words, n, Len(words))) = 2
    PROVE  A!Reading(words)[n + 1] = [next |-> n + 2, i |-> A!ParseFlag(SubSeq(words, n, Len(words)), j)]
<1>. DEFINE f == A!Reading(words)  w == SubSeq(words, n, Len(words))
<1>1. ReadsTo(f, words, Len(words))
    BY ReadingStep
<1>. HIDE DEF f
<1>2. f[n] = A!ReadWord(words, n, f[n - 1]) /\ f[n + 1] = A!ReadWord(words, n + 1, f[n])
    <2>1. n \in 0..Len(words) /\ n + 1 \in 0..Len(words) /\ n # 0 /\ n + 1 # 0 /\ (n + 1) - 1 = n
        OBVIOUS
    <2>. QED BY <1>1, <2>1 DEF ReadsTo
<1>3. f[n] = [next |-> n + 2, i |-> A!ParseFlag(w, j)]
    BY <1>2 DEF A!ReadWord, f
<1>4. f[n + 1] = f[n]
    BY <1>2, <1>3 DEF A!ReadWord
<1>. QED BY <1>3, <1>4 DEF f

\* A flag with two values: the next flag is three words further.
LEMMA TakesThree ==
    ASSUME NEW words, Len(words) \in Nat, NEW n \in 1..(Len(words) - 2), NEW j,
           A!Reading(words)[n - 1] = [next |-> n, i |-> j],
           A!Consumed(SubSeq(words, n, Len(words))) = 3
    PROVE  A!Reading(words)[n + 2] = [next |-> n + 3, i |-> A!ParseFlag(SubSeq(words, n, Len(words)), j)]
<1>. DEFINE f == A!Reading(words)  w == SubSeq(words, n, Len(words))
<1>1. ReadsTo(f, words, Len(words))
    BY ReadingStep
<1>. HIDE DEF f
<1>2. f[n] = A!ReadWord(words, n, f[n - 1]) /\ f[n + 1] = A!ReadWord(words, n + 1, f[n])
      /\ f[n + 2] = A!ReadWord(words, n + 2, f[n + 1])
    <2>1. n \in 0..Len(words) /\ n + 1 \in 0..Len(words) /\ n # 0 /\ n + 1 # 0 /\ (n + 1) - 1 = n
          /\ n + 2 \in 0..Len(words) /\ n + 2 # 0 /\ (n + 2) - 1 = n + 1
        OBVIOUS
    <2>. QED BY <1>1, <2>1 DEF ReadsTo
<1>3. f[n] = [next |-> n + 3, i |-> A!ParseFlag(w, j)]
    BY <1>2 DEF A!ReadWord, f
<1>4. f[n + 1] = f[n]
    BY <1>2, <1>3 DEF A!ReadWord
<1>5. f[n + 2] = f[n]
    BY <1>2, <1>3, <1>4 DEF A!ReadWord
<1>. QED BY <1>3, <1>5 DEF f

(***************************************************************************)
(* Parsing an instruction, flag after flag.                                 *)
(***************************************************************************)

\* n is the place of the next flag, and j what the flags before it say.
At(words, n, j) == A!Reading(words)[n - 1] = [next |-> n, i |-> j]

\* No flag is read at the start.
LEMMA AtStart ==
    ASSUME NEW words, Len(words) \in Nat
    PROVE  At(words, 1, A!Blank)
<1>1. PICK f : ReadsTo(f, words, Len(words)) /\ A!Reading(words) = f
    BY ReadingStep
<1>2. f[0] = [next |-> 1, i |-> A!Blank]
    BY <1>1 DEF ReadsTo
<1>. QED BY <1>1, <1>2 DEF At

\* What an instruction says at its end, in the table of filters unless it names another.
LEMMA AtEnd ==
    ASSUME NEW words, Len(words) \in Nat, NEW j, At(words, Len(words) + 1, j)
    PROVE  A!ParseInstruction(words) = IF j.table = A!Unset THEN [j EXCEPT !.table = "filter"] ELSE j
<1>1. (Len(words) + 1) - 1 = Len(words)
    OBVIOUS
<1>2. A!Reading(words)[Len(words)].i = j
    BY <1>1 DEF At
<1>. QED BY <1>2 DEF A!ParseInstruction

\* The words from a flag on.
LEMMA FromFlag ==
    ASSUME NEW words, Len(words) \in Nat, NEW n \in 1..Len(words)
    PROVE  LET w == SubSeq(words, n, Len(words)) IN
           /\ w[1] = words[n]
           /\ n + 1 <= Len(words) => w[2] = words[n + 1]
           /\ n + 2 <= Len(words) => w[3] = words[n + 2]
<1>. DEFINE w == SubSeq(words, n, Len(words))
<1>1. w = [i \in 1..(1 + Len(words) - n) |-> words[i + n - 1]]
    OBVIOUS
<1>2. w[1] = words[1 + n - 1] /\ (n + 1 <= Len(words) => w[2] = words[2 + n - 1])
      /\ (n + 2 <= Len(words) => w[3] = words[3 + n - 1])
    BY <1>1
<1>3. 1 + n - 1 = n /\ 2 + n - 1 = n + 1 /\ 3 + n - 1 = n + 2
    OBVIOUS
<1>. QED BY <1>2, <1>3

\* The flags whose value goes to a field.
FieldFlags == {"-t", "-j", "-p", "-i", "-o", "-s", "-d", "--sport", "--dport"}

\* Which field each of these flags is about.
LEMMA FieldsAre ==
    /\ DOMAIN A!FieldOf = FieldFlags
    /\ A!FieldOf["-t"] = "table"
    /\ A!FieldOf["-j"] = "target"
    /\ A!FieldOf["-p"] = "protocol"
    /\ A!FieldOf["-i"] = "in"
    /\ A!FieldOf["-o"] = "out"
    /\ A!FieldOf["-s"] = "source"
    /\ A!FieldOf["-d"] = "destination"
    /\ A!FieldOf["--sport"] = "sourcePort"
    /\ A!FieldOf["--dport"] = "destinationPort"
<1>1. DOMAIN A!FieldOf = FieldFlags
    BY DEF A!FieldOf, FieldFlags
<1>2. A!FieldOf["-t"] = "table"
    BY DEF A!FieldOf
<1>3. A!FieldOf["-j"] = "target"
    BY DEF A!FieldOf
<1>4. A!FieldOf["-p"] = "protocol"
    BY DEF A!FieldOf
<1>5. A!FieldOf["-i"] = "in"
    BY DEF A!FieldOf
<1>6. A!FieldOf["-o"] = "out"
    BY DEF A!FieldOf
<1>7. A!FieldOf["-s"] = "source"
    BY DEF A!FieldOf
<1>8. A!FieldOf["-d"] = "destination"
    BY DEF A!FieldOf
<1>9. A!FieldOf["--sport"] = "sourcePort"
    BY DEF A!FieldOf
<1>10. A!FieldOf["--dport"] = "destinationPort"
    BY DEF A!FieldOf
<1>. QED BY <1>1, <1>2, <1>3, <1>4, <1>5, <1>6, <1>7, <1>8, <1>9, <1>10

\* What a flag with one value does: next is where the next flag is.
LEMMA TakesValue ==
    ASSUME NEW words, Len(words) \in Nat, NEW n \in 1..(Len(words) - 1), NEW j, At(words, n, j),
           NEW i, A!ParseFlag(SubSeq(words, n, Len(words)), j) = i, A!Consumed(SubSeq(words, n, Len(words))) = 2
    PROVE  At(words, n + 2, i)
<1>1. A!Reading(words)[n + 1] = [next |-> n + 2, i |-> i]
    BY TakesTwo DEF At
<1>2. (n + 2) - 1 = n + 1
    OBVIOUS
<1>. QED BY <1>1, <1>2 DEF At

\* And one with two values.
LEMMA TakesValues ==
    ASSUME NEW words, Len(words) \in Nat, NEW n \in 1..(Len(words) - 2), NEW j, At(words, n, j),
           NEW i, A!ParseFlag(SubSeq(words, n, Len(words)), j) = i, A!Consumed(SubSeq(words, n, Len(words))) = 3
    PROVE  At(words, n + 3, i)
<1>1. A!Reading(words)[n + 2] = [next |-> n + 3, i |-> i]
    BY TakesThree DEF At
<1>2. (n + 3) - 1 = n + 2
    OBVIOUS
<1>. QED BY <1>1, <1>2 DEF At

\* A flag whose value goes to a field.
LEMMA TakesField ==
    ASSUME NEW words, Len(words) \in Nat, NEW n \in 1..(Len(words) - 1), NEW j, At(words, n, j),
           NEW flag \in FieldFlags, NEW v, words[n] = flag, words[n + 1] = v, NEW next, next = n + 2
    PROVE  At(words, next, [j EXCEPT ![A!FieldOf[flag]] = v])
<1>. DEFINE w == SubSeq(words, n, Len(words))
<1>1. w[1] = flag /\ w[2] = v
    BY FromFlag
<1>. HIDE DEF w
<1>2. A!Consumed(w) = 2
    BY <1>1 DEF A!Consumed, FieldFlags
<1>3. A!ParseFlag(w, j) = [j EXCEPT ![A!FieldOf[flag]] = v]
    <2>1. w[1] \in DOMAIN A!FieldOf
        BY <1>1, FieldsAre
    <2>2. ~ (w[1] \in {"--append", "--delete"}) /\ w[1] # "--ctstate" /\ w[1] # "--to-ports"
          /\ w[1] # "--tcp-flags" /\ w[1] # "--mark" /\ w[1] # "-m"
        BY <1>1 DEF FieldFlags
    <2>3. A!ParseFlag(w, j) = [j EXCEPT ![A!FieldOf[w[1]]] = w[2]]
        BY <2>1, <2>2 DEF A!ParseFlag
    <2>. QED BY <2>3, <1>1
<1>. QED BY <1>2, <1>3, TakesValue DEF w

\* The verb of a deletion, and the chain after it.
LEMMA TakesDeleted ==
    ASSUME NEW words, Len(words) \in Nat, NEW n \in 1..(Len(words) - 1), NEW j, At(words, n, j),
           NEW v, words[n] = "--delete", words[n + 1] = v, NEW next, next = n + 2
    PROVE  At(words, next, [j EXCEPT !.append = FALSE, !.chain = v])
<1>. DEFINE w == SubSeq(words, n, Len(words))
<1>1. w[1] = "--delete" /\ w[2] = v
    BY FromFlag
<1>. HIDE DEF w
<1>2. A!Consumed(w) = 2
    BY <1>1 DEF A!Consumed
<1>3. A!ParseFlag(w, j) = [j EXCEPT !.append = FALSE, !.chain = v]
    BY <1>1, FieldsAre DEF A!ParseFlag, FieldFlags
<1>. QED BY <1>2, <1>3, TakesValue DEF w

\* A protocol as a module: it says nothing more.
LEMMA TakesModule ==
    ASSUME NEW words, Len(words) \in Nat, NEW n \in 1..(Len(words) - 1), NEW j, At(words, n, j),
           NEW v, words[n] = "-m", words[n + 1] = v, v \in {"tcp", "udp"}, NEW next, next = n + 2
    PROVE  At(words, next, j)
<1>. DEFINE w == SubSeq(words, n, Len(words))
<1>1. w[1] = "-m" /\ w[2] = v
    BY FromFlag
<1>. HIDE DEF w
<1>2. A!Consumed(w) = 2
    BY <1>1 DEF A!Consumed
<1>3. A!ParseFlag(w, j) = j
    BY <1>1, FieldsAre DEF A!ParseFlag, FieldFlags
<1>. QED BY <1>2, <1>3, TakesValue DEF w

\* The ports a redirection leads to.
LEMMA TakesToPorts ==
    ASSUME NEW words, Len(words) \in Nat, NEW n \in 1..(Len(words) - 1), NEW j, At(words, n, j),
           NEW v, words[n] = "--to-ports", words[n + 1] = v, NEW next, next = n + 2
    PROVE  At(words, next, [j EXCEPT !.toPorts = <<v>>])
<1>. DEFINE w == SubSeq(words, n, Len(words))
<1>1. w[1] = "--to-ports" /\ w[2] = v
    BY FromFlag
<1>. HIDE DEF w
<1>2. A!Consumed(w) = 2
    BY <1>1 DEF A!Consumed
<1>3. A!ParseFlag(w, j) = [j EXCEPT !.toPorts = <<v>>]
    BY <1>1, FieldsAre DEF A!ParseFlag, FieldFlags
<1>. QED BY <1>2, <1>3, TakesValue DEF w

\* The value of a mark.
LEMMA TakesMark ==
    ASSUME NEW words, Len(words) \in Nat, NEW n \in 1..(Len(words) - 1), NEW j, At(words, n, j),
           NEW v, words[n] = "--mark", words[n + 1] = v, NEW next, next = n + 2
    PROVE  At(words, next, [j EXCEPT !.mark.value = v])
<1>. DEFINE w == SubSeq(words, n, Len(words))
<1>1. w[1] = "--mark" /\ w[2] = v
    BY FromFlag
<1>. HIDE DEF w
<1>2. A!Consumed(w) = 2
    BY <1>1 DEF A!Consumed
<1>3. A!ParseFlag(w, j) = [j EXCEPT !.mark.value = v]
    BY <1>1, FieldsAre DEF A!ParseFlag, FieldFlags
<1>. QED BY <1>2, <1>3, TakesValue DEF w

\* The flags of TCP, two values.
LEMMA TakesFlags ==
    ASSUME NEW words, Len(words) \in Nat, NEW n \in 1..(Len(words) - 2), NEW j, At(words, n, j),
           NEW v, NEW u, words[n] = "--tcp-flags", words[n + 1] = v, words[n + 2] = u, NEW next, next = n + 3
    PROVE  At(words, next, [j EXCEPT !.tcpFlags = <<v, u>>])
<1>. DEFINE w == SubSeq(words, n, Len(words))
<1>1. w[1] = "--tcp-flags" /\ w[2] = v /\ w[3] = u
    BY FromFlag
<1>. HIDE DEF w
<1>2. A!Consumed(w) = 3
    BY <1>1 DEF A!Consumed
<1>3. A!ParseFlag(w, j) = [j EXCEPT !.tcpFlags = <<v, u>>]
    BY <1>1, FieldsAre DEF A!ParseFlag, FieldFlags
<1>. QED BY <1>2, <1>3, TakesValues DEF w

\* A mark a packet must not have.
LEMMA TakesInverted ==
    ASSUME NEW words, Len(words) \in Nat, NEW n \in 1..(Len(words) - 2), NEW j, At(words, n, j),
           NEW v, NEW u, words[n] = "-m", words[n + 1] = v, words[n + 2] = u, v = "mark", u = "!", NEW next,
                 next = n + 3
    PROVE  At(words, next, [j EXCEPT !.mark.invert = TRUE])
<1>. DEFINE w == SubSeq(words, n, Len(words))
<1>1. w[1] = "-m" /\ w[2] = v /\ w[3] = u
    BY FromFlag
<1>. HIDE DEF w
<1>2. A!Consumed(w) = 3
    BY <1>1 DEF A!Consumed
<1>3. A!ParseFlag(w, j) = [j EXCEPT !.mark.invert = TRUE]
    BY <1>1, FieldsAre DEF A!ParseFlag, FieldFlags
<1>. QED BY <1>2, <1>3, TakesValues DEF w

(***************************************************************************)
(* What a rule is about, in an instruction and in a line.                   *)
(***************************************************************************)

\* What a rule is about, unset for what it does not ask: the form in which instructions and lines are compared.
NoFields == [table |-> "filter", chain |-> A!Unset, target |-> A!Unset, protocol |-> A!Unset,
             in |-> A!Unset, out |-> A!Unset, source |-> A!Unset, destination |-> A!Unset, sport |-> A!Unset,
             dport |-> A!Unset, to |-> A!Unset, flags |-> A!Unset, mark |-> A!Unset]
Or(x, unset) == IF x = A!Unset THEN unset ELSE x
One(x) == IF x = A!Unset THEN <<>> ELSE <<x>>
FlagsOf(x) == IF x = A!Unset THEN <<>> ELSE <<"RST", "RST">>
MarkOf(x) == IF x = A!Unset THEN A!NoMark ELSE [invert |-> TRUE, value |-> x]

\* An instruction that is parsed says these.
Says(i, F) ==
    /\ i.ok /\ i.table = F.table /\ i.chain = F.chain /\ i.target = F.target /\ i.protocol = F.protocol
    /\ i.in = F.in /\ i.out = F.out
    /\ i.source = Or(F.source, A!NoPrefix) /\ i.destination = Or(F.destination, A!NoPrefix)
    /\ i.sourcePort = Or(F.sport, "0") /\ i.destinationPort = Or(F.dport, "0")
    /\ i.toPorts = One(F.to) /\ i.ctstate = <<>> /\ i.tcpFlags = FlagsOf(F.flags) /\ i.mark = MarkOf(F.mark)

\* The line of a rule, as it is parsed, shows these.
ShowsThese(r, F) ==
    /\ r.target = F.target /\ r.protocol = F.protocol
    /\ r.in = Or(F.in, "*") /\ r.out = Or(F.out, "*")
    /\ r.source = Or(F.source, A!AnyPrefix) /\ r.destination = Or(F.destination, A!AnyPrefix)
    /\ r.sourcePort = Or(F.sport, "0") /\ r.destinationPort = Or(F.dport, "0")
    /\ r.redirPorts = One(F.to) /\ r.ctstate = <<>> /\ r.tcpFlags = FlagsOf(F.flags) /\ r.mark = MarkOf(F.mark)

\* iptables reads these in an instruction.
Reads(words, F) ==
    /\ A!Table(words) = F.table /\ A!Chain(words) = F.chain /\ A!Word(words, "-j", A!Unset) = F.target
    /\ A!Word(words, "-p", "all") = Or(F.protocol, "all")
    /\ A!Word(words, "-i", "*") = Or(F.in, "*") /\ A!Word(words, "-o", "*") = Or(F.out, "*")
    /\ A!Word(words, "-s", A!AnyPrefix) = Or(F.source, A!AnyPrefix)
    /\ A!Word(words, "-d", A!AnyPrefix) = Or(F.destination, A!AnyPrefix)
    /\ A!Word(words, "--sport", A!Unset) = F.sport /\ A!Word(words, "--sport", "0") = Or(F.sport, "0")
    /\ A!Word(words, "--dport", A!Unset) = F.dport /\ A!Word(words, "--dport", "0") = Or(F.dport, "0")
    /\ A!Word(words, "--tcp-flags", A!Unset) = F.flags
    /\ A!Word(words, "--mark", A!Unset) = F.mark /\ A!Word(words, "--mark", "0") = Or(F.mark, "0")
    /\ A!Word(words, "--to-ports", A!Unset) = F.to /\ A!Word(words, "--to-ports", "0") = Or(F.to, "0")

\* The words that are flags, or stand for nothing: no interface, address or port is one.
Flags == FieldFlags \cup {"--append", "--delete", "-m", "--ctstate", "--to-ports", "--mark", "--tcp-flags"}
Reserved == Flags \cup {A!Unset, "*", "0", "all", "filter", A!NoPrefix, A!AnyPrefix}

\* A flag is at one place of an instruction, before its value; or it is not there.
Only(words, flag, k) ==
    k \in 1..(Len(words) - 1) /\ words[k] = flag /\ \A m \in 1..(Len(words) - 1) : words[m] = flag => m = k
Without(words, flag) == \A m \in 1..(Len(words) - 1) : words[m] # flag

\* The word after the only place of a flag.
LEMMA WordThere ==
    ASSUME NEW words, Len(words) \in Nat, NEW flag, NEW k, Only(words, flag, k)
    PROVE  \A unset : A!Word(words, flag, unset) = words[k + 1]
<1>. TAKE unset
<1>. DEFINE at == {m \in 1..(Len(words) - 1) : words[m] = flag}
<1>1. A!Word(words, flag, unset) = IF at = {} THEN unset ELSE words[1 + CHOOSE m \in at : TRUE]
    BY DEF A!Word
<1>2. at = {k}
    BY DEF Only
<1>. HIDE DEF at
<1>3. (CHOOSE m \in at : TRUE) = k
    BY <1>2
<1>4. 1 + k = k + 1
    BY DEF Only
<1>. QED BY <1>1, <1>2, <1>3, <1>4

\* Without the flag, what the rule is without it.
LEMMA WordMissing ==
    ASSUME NEW words, Len(words) \in Nat, NEW flag, Without(words, flag)
    PROVE  \A unset : A!Word(words, flag, unset) = unset
<1>. TAKE unset
<1>. DEFINE at == {m \in 1..(Len(words) - 1) : words[m] = flag}
<1>1. A!Word(words, flag, unset) = IF at = {} THEN unset ELSE words[1 + CHOOSE m \in at : TRUE]
    BY DEF A!Word
<1>2. at = {}
    BY DEF Without
<1>. QED BY <1>1, <1>2

\* What is written in an instruction or a line is not what is unset.
LEMMA LiteralsAreSet ==
    /\ "tcp" # A!Unset
    /\ "udp" # A!Unset
    /\ "nat" # A!Unset
    /\ "RST" # A!Unset
    /\ "*" # A!Unset
    /\ "0" # A!Unset
    /\ "all" # A!Unset
    /\ A!NoPrefix # A!Unset
    /\ A!AnyPrefix # A!Unset
<1>1. "tcp" # A!Unset
    BY Zenon DEF A!Unset, A!NoPrefix, A!AnyPrefix
<1>2. "udp" # A!Unset
    BY Zenon DEF A!Unset, A!NoPrefix, A!AnyPrefix
<1>3. "nat" # A!Unset
    BY Zenon DEF A!Unset, A!NoPrefix, A!AnyPrefix
<1>4. "RST" # A!Unset
    BY Zenon DEF A!Unset, A!NoPrefix, A!AnyPrefix
<1>5. "*" # A!Unset
    BY Zenon DEF A!Unset, A!NoPrefix, A!AnyPrefix
<1>6. "0" # A!Unset
    BY Zenon DEF A!Unset, A!NoPrefix, A!AnyPrefix
<1>7. "all" # A!Unset
    BY Zenon DEF A!Unset, A!NoPrefix, A!AnyPrefix
<1>8. A!NoPrefix # A!Unset
    BY Zenon DEF A!Unset, A!NoPrefix, A!AnyPrefix
<1>9. A!AnyPrefix # A!Unset
    BY Zenon DEF A!Unset, A!NoPrefix, A!AnyPrefix
<1>. QED BY <1>1, <1>2, <1>3, <1>4, <1>5, <1>6, <1>7, <1>8, <1>9

(***************************************************************************)
(* The kinds of rules: how each is parsed and what iptables reads in it.    *)
(***************************************************************************)

\* The words of the rule for all that goes out through an interface, and what it is about.
ThroughWords(verb, intf) ==
    <<verb, "OUTPUT", "-o", intf, "-j", "ACCEPT">>
ThroughFields(intf) ==
    [NoFields EXCEPT !.chain = "OUTPUT", !.out = intf, !.target = "ACCEPT"]

\* The words of the rule for what goes to the VPN server, and what it is about.
ToVPNWords(verb, intf, ip, protocol, port) ==
    <<verb, "OUTPUT", "-d", ip, "-o", intf, "-p", protocol, "-m", protocol, "--dport", port, "-j",
      "ACCEPT">>
ToVPNFields(intf, ip, protocol, port) ==
    [NoFields EXCEPT !.chain = "OUTPUT", !.destination = ip, !.out = intf, !.protocol = protocol,
      !.dport = port, !.target = "ACCEPT"]

\* The words of the rule for what goes to a subnet through an interface, and what it is about.
SubnetOfWords(verb, intf, ip, subnet) ==
    <<verb, "OUTPUT", "-o", intf, "-s", ip, "-d", subnet, "-j", "ACCEPT">>
SubnetOfFields(intf, ip, subnet) ==
    [NoFields EXCEPT !.chain = "OUTPUT", !.out = intf, !.source = ip, !.destination = subnet,
      !.target = "ACCEPT"]

\* The words of the rule for what goes to a subnet through any interface, and what it is about.
SubnetAnyWords(verb, ip, subnet) ==
    <<verb, "OUTPUT", "-s", ip, "-d", subnet, "-j", "ACCEPT">>
SubnetAnyFields(ip, subnet) ==
    [NoFields EXCEPT !.chain = "OUTPUT", !.source = ip, !.destination = subnet, !.target = "ACCEPT"]

\* The words of the rule for what comes to a port through an interface, and what it is about.
PortOfWords(verb, intf, protocol, port) ==
    <<verb, "INPUT", "-i", intf, "-p", protocol, "-m", protocol, "--dport", port, "-j", "ACCEPT">>
PortOfFields(intf, protocol, port) ==
    [NoFields EXCEPT !.chain = "INPUT", !.in = intf, !.protocol = protocol, !.dport = port,
      !.target = "ACCEPT"]

\* The words of the rule for what comes to a port through any interface, and what it is about.
PortAnyWords(verb, protocol, port) ==
    <<verb, "INPUT", "-p", protocol, "-m", protocol, "--dport", port, "-j", "ACCEPT">>
PortAnyFields(protocol, port) ==
    [NoFields EXCEPT !.chain = "INPUT", !.protocol = protocol, !.dport = port, !.target = "ACCEPT"]

\* The words of the rule for a redirection of an interface, and what it is about.
RedirectOfWords(verb, intf, protocol, port, to) ==
    <<"-t", "nat", verb, "PREROUTING", "-i", intf, "-p", protocol, "--dport", port, "-j", "REDIRECT",
      "--to-ports", to>>
RedirectOfFields(intf, protocol, port, to) ==
    [NoFields EXCEPT !.table = "nat", !.chain = "PREROUTING", !.in = intf, !.protocol = protocol,
      !.dport = port, !.target = "REDIRECT", !.to = to]

\* The words of the rule for a redirection of any interface, and what it is about.
RedirectAnyWords(verb, protocol, port, to) ==
    <<"-t", "nat", verb, "PREROUTING", "-p", protocol, "--dport", port, "-j", "REDIRECT", "--to-ports",
      to>>
RedirectAnyFields(protocol, port, to) ==
    [NoFields EXCEPT !.table = "nat", !.chain = "PREROUTING", !.protocol = protocol, !.dport = port,
      !.target = "REDIRECT", !.to = to]

\* The words of the rule for the resets of a connection, and what it is about.
ResetWords(verb, ip, sport, peer, port, mark) ==
    <<verb, "OUTPUT", "-p", "tcp", "-s", ip, "--sport", sport, "-d", peer, "--dport", port, "--tcp-flags",
      "RST", "RST", "-m", "mark", "!", "--mark", mark, "-j", "DROP">>
ResetFields(ip, sport, peer, port, mark) ==
    [NoFields EXCEPT !.chain = "OUTPUT", !.protocol = "tcp", !.source = ip, !.sport = sport,
      !.destination = peer, !.dport = port, !.flags = "RST", !.mark = mark, !.target = "DROP"]

\* The words of the rule for what comes to a subnet through an interface, and what it is about.
SubnetInOfWords(verb, intf, subnet) ==
    <<verb, "INPUT", "-i", intf, "-d", subnet, "-j", "ACCEPT">>
SubnetInOfFields(intf, subnet) ==
    [NoFields EXCEPT !.chain = "INPUT", !.in = intf, !.destination = subnet, !.target = "ACCEPT"]

\* The words of the rule for what comes to a subnet through any interface, and what it is about.
SubnetInAnyWords(verb, subnet) ==
    <<verb, "INPUT", "-d", subnet, "-j", "ACCEPT">>
SubnetInAnyFields(subnet) ==
    [NoFields EXCEPT !.chain = "INPUT", !.destination = subnet, !.target = "ACCEPT"]

\* How the instruction that deletes the rule for all that goes out through an interface is parsed.
LEMMA ThroughParsed ==
    ASSUME NEW intf, intf \notin Reserved
    PROVE  Says(A!ParseInstruction(ThroughWords("--delete", intf)), ThroughFields(intf))
<1>. DEFINE w == ThroughWords("--delete", intf)
            j1 == [A!Blank EXCEPT !.append = FALSE, !.chain = "OUTPUT"]
            j2 == [j1 EXCEPT !.out = intf]
            j3 == [j2 EXCEPT !.target = "ACCEPT"]
            i == A!ParseInstruction(w)
            F == ThroughFields(intf)
<1>1. Len(w) = 6 /\ Len(w) \in Nat /\ w[1] = "--delete" /\ w[2] = "OUTPUT" /\ w[3] = "-o" /\ w[4] = intf
      /\ w[5] = "-j" /\ w[6] = "ACCEPT"
    BY DEF ThroughWords
<1>. HIDE DEF w, j1, j2, j3, i
<1>2. At(w, 1, A!Blank)
    BY <1>1, AtStart
<1>3. At(w, 3, j1)
    <2>1. 1 \in 1..(Len(w) - 1) /\ w[1] = "--delete" /\ w[1 + 1] = "OUTPUT" /\ 3 = 1 + 2
        BY <1>1
    <2>. QED BY <1>1, <1>2, <2>1, TakesDeleted, Zenon DEF j1
<1>4. At(w, 5, j2)
    <2>1. 3 \in 1..(Len(w) - 1) /\ w[3] = "-o" /\ w[3 + 1] = intf /\ 5 = 3 + 2 /\ "-o" \in FieldFlags
        BY <1>1 DEF FieldFlags
    <2>2. At(w, 5, [j1 EXCEPT ![A!FieldOf["-o"]] = intf])
        BY <1>1, <1>3, <2>1, TakesField, Zenon
    <2>. QED BY <2>2, FieldsAre DEF j2
<1>5. At(w, 7, j3)
    <2>1. 5 \in 1..(Len(w) - 1) /\ w[5] = "-j" /\ w[5 + 1] = "ACCEPT" /\ 7 = 5 + 2 /\ "-j" \in FieldFlags
        BY <1>1 DEF FieldFlags
    <2>2. At(w, 7, [j2 EXCEPT ![A!FieldOf["-j"]] = "ACCEPT"])
        BY <1>1, <1>4, <2>1, TakesField, Zenon
    <2>. QED BY <2>2, FieldsAre DEF j3
<1>6. i = IF j3.table = A!Unset THEN [j3 EXCEPT !.table = "filter"] ELSE j3
    <2>1. 7 = Len(w) + 1
        BY <1>1
    <2>. QED BY <1>1, <1>5, <2>1, AtEnd DEF i
<1>7. j3.table = A!Unset
    BY DEF j1, j2, j3, A!Blank, A!NoMark
<1>8. i = [j3 EXCEPT !.table = "filter"]
    BY <1>6, <1>7, LiteralsAreSet
<1>9. i.ok = TRUE /\ i.chain = "OUTPUT" /\ i.target = "ACCEPT" /\ i.protocol = A!Unset /\ i.in = A!Unset
      /\ i.out = intf /\ i.source = A!NoPrefix /\ i.destination = A!NoPrefix /\ i.sourcePort = "0"
      /\ i.destinationPort = "0" /\ i.toPorts = <<>> /\ i.ctstate = <<>> /\ i.tcpFlags = <<>>
      /\ i.mark = A!NoMark /\ i.table = "filter"
    BY <1>8 DEF j1, j2, j3, A!Blank, A!NoMark
<1>10. F.table = "filter" /\ F.chain = "OUTPUT" /\ F.target = "ACCEPT" /\ F.protocol = A!Unset
      /\ F.in = A!Unset /\ F.out = intf /\ F.source = A!Unset /\ F.destination = A!Unset
      /\ F.sport = A!Unset /\ F.dport = A!Unset /\ F.to = A!Unset /\ F.flags = A!Unset /\ F.mark = A!Unset
    BY DEF ThroughFields, NoFields
<1>. HIDE DEF F
<1>11. intf # A!Unset
    BY DEF Reserved
<1>12. Says(i, F)
    BY <1>9, <1>10, <1>11, LiteralsAreSet DEF Says, Or, One, FlagsOf, MarkOf
<1>. QED BY <1>12 DEF w, i, F

\* What iptables reads in the instruction that adds it.
LEMMA ThroughRead ==
    ASSUME NEW intf, intf \notin Reserved
    PROVE  Reads(ThroughWords("--append", intf), ThroughFields(intf))
<1>. DEFINE w == ThroughWords("--append", intf)  F == ThroughFields(intf)
<1>1. Len(w) = 6 /\ Len(w) \in Nat /\ w[1] = "--append" /\ w[2] = "OUTPUT" /\ w[3] = "-o" /\ w[4] = intf
      /\ w[5] = "-j" /\ w[6] = "ACCEPT"
    BY DEF ThroughWords
<1>. HIDE DEF w
<1>2. \A m \in 1..(Len(w) - 1) : m = 1 \/ m = 2 \/ m = 3 \/ m = 4 \/ m = 5
    BY <1>1
<1>3. intf # "--append" /\ intf # "--delete" /\ intf # "-t" /\ intf # "-j" /\ intf # "-p" /\ intf # "-i"
      /\ intf # "-o" /\ intf # "-s" /\ intf # "-d" /\ intf # "--sport" /\ intf # "--dport"
      /\ intf # "--tcp-flags" /\ intf # "--mark" /\ intf # "--to-ports"
    BY DEF Reserved, Flags, FieldFlags
<1>4. Only(w, "--append", 1) /\ Only(w, "-j", 5) /\ Only(w, "-o", 3)
    BY <1>1, <1>2, <1>3 DEF Only
<1>5. Without(w, "--delete") /\ Without(w, "-t") /\ Without(w, "-p") /\ Without(w, "-i") /\ Without(w, "-s")
      /\ Without(w, "-d") /\ Without(w, "--sport") /\ Without(w, "--dport") /\ Without(w, "--tcp-flags")
      /\ Without(w, "--mark") /\ Without(w, "--to-ports")
    BY <1>1, <1>2, <1>3 DEF Without
<1>6. \A unset : A!Word(w, "--append", unset) = "OUTPUT" /\ A!Word(w, "-j", unset) = "ACCEPT" /\ A!Word(w,
                "-o", unset) = intf
    BY <1>1, <1>4, WordThere
<1>7. \A unset : A!Word(w, "--delete", unset) = unset /\ A!Word(w, "-t", unset) = unset /\ A!Word(w, "-p",
                unset) = unset /\ A!Word(w, "-i", unset) = unset /\ A!Word(w, "-s", unset) = unset
                /\ A!Word(w, "-d", unset) = unset /\ A!Word(w, "--sport", unset) = unset /\ A!Word(w,
                "--dport", unset) = unset /\ A!Word(w, "--tcp-flags", unset) = unset /\ A!Word(w, "--mark",
                unset) = unset /\ A!Word(w, "--to-ports", unset) = unset
    BY <1>1, <1>5, WordMissing
<1>8. F.table = "filter" /\ F.chain = "OUTPUT" /\ F.target = "ACCEPT" /\ F.protocol = A!Unset
      /\ F.in = A!Unset /\ F.out = intf /\ F.source = A!Unset /\ F.destination = A!Unset
      /\ F.sport = A!Unset /\ F.dport = A!Unset /\ F.to = A!Unset /\ F.flags = A!Unset /\ F.mark = A!Unset
    BY DEF ThroughFields, NoFields
<1>. HIDE DEF F
<1>9. intf # A!Unset
    BY DEF Reserved
<1>10. Reads(w, F)
    BY <1>6, <1>7, <1>8, <1>9, LiteralsAreSet DEF Reads, Or, A!Table, A!Chain
<1>. QED BY <1>10 DEF w, F

\* How the instruction that deletes the rule for what goes to the VPN server is parsed.
LEMMA ToVPNParsed ==
    ASSUME NEW intf, NEW ip, NEW protocol, NEW port, intf \notin Reserved, ip \notin Reserved,
           port \notin Reserved, protocol \in {"tcp", "udp"}
    PROVE  Says(A!ParseInstruction(ToVPNWords("--delete", intf, ip, protocol, port)), ToVPNFields(intf, ip,
           protocol, port))
<1>. DEFINE w == ToVPNWords("--delete", intf, ip, protocol, port)
            j1 == [A!Blank EXCEPT !.append = FALSE, !.chain = "OUTPUT"]
            j2 == [j1 EXCEPT !.destination = ip]
            j3 == [j2 EXCEPT !.out = intf]
            j4 == [j3 EXCEPT !.protocol = protocol]
            j5 == [j4 EXCEPT !.destinationPort = port]
            j6 == [j5 EXCEPT !.target = "ACCEPT"]
            i == A!ParseInstruction(w)
            F == ToVPNFields(intf, ip, protocol, port)
<1>1. Len(w) = 14 /\ Len(w) \in Nat /\ w[1] = "--delete" /\ w[2] = "OUTPUT" /\ w[3] = "-d" /\ w[4] = ip
      /\ w[5] = "-o" /\ w[6] = intf /\ w[7] = "-p" /\ w[8] = protocol /\ w[9] = "-m" /\ w[10] = protocol
      /\ w[11] = "--dport" /\ w[12] = port /\ w[13] = "-j" /\ w[14] = "ACCEPT"
    BY DEF ToVPNWords
<1>. HIDE DEF w, j1, j2, j3, j4, j5, j6, i
<1>2. At(w, 1, A!Blank)
    BY <1>1, AtStart
<1>3. At(w, 3, j1)
    <2>1. 1 \in 1..(Len(w) - 1) /\ w[1] = "--delete" /\ w[1 + 1] = "OUTPUT" /\ 3 = 1 + 2
        BY <1>1
    <2>. QED BY <1>1, <1>2, <2>1, TakesDeleted, Zenon DEF j1
<1>4. At(w, 5, j2)
    <2>1. 3 \in 1..(Len(w) - 1) /\ w[3] = "-d" /\ w[3 + 1] = ip /\ 5 = 3 + 2 /\ "-d" \in FieldFlags
        BY <1>1 DEF FieldFlags
    <2>2. At(w, 5, [j1 EXCEPT ![A!FieldOf["-d"]] = ip])
        BY <1>1, <1>3, <2>1, TakesField, Zenon
    <2>. QED BY <2>2, FieldsAre DEF j2
<1>5. At(w, 7, j3)
    <2>1. 5 \in 1..(Len(w) - 1) /\ w[5] = "-o" /\ w[5 + 1] = intf /\ 7 = 5 + 2 /\ "-o" \in FieldFlags
        BY <1>1 DEF FieldFlags
    <2>2. At(w, 7, [j2 EXCEPT ![A!FieldOf["-o"]] = intf])
        BY <1>1, <1>4, <2>1, TakesField, Zenon
    <2>. QED BY <2>2, FieldsAre DEF j3
<1>6. At(w, 9, j4)
    <2>1. 7 \in 1..(Len(w) - 1) /\ w[7] = "-p" /\ w[7 + 1] = protocol /\ 9 = 7 + 2 /\ "-p" \in FieldFlags
        BY <1>1 DEF FieldFlags
    <2>2. At(w, 9, [j3 EXCEPT ![A!FieldOf["-p"]] = protocol])
        BY <1>1, <1>5, <2>1, TakesField, Zenon
    <2>. QED BY <2>2, FieldsAre DEF j4
<1>7. At(w, 11, j4)
    <2>1. 9 \in 1..(Len(w) - 1) /\ w[9] = "-m" /\ w[9 + 1] = protocol /\ 11 = 9 + 2
        BY <1>1
    <2>. QED BY <1>1, <1>6, <2>1, TakesModule, Zenon
<1>8. At(w, 13, j5)
    <2>1. 11 \in 1..(Len(w) - 1) /\ w[11] = "--dport" /\ w[11 + 1] = port /\ 13 = 11 + 2
          /\ "--dport" \in FieldFlags
        BY <1>1 DEF FieldFlags
    <2>2. At(w, 13, [j4 EXCEPT ![A!FieldOf["--dport"]] = port])
        BY <1>1, <1>7, <2>1, TakesField, Zenon
    <2>. QED BY <2>2, FieldsAre DEF j5
<1>9. At(w, 15, j6)
    <2>1. 13 \in 1..(Len(w) - 1) /\ w[13] = "-j" /\ w[13 + 1] = "ACCEPT" /\ 15 = 13 + 2 /\ "-j" \in FieldFlags
        BY <1>1 DEF FieldFlags
    <2>2. At(w, 15, [j5 EXCEPT ![A!FieldOf["-j"]] = "ACCEPT"])
        BY <1>1, <1>8, <2>1, TakesField, Zenon
    <2>. QED BY <2>2, FieldsAre DEF j6
<1>10. i = IF j6.table = A!Unset THEN [j6 EXCEPT !.table = "filter"] ELSE j6
    <2>1. 15 = Len(w) + 1
        BY <1>1
    <2>. QED BY <1>1, <1>9, <2>1, AtEnd DEF i
<1>11. j6.table = A!Unset
    BY DEF j1, j2, j3, j4, j5, j6, A!Blank, A!NoMark
<1>12. i = [j6 EXCEPT !.table = "filter"]
    BY <1>10, <1>11, LiteralsAreSet
<1>13. i.ok = TRUE /\ i.chain = "OUTPUT" /\ i.target = "ACCEPT" /\ i.protocol = protocol /\ i.in = A!Unset
      /\ i.out = intf /\ i.source = A!NoPrefix /\ i.destination = ip /\ i.sourcePort = "0"
      /\ i.destinationPort = port /\ i.toPorts = <<>> /\ i.ctstate = <<>> /\ i.tcpFlags = <<>>
      /\ i.mark = A!NoMark /\ i.table = "filter"
    BY <1>12 DEF j1, j2, j3, j4, j5, j6, A!Blank, A!NoMark
<1>14. F.table = "filter" /\ F.chain = "OUTPUT" /\ F.target = "ACCEPT" /\ F.protocol = protocol
      /\ F.in = A!Unset /\ F.out = intf /\ F.source = A!Unset /\ F.destination = ip /\ F.sport = A!Unset
      /\ F.dport = port /\ F.to = A!Unset /\ F.flags = A!Unset /\ F.mark = A!Unset
    BY DEF ToVPNFields, NoFields
<1>. HIDE DEF F
<1>15. intf # A!Unset
    BY DEF Reserved
<1>16. ip # A!Unset
    BY DEF Reserved
<1>17. protocol # A!Unset
    BY LiteralsAreSet
<1>18. port # A!Unset
    BY DEF Reserved
<1>19. Says(i, F)
    BY <1>13, <1>14, <1>15, <1>16, <1>17, <1>18, LiteralsAreSet DEF Says, Or, One, FlagsOf, MarkOf
<1>. QED BY <1>19 DEF w, i, F

\* What iptables reads in the instruction that adds it.
LEMMA ToVPNRead ==
    ASSUME NEW intf, NEW ip, NEW protocol, NEW port, intf \notin Reserved, ip \notin Reserved,
           port \notin Reserved, protocol \in {"tcp", "udp"}
    PROVE  Reads(ToVPNWords("--append", intf, ip, protocol, port), ToVPNFields(intf, ip, protocol, port))
<1>. DEFINE w == ToVPNWords("--append", intf, ip, protocol, port)  F == ToVPNFields(intf, ip, protocol, port)
<1>1. Len(w) = 14 /\ Len(w) \in Nat /\ w[1] = "--append" /\ w[2] = "OUTPUT" /\ w[3] = "-d" /\ w[4] = ip
      /\ w[5] = "-o" /\ w[6] = intf /\ w[7] = "-p" /\ w[8] = protocol /\ w[9] = "-m" /\ w[10] = protocol
      /\ w[11] = "--dport" /\ w[12] = port /\ w[13] = "-j" /\ w[14] = "ACCEPT"
    BY DEF ToVPNWords
<1>. HIDE DEF w
<1>2. \A m \in 1..(Len(w) - 1) : m = 1 \/ m = 2 \/ m = 3 \/ m = 4 \/ m = 5 \/ m = 6 \/ m = 7 \/ m = 8
      \/ m = 9 \/ m = 10 \/ m = 11
          \/ m = 12 \/ m = 13
    BY <1>1
<1>3. intf # "--append" /\ intf # "--delete" /\ intf # "-t" /\ intf # "-j" /\ intf # "-p" /\ intf # "-i"
      /\ intf # "-o" /\ intf # "-s" /\ intf # "-d" /\ intf # "--sport" /\ intf # "--dport"
      /\ intf # "--tcp-flags" /\ intf # "--mark" /\ intf # "--to-ports" /\ ip # "--append"
      /\ ip # "--delete" /\ ip # "-t" /\ ip # "-j" /\ ip # "-p" /\ ip # "-i" /\ ip # "-o" /\ ip # "-s"
      /\ ip # "-d" /\ ip # "--sport" /\ ip # "--dport" /\ ip # "--tcp-flags" /\ ip # "--mark"
      /\ ip # "--to-ports" /\ protocol # "--append" /\ protocol # "--delete" /\ protocol # "-t"
      /\ protocol # "-j" /\ protocol # "-p" /\ protocol # "-i" /\ protocol # "-o" /\ protocol # "-s"
      /\ protocol # "-d" /\ protocol # "--sport" /\ protocol # "--dport" /\ protocol # "--tcp-flags"
      /\ protocol # "--mark" /\ protocol # "--to-ports" /\ port # "--append" /\ port # "--delete"
      /\ port # "-t" /\ port # "-j" /\ port # "-p" /\ port # "-i" /\ port # "-o" /\ port # "-s"
      /\ port # "-d" /\ port # "--sport" /\ port # "--dport" /\ port # "--tcp-flags" /\ port # "--mark"
      /\ port # "--to-ports"
    BY DEF Reserved, Flags, FieldFlags
<1>4. Only(w, "--append", 1) /\ Only(w, "-j", 13) /\ Only(w, "-p", 7) /\ Only(w, "-o", 5) /\ Only(w, "-d",
      3) /\ Only(w, "--dport", 11)
    BY <1>1, <1>2, <1>3 DEF Only
<1>5. Without(w, "--delete") /\ Without(w, "-t") /\ Without(w, "-i") /\ Without(w, "-s") /\ Without(w,
      "--sport") /\ Without(w, "--tcp-flags") /\ Without(w, "--mark") /\ Without(w, "--to-ports")
    BY <1>1, <1>2, <1>3 DEF Without
<1>6. \A unset : A!Word(w, "--append", unset) = "OUTPUT" /\ A!Word(w, "-j", unset) = "ACCEPT" /\ A!Word(w,
                "-p", unset) = protocol /\ A!Word(w, "-o", unset) = intf /\ A!Word(w, "-d", unset) = ip
                /\ A!Word(w, "--dport", unset) = port
    BY <1>1, <1>4, WordThere
<1>7. \A unset : A!Word(w, "--delete", unset) = unset /\ A!Word(w, "-t", unset) = unset /\ A!Word(w, "-i",
                unset) = unset /\ A!Word(w, "-s", unset) = unset /\ A!Word(w, "--sport", unset) = unset
                /\ A!Word(w, "--tcp-flags", unset) = unset /\ A!Word(w, "--mark", unset) = unset
                /\ A!Word(w, "--to-ports", unset) = unset
    BY <1>1, <1>5, WordMissing
<1>8. F.table = "filter" /\ F.chain = "OUTPUT" /\ F.target = "ACCEPT" /\ F.protocol = protocol
      /\ F.in = A!Unset /\ F.out = intf /\ F.source = A!Unset /\ F.destination = ip /\ F.sport = A!Unset
      /\ F.dport = port /\ F.to = A!Unset /\ F.flags = A!Unset /\ F.mark = A!Unset
    BY DEF ToVPNFields, NoFields
<1>. HIDE DEF F
<1>9. intf # A!Unset
    BY DEF Reserved
<1>10. ip # A!Unset
    BY DEF Reserved
<1>11. protocol # A!Unset
    BY LiteralsAreSet
<1>12. port # A!Unset
    BY DEF Reserved
<1>13. Reads(w, F)
    BY <1>6, <1>7, <1>8, <1>9, <1>10, <1>11, <1>12, LiteralsAreSet DEF Reads, Or, A!Table, A!Chain
<1>. QED BY <1>13 DEF w, F

\* How the instruction that deletes the rule for what goes to a subnet through an interface is parsed.
LEMMA SubnetOfParsed ==
    ASSUME NEW intf, NEW ip, NEW subnet, intf \notin Reserved, ip \notin Reserved, subnet \notin Reserved
    PROVE  Says(A!ParseInstruction(SubnetOfWords("--delete", intf, ip, subnet)), SubnetOfFields(intf, ip,
           subnet))
<1>. DEFINE w == SubnetOfWords("--delete", intf, ip, subnet)
            j1 == [A!Blank EXCEPT !.append = FALSE, !.chain = "OUTPUT"]
            j2 == [j1 EXCEPT !.out = intf]
            j3 == [j2 EXCEPT !.source = ip]
            j4 == [j3 EXCEPT !.destination = subnet]
            j5 == [j4 EXCEPT !.target = "ACCEPT"]
            i == A!ParseInstruction(w)
            F == SubnetOfFields(intf, ip, subnet)
<1>1. Len(w) = 10 /\ Len(w) \in Nat /\ w[1] = "--delete" /\ w[2] = "OUTPUT" /\ w[3] = "-o" /\ w[4] = intf
      /\ w[5] = "-s" /\ w[6] = ip /\ w[7] = "-d" /\ w[8] = subnet /\ w[9] = "-j" /\ w[10] = "ACCEPT"
    BY DEF SubnetOfWords
<1>. HIDE DEF w, j1, j2, j3, j4, j5, i
<1>2. At(w, 1, A!Blank)
    BY <1>1, AtStart
<1>3. At(w, 3, j1)
    <2>1. 1 \in 1..(Len(w) - 1) /\ w[1] = "--delete" /\ w[1 + 1] = "OUTPUT" /\ 3 = 1 + 2
        BY <1>1
    <2>. QED BY <1>1, <1>2, <2>1, TakesDeleted, Zenon DEF j1
<1>4. At(w, 5, j2)
    <2>1. 3 \in 1..(Len(w) - 1) /\ w[3] = "-o" /\ w[3 + 1] = intf /\ 5 = 3 + 2 /\ "-o" \in FieldFlags
        BY <1>1 DEF FieldFlags
    <2>2. At(w, 5, [j1 EXCEPT ![A!FieldOf["-o"]] = intf])
        BY <1>1, <1>3, <2>1, TakesField, Zenon
    <2>. QED BY <2>2, FieldsAre DEF j2
<1>5. At(w, 7, j3)
    <2>1. 5 \in 1..(Len(w) - 1) /\ w[5] = "-s" /\ w[5 + 1] = ip /\ 7 = 5 + 2 /\ "-s" \in FieldFlags
        BY <1>1 DEF FieldFlags
    <2>2. At(w, 7, [j2 EXCEPT ![A!FieldOf["-s"]] = ip])
        BY <1>1, <1>4, <2>1, TakesField, Zenon
    <2>. QED BY <2>2, FieldsAre DEF j3
<1>6. At(w, 9, j4)
    <2>1. 7 \in 1..(Len(w) - 1) /\ w[7] = "-d" /\ w[7 + 1] = subnet /\ 9 = 7 + 2 /\ "-d" \in FieldFlags
        BY <1>1 DEF FieldFlags
    <2>2. At(w, 9, [j3 EXCEPT ![A!FieldOf["-d"]] = subnet])
        BY <1>1, <1>5, <2>1, TakesField, Zenon
    <2>. QED BY <2>2, FieldsAre DEF j4
<1>7. At(w, 11, j5)
    <2>1. 9 \in 1..(Len(w) - 1) /\ w[9] = "-j" /\ w[9 + 1] = "ACCEPT" /\ 11 = 9 + 2 /\ "-j" \in FieldFlags
        BY <1>1 DEF FieldFlags
    <2>2. At(w, 11, [j4 EXCEPT ![A!FieldOf["-j"]] = "ACCEPT"])
        BY <1>1, <1>6, <2>1, TakesField, Zenon
    <2>. QED BY <2>2, FieldsAre DEF j5
<1>8. i = IF j5.table = A!Unset THEN [j5 EXCEPT !.table = "filter"] ELSE j5
    <2>1. 11 = Len(w) + 1
        BY <1>1
    <2>. QED BY <1>1, <1>7, <2>1, AtEnd DEF i
<1>9. j5.table = A!Unset
    BY DEF j1, j2, j3, j4, j5, A!Blank, A!NoMark
<1>10. i = [j5 EXCEPT !.table = "filter"]
    BY <1>8, <1>9, LiteralsAreSet
<1>11. i.ok = TRUE /\ i.chain = "OUTPUT" /\ i.target = "ACCEPT" /\ i.protocol = A!Unset /\ i.in = A!Unset
      /\ i.out = intf /\ i.source = ip /\ i.destination = subnet /\ i.sourcePort = "0"
      /\ i.destinationPort = "0" /\ i.toPorts = <<>> /\ i.ctstate = <<>> /\ i.tcpFlags = <<>>
      /\ i.mark = A!NoMark /\ i.table = "filter"
    BY <1>10 DEF j1, j2, j3, j4, j5, A!Blank, A!NoMark
<1>12. F.table = "filter" /\ F.chain = "OUTPUT" /\ F.target = "ACCEPT" /\ F.protocol = A!Unset
      /\ F.in = A!Unset /\ F.out = intf /\ F.source = ip /\ F.destination = subnet /\ F.sport = A!Unset
      /\ F.dport = A!Unset /\ F.to = A!Unset /\ F.flags = A!Unset /\ F.mark = A!Unset
    BY DEF SubnetOfFields, NoFields
<1>. HIDE DEF F
<1>13. intf # A!Unset
    BY DEF Reserved
<1>14. ip # A!Unset
    BY DEF Reserved
<1>15. subnet # A!Unset
    BY DEF Reserved
<1>16. Says(i, F)
    BY <1>11, <1>12, <1>13, <1>14, <1>15, LiteralsAreSet DEF Says, Or, One, FlagsOf, MarkOf
<1>. QED BY <1>16 DEF w, i, F

\* What iptables reads in the instruction that adds it.
LEMMA SubnetOfRead ==
    ASSUME NEW intf, NEW ip, NEW subnet, intf \notin Reserved, ip \notin Reserved, subnet \notin Reserved
    PROVE  Reads(SubnetOfWords("--append", intf, ip, subnet), SubnetOfFields(intf, ip, subnet))
<1>. DEFINE w == SubnetOfWords("--append", intf, ip, subnet)  F == SubnetOfFields(intf, ip, subnet)
<1>1. Len(w) = 10 /\ Len(w) \in Nat /\ w[1] = "--append" /\ w[2] = "OUTPUT" /\ w[3] = "-o" /\ w[4] = intf
      /\ w[5] = "-s" /\ w[6] = ip /\ w[7] = "-d" /\ w[8] = subnet /\ w[9] = "-j" /\ w[10] = "ACCEPT"
    BY DEF SubnetOfWords
<1>. HIDE DEF w
<1>2. \A m \in 1..(Len(w) - 1) : m = 1 \/ m = 2 \/ m = 3 \/ m = 4 \/ m = 5 \/ m = 6 \/ m = 7 \/ m = 8 \/ m = 9
    BY <1>1
<1>3. intf # "--append" /\ intf # "--delete" /\ intf # "-t" /\ intf # "-j" /\ intf # "-p" /\ intf # "-i"
      /\ intf # "-o" /\ intf # "-s" /\ intf # "-d" /\ intf # "--sport" /\ intf # "--dport"
      /\ intf # "--tcp-flags" /\ intf # "--mark" /\ intf # "--to-ports" /\ ip # "--append"
      /\ ip # "--delete" /\ ip # "-t" /\ ip # "-j" /\ ip # "-p" /\ ip # "-i" /\ ip # "-o" /\ ip # "-s"
      /\ ip # "-d" /\ ip # "--sport" /\ ip # "--dport" /\ ip # "--tcp-flags" /\ ip # "--mark"
      /\ ip # "--to-ports" /\ subnet # "--append" /\ subnet # "--delete" /\ subnet # "-t" /\ subnet # "-j"
      /\ subnet # "-p" /\ subnet # "-i" /\ subnet # "-o" /\ subnet # "-s" /\ subnet # "-d"
      /\ subnet # "--sport" /\ subnet # "--dport" /\ subnet # "--tcp-flags" /\ subnet # "--mark"
      /\ subnet # "--to-ports"
    BY DEF Reserved, Flags, FieldFlags
<1>4. Only(w, "--append", 1) /\ Only(w, "-j", 9) /\ Only(w, "-o", 3) /\ Only(w, "-s", 5) /\ Only(w, "-d", 7)
    BY <1>1, <1>2, <1>3 DEF Only
<1>5. Without(w, "--delete") /\ Without(w, "-t") /\ Without(w, "-p") /\ Without(w, "-i") /\ Without(w,
      "--sport") /\ Without(w, "--dport") /\ Without(w, "--tcp-flags") /\ Without(w, "--mark") /\ Without(w,
      "--to-ports")
    BY <1>1, <1>2, <1>3 DEF Without
<1>6. \A unset : A!Word(w, "--append", unset) = "OUTPUT" /\ A!Word(w, "-j", unset) = "ACCEPT" /\ A!Word(w,
                "-o", unset) = intf /\ A!Word(w, "-s", unset) = ip /\ A!Word(w, "-d", unset) = subnet
    BY <1>1, <1>4, WordThere
<1>7. \A unset : A!Word(w, "--delete", unset) = unset /\ A!Word(w, "-t", unset) = unset /\ A!Word(w, "-p",
                unset) = unset /\ A!Word(w, "-i", unset) = unset /\ A!Word(w, "--sport", unset) = unset
                /\ A!Word(w, "--dport", unset) = unset /\ A!Word(w, "--tcp-flags", unset) = unset
                /\ A!Word(w, "--mark", unset) = unset /\ A!Word(w, "--to-ports", unset) = unset
    BY <1>1, <1>5, WordMissing
<1>8. F.table = "filter" /\ F.chain = "OUTPUT" /\ F.target = "ACCEPT" /\ F.protocol = A!Unset
      /\ F.in = A!Unset /\ F.out = intf /\ F.source = ip /\ F.destination = subnet /\ F.sport = A!Unset
      /\ F.dport = A!Unset /\ F.to = A!Unset /\ F.flags = A!Unset /\ F.mark = A!Unset
    BY DEF SubnetOfFields, NoFields
<1>. HIDE DEF F
<1>9. intf # A!Unset
    BY DEF Reserved
<1>10. ip # A!Unset
    BY DEF Reserved
<1>11. subnet # A!Unset
    BY DEF Reserved
<1>12. Reads(w, F)
    BY <1>6, <1>7, <1>8, <1>9, <1>10, <1>11, LiteralsAreSet DEF Reads, Or, A!Table, A!Chain
<1>. QED BY <1>12 DEF w, F

\* How the instruction that deletes the rule for what goes to a subnet through any interface is parsed.
LEMMA SubnetAnyParsed ==
    ASSUME NEW ip, NEW subnet, ip \notin Reserved, subnet \notin Reserved
    PROVE  Says(A!ParseInstruction(SubnetAnyWords("--delete", ip, subnet)), SubnetAnyFields(ip, subnet))
<1>. DEFINE w == SubnetAnyWords("--delete", ip, subnet)
            j1 == [A!Blank EXCEPT !.append = FALSE, !.chain = "OUTPUT"]
            j2 == [j1 EXCEPT !.source = ip]
            j3 == [j2 EXCEPT !.destination = subnet]
            j4 == [j3 EXCEPT !.target = "ACCEPT"]
            i == A!ParseInstruction(w)
            F == SubnetAnyFields(ip, subnet)
<1>1. Len(w) = 8 /\ Len(w) \in Nat /\ w[1] = "--delete" /\ w[2] = "OUTPUT" /\ w[3] = "-s" /\ w[4] = ip
      /\ w[5] = "-d" /\ w[6] = subnet /\ w[7] = "-j" /\ w[8] = "ACCEPT"
    BY DEF SubnetAnyWords
<1>. HIDE DEF w, j1, j2, j3, j4, i
<1>2. At(w, 1, A!Blank)
    BY <1>1, AtStart
<1>3. At(w, 3, j1)
    <2>1. 1 \in 1..(Len(w) - 1) /\ w[1] = "--delete" /\ w[1 + 1] = "OUTPUT" /\ 3 = 1 + 2
        BY <1>1
    <2>. QED BY <1>1, <1>2, <2>1, TakesDeleted, Zenon DEF j1
<1>4. At(w, 5, j2)
    <2>1. 3 \in 1..(Len(w) - 1) /\ w[3] = "-s" /\ w[3 + 1] = ip /\ 5 = 3 + 2 /\ "-s" \in FieldFlags
        BY <1>1 DEF FieldFlags
    <2>2. At(w, 5, [j1 EXCEPT ![A!FieldOf["-s"]] = ip])
        BY <1>1, <1>3, <2>1, TakesField, Zenon
    <2>. QED BY <2>2, FieldsAre DEF j2
<1>5. At(w, 7, j3)
    <2>1. 5 \in 1..(Len(w) - 1) /\ w[5] = "-d" /\ w[5 + 1] = subnet /\ 7 = 5 + 2 /\ "-d" \in FieldFlags
        BY <1>1 DEF FieldFlags
    <2>2. At(w, 7, [j2 EXCEPT ![A!FieldOf["-d"]] = subnet])
        BY <1>1, <1>4, <2>1, TakesField, Zenon
    <2>. QED BY <2>2, FieldsAre DEF j3
<1>6. At(w, 9, j4)
    <2>1. 7 \in 1..(Len(w) - 1) /\ w[7] = "-j" /\ w[7 + 1] = "ACCEPT" /\ 9 = 7 + 2 /\ "-j" \in FieldFlags
        BY <1>1 DEF FieldFlags
    <2>2. At(w, 9, [j3 EXCEPT ![A!FieldOf["-j"]] = "ACCEPT"])
        BY <1>1, <1>5, <2>1, TakesField, Zenon
    <2>. QED BY <2>2, FieldsAre DEF j4
<1>7. i = IF j4.table = A!Unset THEN [j4 EXCEPT !.table = "filter"] ELSE j4
    <2>1. 9 = Len(w) + 1
        BY <1>1
    <2>. QED BY <1>1, <1>6, <2>1, AtEnd DEF i
<1>8. j4.table = A!Unset
    BY DEF j1, j2, j3, j4, A!Blank, A!NoMark
<1>9. i = [j4 EXCEPT !.table = "filter"]
    BY <1>7, <1>8, LiteralsAreSet
<1>10. i.ok = TRUE /\ i.chain = "OUTPUT" /\ i.target = "ACCEPT" /\ i.protocol = A!Unset /\ i.in = A!Unset
      /\ i.out = A!Unset /\ i.source = ip /\ i.destination = subnet /\ i.sourcePort = "0"
      /\ i.destinationPort = "0" /\ i.toPorts = <<>> /\ i.ctstate = <<>> /\ i.tcpFlags = <<>>
      /\ i.mark = A!NoMark /\ i.table = "filter"
    BY <1>9 DEF j1, j2, j3, j4, A!Blank, A!NoMark
<1>11. F.table = "filter" /\ F.chain = "OUTPUT" /\ F.target = "ACCEPT" /\ F.protocol = A!Unset
      /\ F.in = A!Unset /\ F.out = A!Unset /\ F.source = ip /\ F.destination = subnet /\ F.sport = A!Unset
      /\ F.dport = A!Unset /\ F.to = A!Unset /\ F.flags = A!Unset /\ F.mark = A!Unset
    BY DEF SubnetAnyFields, NoFields
<1>. HIDE DEF F
<1>12. ip # A!Unset
    BY DEF Reserved
<1>13. subnet # A!Unset
    BY DEF Reserved
<1>14. Says(i, F)
    BY <1>10, <1>11, <1>12, <1>13, LiteralsAreSet DEF Says, Or, One, FlagsOf, MarkOf
<1>. QED BY <1>14 DEF w, i, F

\* What iptables reads in the instruction that adds it.
LEMMA SubnetAnyRead ==
    ASSUME NEW ip, NEW subnet, ip \notin Reserved, subnet \notin Reserved
    PROVE  Reads(SubnetAnyWords("--append", ip, subnet), SubnetAnyFields(ip, subnet))
<1>. DEFINE w == SubnetAnyWords("--append", ip, subnet)  F == SubnetAnyFields(ip, subnet)
<1>1. Len(w) = 8 /\ Len(w) \in Nat /\ w[1] = "--append" /\ w[2] = "OUTPUT" /\ w[3] = "-s" /\ w[4] = ip
      /\ w[5] = "-d" /\ w[6] = subnet /\ w[7] = "-j" /\ w[8] = "ACCEPT"
    BY DEF SubnetAnyWords
<1>. HIDE DEF w
<1>2. \A m \in 1..(Len(w) - 1) : m = 1 \/ m = 2 \/ m = 3 \/ m = 4 \/ m = 5 \/ m = 6 \/ m = 7
    BY <1>1
<1>3. ip # "--append" /\ ip # "--delete" /\ ip # "-t" /\ ip # "-j" /\ ip # "-p" /\ ip # "-i" /\ ip # "-o"
      /\ ip # "-s" /\ ip # "-d" /\ ip # "--sport" /\ ip # "--dport" /\ ip # "--tcp-flags" /\ ip # "--mark"
      /\ ip # "--to-ports" /\ subnet # "--append" /\ subnet # "--delete" /\ subnet # "-t" /\ subnet # "-j"
      /\ subnet # "-p" /\ subnet # "-i" /\ subnet # "-o" /\ subnet # "-s" /\ subnet # "-d"
      /\ subnet # "--sport" /\ subnet # "--dport" /\ subnet # "--tcp-flags" /\ subnet # "--mark"
      /\ subnet # "--to-ports"
    BY DEF Reserved, Flags, FieldFlags
<1>4. Only(w, "--append", 1) /\ Only(w, "-j", 7) /\ Only(w, "-s", 3) /\ Only(w, "-d", 5)
    BY <1>1, <1>2, <1>3 DEF Only
<1>5. Without(w, "--delete") /\ Without(w, "-t") /\ Without(w, "-p") /\ Without(w, "-i") /\ Without(w, "-o")
      /\ Without(w, "--sport") /\ Without(w, "--dport") /\ Without(w, "--tcp-flags") /\ Without(w, "--mark")
      /\ Without(w, "--to-ports")
    BY <1>1, <1>2, <1>3 DEF Without
<1>6. \A unset : A!Word(w, "--append", unset) = "OUTPUT" /\ A!Word(w, "-j", unset) = "ACCEPT" /\ A!Word(w,
                "-s", unset) = ip /\ A!Word(w, "-d", unset) = subnet
    BY <1>1, <1>4, WordThere
<1>7. \A unset : A!Word(w, "--delete", unset) = unset /\ A!Word(w, "-t", unset) = unset /\ A!Word(w, "-p",
                unset) = unset /\ A!Word(w, "-i", unset) = unset /\ A!Word(w, "-o", unset) = unset
                /\ A!Word(w, "--sport", unset) = unset /\ A!Word(w, "--dport", unset) = unset /\ A!Word(w,
                "--tcp-flags", unset) = unset /\ A!Word(w, "--mark", unset) = unset /\ A!Word(w,
                "--to-ports", unset) = unset
    BY <1>1, <1>5, WordMissing
<1>8. F.table = "filter" /\ F.chain = "OUTPUT" /\ F.target = "ACCEPT" /\ F.protocol = A!Unset
      /\ F.in = A!Unset /\ F.out = A!Unset /\ F.source = ip /\ F.destination = subnet /\ F.sport = A!Unset
      /\ F.dport = A!Unset /\ F.to = A!Unset /\ F.flags = A!Unset /\ F.mark = A!Unset
    BY DEF SubnetAnyFields, NoFields
<1>. HIDE DEF F
<1>9. ip # A!Unset
    BY DEF Reserved
<1>10. subnet # A!Unset
    BY DEF Reserved
<1>11. Reads(w, F)
    BY <1>6, <1>7, <1>8, <1>9, <1>10, LiteralsAreSet DEF Reads, Or, A!Table, A!Chain
<1>. QED BY <1>11 DEF w, F

\* How the instruction that deletes the rule for what comes to a port through an interface is parsed.
LEMMA PortOfParsed ==
    ASSUME NEW intf, NEW protocol, NEW port, intf \notin Reserved, port \notin Reserved,
           protocol \in {"tcp", "udp"}
    PROVE  Says(A!ParseInstruction(PortOfWords("--delete", intf, protocol, port)), PortOfFields(intf, protocol,
           port))
<1>. DEFINE w == PortOfWords("--delete", intf, protocol, port)
            j1 == [A!Blank EXCEPT !.append = FALSE, !.chain = "INPUT"]
            j2 == [j1 EXCEPT !.in = intf]
            j3 == [j2 EXCEPT !.protocol = protocol]
            j4 == [j3 EXCEPT !.destinationPort = port]
            j5 == [j4 EXCEPT !.target = "ACCEPT"]
            i == A!ParseInstruction(w)
            F == PortOfFields(intf, protocol, port)
<1>1. Len(w) = 12 /\ Len(w) \in Nat /\ w[1] = "--delete" /\ w[2] = "INPUT" /\ w[3] = "-i" /\ w[4] = intf
      /\ w[5] = "-p" /\ w[6] = protocol /\ w[7] = "-m" /\ w[8] = protocol /\ w[9] = "--dport"
      /\ w[10] = port /\ w[11] = "-j" /\ w[12] = "ACCEPT"
    BY DEF PortOfWords
<1>. HIDE DEF w, j1, j2, j3, j4, j5, i
<1>2. At(w, 1, A!Blank)
    BY <1>1, AtStart
<1>3. At(w, 3, j1)
    <2>1. 1 \in 1..(Len(w) - 1) /\ w[1] = "--delete" /\ w[1 + 1] = "INPUT" /\ 3 = 1 + 2
        BY <1>1
    <2>. QED BY <1>1, <1>2, <2>1, TakesDeleted, Zenon DEF j1
<1>4. At(w, 5, j2)
    <2>1. 3 \in 1..(Len(w) - 1) /\ w[3] = "-i" /\ w[3 + 1] = intf /\ 5 = 3 + 2 /\ "-i" \in FieldFlags
        BY <1>1 DEF FieldFlags
    <2>2. At(w, 5, [j1 EXCEPT ![A!FieldOf["-i"]] = intf])
        BY <1>1, <1>3, <2>1, TakesField, Zenon
    <2>. QED BY <2>2, FieldsAre DEF j2
<1>5. At(w, 7, j3)
    <2>1. 5 \in 1..(Len(w) - 1) /\ w[5] = "-p" /\ w[5 + 1] = protocol /\ 7 = 5 + 2 /\ "-p" \in FieldFlags
        BY <1>1 DEF FieldFlags
    <2>2. At(w, 7, [j2 EXCEPT ![A!FieldOf["-p"]] = protocol])
        BY <1>1, <1>4, <2>1, TakesField, Zenon
    <2>. QED BY <2>2, FieldsAre DEF j3
<1>6. At(w, 9, j3)
    <2>1. 7 \in 1..(Len(w) - 1) /\ w[7] = "-m" /\ w[7 + 1] = protocol /\ 9 = 7 + 2
        BY <1>1
    <2>. QED BY <1>1, <1>5, <2>1, TakesModule, Zenon
<1>7. At(w, 11, j4)
    <2>1. 9 \in 1..(Len(w) - 1) /\ w[9] = "--dport" /\ w[9 + 1] = port /\ 11 = 9 + 2 /\ "--dport" \in FieldFlags
        BY <1>1 DEF FieldFlags
    <2>2. At(w, 11, [j3 EXCEPT ![A!FieldOf["--dport"]] = port])
        BY <1>1, <1>6, <2>1, TakesField, Zenon
    <2>. QED BY <2>2, FieldsAre DEF j4
<1>8. At(w, 13, j5)
    <2>1. 11 \in 1..(Len(w) - 1) /\ w[11] = "-j" /\ w[11 + 1] = "ACCEPT" /\ 13 = 11 + 2 /\ "-j" \in FieldFlags
        BY <1>1 DEF FieldFlags
    <2>2. At(w, 13, [j4 EXCEPT ![A!FieldOf["-j"]] = "ACCEPT"])
        BY <1>1, <1>7, <2>1, TakesField, Zenon
    <2>. QED BY <2>2, FieldsAre DEF j5
<1>9. i = IF j5.table = A!Unset THEN [j5 EXCEPT !.table = "filter"] ELSE j5
    <2>1. 13 = Len(w) + 1
        BY <1>1
    <2>. QED BY <1>1, <1>8, <2>1, AtEnd DEF i
<1>10. j5.table = A!Unset
    BY DEF j1, j2, j3, j4, j5, A!Blank, A!NoMark
<1>11. i = [j5 EXCEPT !.table = "filter"]
    BY <1>9, <1>10, LiteralsAreSet
<1>12. i.ok = TRUE /\ i.chain = "INPUT" /\ i.target = "ACCEPT" /\ i.protocol = protocol /\ i.in = intf
      /\ i.out = A!Unset /\ i.source = A!NoPrefix /\ i.destination = A!NoPrefix /\ i.sourcePort = "0"
      /\ i.destinationPort = port /\ i.toPorts = <<>> /\ i.ctstate = <<>> /\ i.tcpFlags = <<>>
      /\ i.mark = A!NoMark /\ i.table = "filter"
    BY <1>11 DEF j1, j2, j3, j4, j5, A!Blank, A!NoMark
<1>13. F.table = "filter" /\ F.chain = "INPUT" /\ F.target = "ACCEPT" /\ F.protocol = protocol /\ F.in = intf
      /\ F.out = A!Unset /\ F.source = A!Unset /\ F.destination = A!Unset /\ F.sport = A!Unset
      /\ F.dport = port /\ F.to = A!Unset /\ F.flags = A!Unset /\ F.mark = A!Unset
    BY DEF PortOfFields, NoFields
<1>. HIDE DEF F
<1>14. intf # A!Unset
    BY DEF Reserved
<1>15. protocol # A!Unset
    BY LiteralsAreSet
<1>16. port # A!Unset
    BY DEF Reserved
<1>17. Says(i, F)
    BY <1>12, <1>13, <1>14, <1>15, <1>16, LiteralsAreSet DEF Says, Or, One, FlagsOf, MarkOf
<1>. QED BY <1>17 DEF w, i, F

\* What iptables reads in the instruction that adds it.
LEMMA PortOfRead ==
    ASSUME NEW intf, NEW protocol, NEW port, intf \notin Reserved, port \notin Reserved,
           protocol \in {"tcp", "udp"}
    PROVE  Reads(PortOfWords("--append", intf, protocol, port), PortOfFields(intf, protocol, port))
<1>. DEFINE w == PortOfWords("--append", intf, protocol, port)  F == PortOfFields(intf, protocol, port)
<1>1. Len(w) = 12 /\ Len(w) \in Nat /\ w[1] = "--append" /\ w[2] = "INPUT" /\ w[3] = "-i" /\ w[4] = intf
      /\ w[5] = "-p" /\ w[6] = protocol /\ w[7] = "-m" /\ w[8] = protocol /\ w[9] = "--dport"
      /\ w[10] = port /\ w[11] = "-j" /\ w[12] = "ACCEPT"
    BY DEF PortOfWords
<1>. HIDE DEF w
<1>2. \A m \in 1..(Len(w) - 1) : m = 1 \/ m = 2 \/ m = 3 \/ m = 4 \/ m = 5 \/ m = 6 \/ m = 7 \/ m = 8
      \/ m = 9 \/ m = 10 \/ m = 11
    BY <1>1
<1>3. intf # "--append" /\ intf # "--delete" /\ intf # "-t" /\ intf # "-j" /\ intf # "-p" /\ intf # "-i"
      /\ intf # "-o" /\ intf # "-s" /\ intf # "-d" /\ intf # "--sport" /\ intf # "--dport"
      /\ intf # "--tcp-flags" /\ intf # "--mark" /\ intf # "--to-ports" /\ protocol # "--append"
      /\ protocol # "--delete" /\ protocol # "-t" /\ protocol # "-j" /\ protocol # "-p" /\ protocol # "-i"
      /\ protocol # "-o" /\ protocol # "-s" /\ protocol # "-d" /\ protocol # "--sport"
      /\ protocol # "--dport" /\ protocol # "--tcp-flags" /\ protocol # "--mark" /\ protocol # "--to-ports"
      /\ port # "--append" /\ port # "--delete" /\ port # "-t" /\ port # "-j" /\ port # "-p" /\ port # "-i"
      /\ port # "-o" /\ port # "-s" /\ port # "-d" /\ port # "--sport" /\ port # "--dport"
      /\ port # "--tcp-flags" /\ port # "--mark" /\ port # "--to-ports"
    BY DEF Reserved, Flags, FieldFlags
<1>4. Only(w, "--append", 1) /\ Only(w, "-j", 11) /\ Only(w, "-p", 5) /\ Only(w, "-i", 3) /\ Only(w,
      "--dport", 9)
    BY <1>1, <1>2, <1>3 DEF Only
<1>5. Without(w, "--delete") /\ Without(w, "-t") /\ Without(w, "-o") /\ Without(w, "-s") /\ Without(w, "-d")
      /\ Without(w, "--sport") /\ Without(w, "--tcp-flags") /\ Without(w, "--mark") /\ Without(w,
      "--to-ports")
    BY <1>1, <1>2, <1>3 DEF Without
<1>6. \A unset : A!Word(w, "--append", unset) = "INPUT" /\ A!Word(w, "-j", unset) = "ACCEPT" /\ A!Word(w,
                "-p", unset) = protocol /\ A!Word(w, "-i", unset) = intf /\ A!Word(w, "--dport",
                unset) = port
    BY <1>1, <1>4, WordThere
<1>7. \A unset : A!Word(w, "--delete", unset) = unset /\ A!Word(w, "-t", unset) = unset /\ A!Word(w, "-o",
                unset) = unset /\ A!Word(w, "-s", unset) = unset /\ A!Word(w, "-d", unset) = unset
                /\ A!Word(w, "--sport", unset) = unset /\ A!Word(w, "--tcp-flags", unset) = unset
                /\ A!Word(w, "--mark", unset) = unset /\ A!Word(w, "--to-ports", unset) = unset
    BY <1>1, <1>5, WordMissing
<1>8. F.table = "filter" /\ F.chain = "INPUT" /\ F.target = "ACCEPT" /\ F.protocol = protocol /\ F.in = intf
      /\ F.out = A!Unset /\ F.source = A!Unset /\ F.destination = A!Unset /\ F.sport = A!Unset
      /\ F.dport = port /\ F.to = A!Unset /\ F.flags = A!Unset /\ F.mark = A!Unset
    BY DEF PortOfFields, NoFields
<1>. HIDE DEF F
<1>9. intf # A!Unset
    BY DEF Reserved
<1>10. protocol # A!Unset
    BY LiteralsAreSet
<1>11. port # A!Unset
    BY DEF Reserved
<1>12. Reads(w, F)
    BY <1>6, <1>7, <1>8, <1>9, <1>10, <1>11, LiteralsAreSet DEF Reads, Or, A!Table, A!Chain
<1>. QED BY <1>12 DEF w, F

\* How the instruction that deletes the rule for what comes to a port through any interface is parsed.
LEMMA PortAnyParsed ==
    ASSUME NEW protocol, NEW port, port \notin Reserved, protocol \in {"tcp", "udp"}
    PROVE  Says(A!ParseInstruction(PortAnyWords("--delete", protocol, port)), PortAnyFields(protocol, port))
<1>. DEFINE w == PortAnyWords("--delete", protocol, port)
            j1 == [A!Blank EXCEPT !.append = FALSE, !.chain = "INPUT"]
            j2 == [j1 EXCEPT !.protocol = protocol]
            j3 == [j2 EXCEPT !.destinationPort = port]
            j4 == [j3 EXCEPT !.target = "ACCEPT"]
            i == A!ParseInstruction(w)
            F == PortAnyFields(protocol, port)
<1>1. Len(w) = 10 /\ Len(w) \in Nat /\ w[1] = "--delete" /\ w[2] = "INPUT" /\ w[3] = "-p" /\ w[4] = protocol
      /\ w[5] = "-m" /\ w[6] = protocol /\ w[7] = "--dport" /\ w[8] = port /\ w[9] = "-j"
      /\ w[10] = "ACCEPT"
    BY DEF PortAnyWords
<1>. HIDE DEF w, j1, j2, j3, j4, i
<1>2. At(w, 1, A!Blank)
    BY <1>1, AtStart
<1>3. At(w, 3, j1)
    <2>1. 1 \in 1..(Len(w) - 1) /\ w[1] = "--delete" /\ w[1 + 1] = "INPUT" /\ 3 = 1 + 2
        BY <1>1
    <2>. QED BY <1>1, <1>2, <2>1, TakesDeleted, Zenon DEF j1
<1>4. At(w, 5, j2)
    <2>1. 3 \in 1..(Len(w) - 1) /\ w[3] = "-p" /\ w[3 + 1] = protocol /\ 5 = 3 + 2 /\ "-p" \in FieldFlags
        BY <1>1 DEF FieldFlags
    <2>2. At(w, 5, [j1 EXCEPT ![A!FieldOf["-p"]] = protocol])
        BY <1>1, <1>3, <2>1, TakesField, Zenon
    <2>. QED BY <2>2, FieldsAre DEF j2
<1>5. At(w, 7, j2)
    <2>1. 5 \in 1..(Len(w) - 1) /\ w[5] = "-m" /\ w[5 + 1] = protocol /\ 7 = 5 + 2
        BY <1>1
    <2>. QED BY <1>1, <1>4, <2>1, TakesModule, Zenon
<1>6. At(w, 9, j3)
    <2>1. 7 \in 1..(Len(w) - 1) /\ w[7] = "--dport" /\ w[7 + 1] = port /\ 9 = 7 + 2 /\ "--dport" \in FieldFlags
        BY <1>1 DEF FieldFlags
    <2>2. At(w, 9, [j2 EXCEPT ![A!FieldOf["--dport"]] = port])
        BY <1>1, <1>5, <2>1, TakesField, Zenon
    <2>. QED BY <2>2, FieldsAre DEF j3
<1>7. At(w, 11, j4)
    <2>1. 9 \in 1..(Len(w) - 1) /\ w[9] = "-j" /\ w[9 + 1] = "ACCEPT" /\ 11 = 9 + 2 /\ "-j" \in FieldFlags
        BY <1>1 DEF FieldFlags
    <2>2. At(w, 11, [j3 EXCEPT ![A!FieldOf["-j"]] = "ACCEPT"])
        BY <1>1, <1>6, <2>1, TakesField, Zenon
    <2>. QED BY <2>2, FieldsAre DEF j4
<1>8. i = IF j4.table = A!Unset THEN [j4 EXCEPT !.table = "filter"] ELSE j4
    <2>1. 11 = Len(w) + 1
        BY <1>1
    <2>. QED BY <1>1, <1>7, <2>1, AtEnd DEF i
<1>9. j4.table = A!Unset
    BY DEF j1, j2, j3, j4, A!Blank, A!NoMark
<1>10. i = [j4 EXCEPT !.table = "filter"]
    BY <1>8, <1>9, LiteralsAreSet
<1>11. i.ok = TRUE /\ i.chain = "INPUT" /\ i.target = "ACCEPT" /\ i.protocol = protocol /\ i.in = A!Unset
      /\ i.out = A!Unset /\ i.source = A!NoPrefix /\ i.destination = A!NoPrefix /\ i.sourcePort = "0"
      /\ i.destinationPort = port /\ i.toPorts = <<>> /\ i.ctstate = <<>> /\ i.tcpFlags = <<>>
      /\ i.mark = A!NoMark /\ i.table = "filter"
    BY <1>10 DEF j1, j2, j3, j4, A!Blank, A!NoMark
<1>12. F.table = "filter" /\ F.chain = "INPUT" /\ F.target = "ACCEPT" /\ F.protocol = protocol
      /\ F.in = A!Unset /\ F.out = A!Unset /\ F.source = A!Unset /\ F.destination = A!Unset
      /\ F.sport = A!Unset /\ F.dport = port /\ F.to = A!Unset /\ F.flags = A!Unset /\ F.mark = A!Unset
    BY DEF PortAnyFields, NoFields
<1>. HIDE DEF F
<1>13. protocol # A!Unset
    BY LiteralsAreSet
<1>14. port # A!Unset
    BY DEF Reserved
<1>15. Says(i, F)
    BY <1>11, <1>12, <1>13, <1>14, LiteralsAreSet DEF Says, Or, One, FlagsOf, MarkOf
<1>. QED BY <1>15 DEF w, i, F

\* What iptables reads in the instruction that adds it.
LEMMA PortAnyRead ==
    ASSUME NEW protocol, NEW port, port \notin Reserved, protocol \in {"tcp", "udp"}
    PROVE  Reads(PortAnyWords("--append", protocol, port), PortAnyFields(protocol, port))
<1>. DEFINE w == PortAnyWords("--append", protocol, port)  F == PortAnyFields(protocol, port)
<1>1. Len(w) = 10 /\ Len(w) \in Nat /\ w[1] = "--append" /\ w[2] = "INPUT" /\ w[3] = "-p" /\ w[4] = protocol
      /\ w[5] = "-m" /\ w[6] = protocol /\ w[7] = "--dport" /\ w[8] = port /\ w[9] = "-j"
      /\ w[10] = "ACCEPT"
    BY DEF PortAnyWords
<1>. HIDE DEF w
<1>2. \A m \in 1..(Len(w) - 1) : m = 1 \/ m = 2 \/ m = 3 \/ m = 4 \/ m = 5 \/ m = 6 \/ m = 7 \/ m = 8 \/ m = 9
    BY <1>1
<1>3. protocol # "--append" /\ protocol # "--delete" /\ protocol # "-t" /\ protocol # "-j"
      /\ protocol # "-p" /\ protocol # "-i" /\ protocol # "-o" /\ protocol # "-s" /\ protocol # "-d"
      /\ protocol # "--sport" /\ protocol # "--dport" /\ protocol # "--tcp-flags" /\ protocol # "--mark"
      /\ protocol # "--to-ports" /\ port # "--append" /\ port # "--delete" /\ port # "-t" /\ port # "-j"
      /\ port # "-p" /\ port # "-i" /\ port # "-o" /\ port # "-s" /\ port # "-d" /\ port # "--sport"
      /\ port # "--dport" /\ port # "--tcp-flags" /\ port # "--mark" /\ port # "--to-ports"
    BY DEF Reserved, Flags, FieldFlags
<1>4. Only(w, "--append", 1) /\ Only(w, "-j", 9) /\ Only(w, "-p", 3) /\ Only(w, "--dport", 7)
    BY <1>1, <1>2, <1>3 DEF Only
<1>5. Without(w, "--delete") /\ Without(w, "-t") /\ Without(w, "-i") /\ Without(w, "-o") /\ Without(w, "-s")
      /\ Without(w, "-d") /\ Without(w, "--sport") /\ Without(w, "--tcp-flags") /\ Without(w, "--mark")
      /\ Without(w, "--to-ports")
    BY <1>1, <1>2, <1>3 DEF Without
<1>6. \A unset : A!Word(w, "--append", unset) = "INPUT" /\ A!Word(w, "-j", unset) = "ACCEPT" /\ A!Word(w,
                "-p", unset) = protocol /\ A!Word(w, "--dport", unset) = port
    BY <1>1, <1>4, WordThere
<1>7. \A unset : A!Word(w, "--delete", unset) = unset /\ A!Word(w, "-t", unset) = unset /\ A!Word(w, "-i",
                unset) = unset /\ A!Word(w, "-o", unset) = unset /\ A!Word(w, "-s", unset) = unset
                /\ A!Word(w, "-d", unset) = unset /\ A!Word(w, "--sport", unset) = unset /\ A!Word(w,
                "--tcp-flags", unset) = unset /\ A!Word(w, "--mark", unset) = unset /\ A!Word(w,
                "--to-ports", unset) = unset
    BY <1>1, <1>5, WordMissing
<1>8. F.table = "filter" /\ F.chain = "INPUT" /\ F.target = "ACCEPT" /\ F.protocol = protocol
      /\ F.in = A!Unset /\ F.out = A!Unset /\ F.source = A!Unset /\ F.destination = A!Unset
      /\ F.sport = A!Unset /\ F.dport = port /\ F.to = A!Unset /\ F.flags = A!Unset /\ F.mark = A!Unset
    BY DEF PortAnyFields, NoFields
<1>. HIDE DEF F
<1>9. protocol # A!Unset
    BY LiteralsAreSet
<1>10. port # A!Unset
    BY DEF Reserved
<1>11. Reads(w, F)
    BY <1>6, <1>7, <1>8, <1>9, <1>10, LiteralsAreSet DEF Reads, Or, A!Table, A!Chain
<1>. QED BY <1>11 DEF w, F

\* How the instruction that deletes the rule for a redirection of an interface is parsed.
LEMMA RedirectOfParsed ==
    ASSUME NEW intf, NEW protocol, NEW port, NEW to, intf \notin Reserved, port \notin Reserved,
           to \notin Reserved, protocol \in {"tcp", "udp"}
    PROVE  Says(A!ParseInstruction(RedirectOfWords("--delete", intf, protocol, port, to)),
           RedirectOfFields(intf, protocol, port, to))
<1>. DEFINE w == RedirectOfWords("--delete", intf, protocol, port, to)
            j1 == [A!Blank EXCEPT !.table = "nat"]
            j2 == [j1 EXCEPT !.append = FALSE, !.chain = "PREROUTING"]
            j3 == [j2 EXCEPT !.in = intf]
            j4 == [j3 EXCEPT !.protocol = protocol]
            j5 == [j4 EXCEPT !.destinationPort = port]
            j6 == [j5 EXCEPT !.target = "REDIRECT"]
            j7 == [j6 EXCEPT !.toPorts = <<to>>]
            i == A!ParseInstruction(w)
            F == RedirectOfFields(intf, protocol, port, to)
<1>1. Len(w) = 14 /\ Len(w) \in Nat /\ w[1] = "-t" /\ w[2] = "nat" /\ w[3] = "--delete"
      /\ w[4] = "PREROUTING" /\ w[5] = "-i" /\ w[6] = intf /\ w[7] = "-p" /\ w[8] = protocol
      /\ w[9] = "--dport" /\ w[10] = port /\ w[11] = "-j" /\ w[12] = "REDIRECT" /\ w[13] = "--to-ports"
      /\ w[14] = to
    BY DEF RedirectOfWords
<1>. HIDE DEF w, j1, j2, j3, j4, j5, j6, j7, i
<1>2. At(w, 1, A!Blank)
    BY <1>1, AtStart
<1>3. At(w, 3, j1)
    <2>1. 1 \in 1..(Len(w) - 1) /\ w[1] = "-t" /\ w[1 + 1] = "nat" /\ 3 = 1 + 2 /\ "-t" \in FieldFlags
        BY <1>1 DEF FieldFlags
    <2>2. At(w, 3, [A!Blank EXCEPT ![A!FieldOf["-t"]] = "nat"])
        BY <1>1, <1>2, <2>1, TakesField, Zenon
    <2>. QED BY <2>2, FieldsAre DEF j1
<1>4. At(w, 5, j2)
    <2>1. 3 \in 1..(Len(w) - 1) /\ w[3] = "--delete" /\ w[3 + 1] = "PREROUTING" /\ 5 = 3 + 2
        BY <1>1
    <2>. QED BY <1>1, <1>3, <2>1, TakesDeleted, Zenon DEF j2
<1>5. At(w, 7, j3)
    <2>1. 5 \in 1..(Len(w) - 1) /\ w[5] = "-i" /\ w[5 + 1] = intf /\ 7 = 5 + 2 /\ "-i" \in FieldFlags
        BY <1>1 DEF FieldFlags
    <2>2. At(w, 7, [j2 EXCEPT ![A!FieldOf["-i"]] = intf])
        BY <1>1, <1>4, <2>1, TakesField, Zenon
    <2>. QED BY <2>2, FieldsAre DEF j3
<1>6. At(w, 9, j4)
    <2>1. 7 \in 1..(Len(w) - 1) /\ w[7] = "-p" /\ w[7 + 1] = protocol /\ 9 = 7 + 2 /\ "-p" \in FieldFlags
        BY <1>1 DEF FieldFlags
    <2>2. At(w, 9, [j3 EXCEPT ![A!FieldOf["-p"]] = protocol])
        BY <1>1, <1>5, <2>1, TakesField, Zenon
    <2>. QED BY <2>2, FieldsAre DEF j4
<1>7. At(w, 11, j5)
    <2>1. 9 \in 1..(Len(w) - 1) /\ w[9] = "--dport" /\ w[9 + 1] = port /\ 11 = 9 + 2 /\ "--dport" \in FieldFlags
        BY <1>1 DEF FieldFlags
    <2>2. At(w, 11, [j4 EXCEPT ![A!FieldOf["--dport"]] = port])
        BY <1>1, <1>6, <2>1, TakesField, Zenon
    <2>. QED BY <2>2, FieldsAre DEF j5
<1>8. At(w, 13, j6)
    <2>1. 11 \in 1..(Len(w) - 1) /\ w[11] = "-j" /\ w[11 + 1] = "REDIRECT" /\ 13 = 11 + 2 /\ "-j" \in FieldFlags
        BY <1>1 DEF FieldFlags
    <2>2. At(w, 13, [j5 EXCEPT ![A!FieldOf["-j"]] = "REDIRECT"])
        BY <1>1, <1>7, <2>1, TakesField, Zenon
    <2>. QED BY <2>2, FieldsAre DEF j6
<1>9. At(w, 15, j7)
    <2>1. 13 \in 1..(Len(w) - 1) /\ w[13] = "--to-ports" /\ w[13 + 1] = to /\ 15 = 13 + 2
        BY <1>1
    <2>. QED BY <1>1, <1>8, <2>1, TakesToPorts, Zenon DEF j7
<1>10. i = IF j7.table = A!Unset THEN [j7 EXCEPT !.table = "filter"] ELSE j7
    <2>1. 15 = Len(w) + 1
        BY <1>1
    <2>. QED BY <1>1, <1>9, <2>1, AtEnd DEF i
<1>11. j7.table = "nat"
    BY DEF j1, j2, j3, j4, j5, j6, j7, A!Blank, A!NoMark
<1>12. i = j7
    BY <1>10, <1>11, LiteralsAreSet
<1>13. i.ok = TRUE /\ i.chain = "PREROUTING" /\ i.target = "REDIRECT" /\ i.protocol = protocol /\ i.in = intf
      /\ i.out = A!Unset /\ i.source = A!NoPrefix /\ i.destination = A!NoPrefix /\ i.sourcePort = "0"
      /\ i.destinationPort = port /\ i.toPorts = <<to>> /\ i.ctstate = <<>> /\ i.tcpFlags = <<>>
      /\ i.mark = A!NoMark /\ i.table = "nat"
    BY <1>12 DEF j1, j2, j3, j4, j5, j6, j7, A!Blank, A!NoMark
<1>14. F.table = "nat" /\ F.chain = "PREROUTING" /\ F.target = "REDIRECT" /\ F.protocol = protocol
      /\ F.in = intf /\ F.out = A!Unset /\ F.source = A!Unset /\ F.destination = A!Unset
      /\ F.sport = A!Unset /\ F.dport = port /\ F.to = to /\ F.flags = A!Unset /\ F.mark = A!Unset
    BY DEF RedirectOfFields, NoFields
<1>. HIDE DEF F
<1>15. intf # A!Unset
    BY DEF Reserved
<1>16. protocol # A!Unset
    BY LiteralsAreSet
<1>17. port # A!Unset
    BY DEF Reserved
<1>18. to # A!Unset
    BY DEF Reserved
<1>19. Says(i, F)
    BY <1>13, <1>14, <1>15, <1>16, <1>17, <1>18, LiteralsAreSet DEF Says, Or, One, FlagsOf, MarkOf
<1>. QED BY <1>19 DEF w, i, F

\* What iptables reads in the instruction that adds it.
LEMMA RedirectOfRead ==
    ASSUME NEW intf, NEW protocol, NEW port, NEW to, intf \notin Reserved, port \notin Reserved,
           to \notin Reserved, protocol \in {"tcp", "udp"}
    PROVE  Reads(RedirectOfWords("--append", intf, protocol, port, to), RedirectOfFields(intf, protocol, port,
           to))
<1>. DEFINE w == RedirectOfWords("--append", intf, protocol, port, to)  F == RedirectOfFields(intf, protocol,
      port, to)
<1>1. Len(w) = 14 /\ Len(w) \in Nat /\ w[1] = "-t" /\ w[2] = "nat" /\ w[3] = "--append"
      /\ w[4] = "PREROUTING" /\ w[5] = "-i" /\ w[6] = intf /\ w[7] = "-p" /\ w[8] = protocol
      /\ w[9] = "--dport" /\ w[10] = port /\ w[11] = "-j" /\ w[12] = "REDIRECT" /\ w[13] = "--to-ports"
      /\ w[14] = to
    BY DEF RedirectOfWords
<1>. HIDE DEF w
<1>2. \A m \in 1..(Len(w) - 1) : m = 1 \/ m = 2 \/ m = 3 \/ m = 4 \/ m = 5 \/ m = 6 \/ m = 7 \/ m = 8
      \/ m = 9 \/ m = 10 \/ m = 11
          \/ m = 12 \/ m = 13
    BY <1>1
<1>3. intf # "--append" /\ intf # "--delete" /\ intf # "-t" /\ intf # "-j" /\ intf # "-p" /\ intf # "-i"
      /\ intf # "-o" /\ intf # "-s" /\ intf # "-d" /\ intf # "--sport" /\ intf # "--dport"
      /\ intf # "--tcp-flags" /\ intf # "--mark" /\ intf # "--to-ports" /\ protocol # "--append"
      /\ protocol # "--delete" /\ protocol # "-t" /\ protocol # "-j" /\ protocol # "-p" /\ protocol # "-i"
      /\ protocol # "-o" /\ protocol # "-s" /\ protocol # "-d" /\ protocol # "--sport"
      /\ protocol # "--dport" /\ protocol # "--tcp-flags" /\ protocol # "--mark" /\ protocol # "--to-ports"
      /\ port # "--append" /\ port # "--delete" /\ port # "-t" /\ port # "-j" /\ port # "-p" /\ port # "-i"
      /\ port # "-o" /\ port # "-s" /\ port # "-d" /\ port # "--sport" /\ port # "--dport"
      /\ port # "--tcp-flags" /\ port # "--mark" /\ port # "--to-ports" /\ to # "--append"
      /\ to # "--delete" /\ to # "-t" /\ to # "-j" /\ to # "-p" /\ to # "-i" /\ to # "-o" /\ to # "-s"
      /\ to # "-d" /\ to # "--sport" /\ to # "--dport" /\ to # "--tcp-flags" /\ to # "--mark"
      /\ to # "--to-ports"
    BY DEF Reserved, Flags, FieldFlags
<1>4. Only(w, "--append", 3) /\ Only(w, "-t", 1) /\ Only(w, "-j", 11) /\ Only(w, "-p", 7) /\ Only(w, "-i",
      5) /\ Only(w, "--dport", 9) /\ Only(w, "--to-ports", 13)
    BY <1>1, <1>2, <1>3 DEF Only
<1>5. Without(w, "--delete") /\ Without(w, "-o") /\ Without(w, "-s") /\ Without(w, "-d") /\ Without(w,
      "--sport") /\ Without(w, "--tcp-flags") /\ Without(w, "--mark")
    BY <1>1, <1>2, <1>3 DEF Without
<1>6. \A unset : A!Word(w, "--append", unset) = "PREROUTING" /\ A!Word(w, "-t", unset) = "nat" /\ A!Word(w,
                "-j", unset) = "REDIRECT" /\ A!Word(w, "-p", unset) = protocol /\ A!Word(w, "-i",
                unset) = intf /\ A!Word(w, "--dport", unset) = port /\ A!Word(w, "--to-ports", unset) = to
    BY <1>1, <1>4, WordThere
<1>7. \A unset : A!Word(w, "--delete", unset) = unset /\ A!Word(w, "-o", unset) = unset /\ A!Word(w, "-s",
                unset) = unset /\ A!Word(w, "-d", unset) = unset /\ A!Word(w, "--sport", unset) = unset
                /\ A!Word(w, "--tcp-flags", unset) = unset /\ A!Word(w, "--mark", unset) = unset
    BY <1>1, <1>5, WordMissing
<1>8. F.table = "nat" /\ F.chain = "PREROUTING" /\ F.target = "REDIRECT" /\ F.protocol = protocol
      /\ F.in = intf /\ F.out = A!Unset /\ F.source = A!Unset /\ F.destination = A!Unset
      /\ F.sport = A!Unset /\ F.dport = port /\ F.to = to /\ F.flags = A!Unset /\ F.mark = A!Unset
    BY DEF RedirectOfFields, NoFields
<1>. HIDE DEF F
<1>9. intf # A!Unset
    BY DEF Reserved
<1>10. protocol # A!Unset
    BY LiteralsAreSet
<1>11. port # A!Unset
    BY DEF Reserved
<1>12. to # A!Unset
    BY DEF Reserved
<1>13. Reads(w, F)
    BY <1>6, <1>7, <1>8, <1>9, <1>10, <1>11, <1>12, LiteralsAreSet DEF Reads, Or, A!Table, A!Chain
<1>. QED BY <1>13 DEF w, F

\* How the instruction that deletes the rule for a redirection of any interface is parsed.
LEMMA RedirectAnyParsed ==
    ASSUME NEW protocol, NEW port, NEW to, port \notin Reserved, to \notin Reserved, protocol \in {"tcp",
           "udp"}
    PROVE  Says(A!ParseInstruction(RedirectAnyWords("--delete", protocol, port, to)),
           RedirectAnyFields(protocol, port, to))
<1>. DEFINE w == RedirectAnyWords("--delete", protocol, port, to)
            j1 == [A!Blank EXCEPT !.table = "nat"]
            j2 == [j1 EXCEPT !.append = FALSE, !.chain = "PREROUTING"]
            j3 == [j2 EXCEPT !.protocol = protocol]
            j4 == [j3 EXCEPT !.destinationPort = port]
            j5 == [j4 EXCEPT !.target = "REDIRECT"]
            j6 == [j5 EXCEPT !.toPorts = <<to>>]
            i == A!ParseInstruction(w)
            F == RedirectAnyFields(protocol, port, to)
<1>1. Len(w) = 12 /\ Len(w) \in Nat /\ w[1] = "-t" /\ w[2] = "nat" /\ w[3] = "--delete"
      /\ w[4] = "PREROUTING" /\ w[5] = "-p" /\ w[6] = protocol /\ w[7] = "--dport" /\ w[8] = port
      /\ w[9] = "-j" /\ w[10] = "REDIRECT" /\ w[11] = "--to-ports" /\ w[12] = to
    BY DEF RedirectAnyWords
<1>. HIDE DEF w, j1, j2, j3, j4, j5, j6, i
<1>2. At(w, 1, A!Blank)
    BY <1>1, AtStart
<1>3. At(w, 3, j1)
    <2>1. 1 \in 1..(Len(w) - 1) /\ w[1] = "-t" /\ w[1 + 1] = "nat" /\ 3 = 1 + 2 /\ "-t" \in FieldFlags
        BY <1>1 DEF FieldFlags
    <2>2. At(w, 3, [A!Blank EXCEPT ![A!FieldOf["-t"]] = "nat"])
        BY <1>1, <1>2, <2>1, TakesField, Zenon
    <2>. QED BY <2>2, FieldsAre DEF j1
<1>4. At(w, 5, j2)
    <2>1. 3 \in 1..(Len(w) - 1) /\ w[3] = "--delete" /\ w[3 + 1] = "PREROUTING" /\ 5 = 3 + 2
        BY <1>1
    <2>. QED BY <1>1, <1>3, <2>1, TakesDeleted, Zenon DEF j2
<1>5. At(w, 7, j3)
    <2>1. 5 \in 1..(Len(w) - 1) /\ w[5] = "-p" /\ w[5 + 1] = protocol /\ 7 = 5 + 2 /\ "-p" \in FieldFlags
        BY <1>1 DEF FieldFlags
    <2>2. At(w, 7, [j2 EXCEPT ![A!FieldOf["-p"]] = protocol])
        BY <1>1, <1>4, <2>1, TakesField, Zenon
    <2>. QED BY <2>2, FieldsAre DEF j3
<1>6. At(w, 9, j4)
    <2>1. 7 \in 1..(Len(w) - 1) /\ w[7] = "--dport" /\ w[7 + 1] = port /\ 9 = 7 + 2 /\ "--dport" \in FieldFlags
        BY <1>1 DEF FieldFlags
    <2>2. At(w, 9, [j3 EXCEPT ![A!FieldOf["--dport"]] = port])
        BY <1>1, <1>5, <2>1, TakesField, Zenon
    <2>. QED BY <2>2, FieldsAre DEF j4
<1>7. At(w, 11, j5)
    <2>1. 9 \in 1..(Len(w) - 1) /\ w[9] = "-j" /\ w[9 + 1] = "REDIRECT" /\ 11 = 9 + 2 /\ "-j" \in FieldFlags
        BY <1>1 DEF FieldFlags
    <2>2. At(w, 11, [j4 EXCEPT ![A!FieldOf["-j"]] = "REDIRECT"])
        BY <1>1, <1>6, <2>1, TakesField, Zenon
    <2>. QED BY <2>2, FieldsAre DEF j5
<1>8. At(w, 13, j6)
    <2>1. 11 \in 1..(Len(w) - 1) /\ w[11] = "--to-ports" /\ w[11 + 1] = to /\ 13 = 11 + 2
        BY <1>1
    <2>. QED BY <1>1, <1>7, <2>1, TakesToPorts, Zenon DEF j6
<1>9. i = IF j6.table = A!Unset THEN [j6 EXCEPT !.table = "filter"] ELSE j6
    <2>1. 13 = Len(w) + 1
        BY <1>1
    <2>. QED BY <1>1, <1>8, <2>1, AtEnd DEF i
<1>10. j6.table = "nat"
    BY DEF j1, j2, j3, j4, j5, j6, A!Blank, A!NoMark
<1>11. i = j6
    BY <1>9, <1>10, LiteralsAreSet
<1>12. i.ok = TRUE /\ i.chain = "PREROUTING" /\ i.target = "REDIRECT" /\ i.protocol = protocol
      /\ i.in = A!Unset /\ i.out = A!Unset /\ i.source = A!NoPrefix /\ i.destination = A!NoPrefix
      /\ i.sourcePort = "0" /\ i.destinationPort = port /\ i.toPorts = <<to>> /\ i.ctstate = <<>>
      /\ i.tcpFlags = <<>> /\ i.mark = A!NoMark /\ i.table = "nat"
    BY <1>11 DEF j1, j2, j3, j4, j5, j6, A!Blank, A!NoMark
<1>13. F.table = "nat" /\ F.chain = "PREROUTING" /\ F.target = "REDIRECT" /\ F.protocol = protocol
      /\ F.in = A!Unset /\ F.out = A!Unset /\ F.source = A!Unset /\ F.destination = A!Unset
      /\ F.sport = A!Unset /\ F.dport = port /\ F.to = to /\ F.flags = A!Unset /\ F.mark = A!Unset
    BY DEF RedirectAnyFields, NoFields
<1>. HIDE DEF F
<1>14. protocol # A!Unset
    BY LiteralsAreSet
<1>15. port # A!Unset
    BY DEF Reserved
<1>16. to # A!Unset
    BY DEF Reserved
<1>17. Says(i, F)
    BY <1>12, <1>13, <1>14, <1>15, <1>16, LiteralsAreSet DEF Says, Or, One, FlagsOf, MarkOf
<1>. QED BY <1>17 DEF w, i, F

\* What iptables reads in the instruction that adds it.
LEMMA RedirectAnyRead ==
    ASSUME NEW protocol, NEW port, NEW to, port \notin Reserved, to \notin Reserved, protocol \in {"tcp",
           "udp"}
    PROVE  Reads(RedirectAnyWords("--append", protocol, port, to), RedirectAnyFields(protocol, port, to))
<1>. DEFINE w == RedirectAnyWords("--append", protocol, port, to)  F == RedirectAnyFields(protocol, port, to)
<1>1. Len(w) = 12 /\ Len(w) \in Nat /\ w[1] = "-t" /\ w[2] = "nat" /\ w[3] = "--append"
      /\ w[4] = "PREROUTING" /\ w[5] = "-p" /\ w[6] = protocol /\ w[7] = "--dport" /\ w[8] = port
      /\ w[9] = "-j" /\ w[10] = "REDIRECT" /\ w[11] = "--to-ports" /\ w[12] = to
    BY DEF RedirectAnyWords
<1>. HIDE DEF w
<1>2. \A m \in 1..(Len(w) - 1) : m = 1 \/ m = 2 \/ m = 3 \/ m = 4 \/ m = 5 \/ m = 6 \/ m = 7 \/ m = 8
      \/ m = 9 \/ m = 10 \/ m = 11
    BY <1>1
<1>3. protocol # "--append" /\ protocol # "--delete" /\ protocol # "-t" /\ protocol # "-j"
      /\ protocol # "-p" /\ protocol # "-i" /\ protocol # "-o" /\ protocol # "-s" /\ protocol # "-d"
      /\ protocol # "--sport" /\ protocol # "--dport" /\ protocol # "--tcp-flags" /\ protocol # "--mark"
      /\ protocol # "--to-ports" /\ port # "--append" /\ port # "--delete" /\ port # "-t" /\ port # "-j"
      /\ port # "-p" /\ port # "-i" /\ port # "-o" /\ port # "-s" /\ port # "-d" /\ port # "--sport"
      /\ port # "--dport" /\ port # "--tcp-flags" /\ port # "--mark" /\ port # "--to-ports"
      /\ to # "--append" /\ to # "--delete" /\ to # "-t" /\ to # "-j" /\ to # "-p" /\ to # "-i" /\ to # "-o"
      /\ to # "-s" /\ to # "-d" /\ to # "--sport" /\ to # "--dport" /\ to # "--tcp-flags" /\ to # "--mark"
      /\ to # "--to-ports"
    BY DEF Reserved, Flags, FieldFlags
<1>4. Only(w, "--append", 3) /\ Only(w, "-t", 1) /\ Only(w, "-j", 9) /\ Only(w, "-p", 5) /\ Only(w,
      "--dport", 7) /\ Only(w, "--to-ports", 11)
    BY <1>1, <1>2, <1>3 DEF Only
<1>5. Without(w, "--delete") /\ Without(w, "-i") /\ Without(w, "-o") /\ Without(w, "-s") /\ Without(w, "-d")
      /\ Without(w, "--sport") /\ Without(w, "--tcp-flags") /\ Without(w, "--mark")
    BY <1>1, <1>2, <1>3 DEF Without
<1>6. \A unset : A!Word(w, "--append", unset) = "PREROUTING" /\ A!Word(w, "-t", unset) = "nat" /\ A!Word(w,
                "-j", unset) = "REDIRECT" /\ A!Word(w, "-p", unset) = protocol /\ A!Word(w, "--dport",
                unset) = port /\ A!Word(w, "--to-ports", unset) = to
    BY <1>1, <1>4, WordThere
<1>7. \A unset : A!Word(w, "--delete", unset) = unset /\ A!Word(w, "-i", unset) = unset /\ A!Word(w, "-o",
                unset) = unset /\ A!Word(w, "-s", unset) = unset /\ A!Word(w, "-d", unset) = unset
                /\ A!Word(w, "--sport", unset) = unset /\ A!Word(w, "--tcp-flags", unset) = unset
                /\ A!Word(w, "--mark", unset) = unset
    BY <1>1, <1>5, WordMissing
<1>8. F.table = "nat" /\ F.chain = "PREROUTING" /\ F.target = "REDIRECT" /\ F.protocol = protocol
      /\ F.in = A!Unset /\ F.out = A!Unset /\ F.source = A!Unset /\ F.destination = A!Unset
      /\ F.sport = A!Unset /\ F.dport = port /\ F.to = to /\ F.flags = A!Unset /\ F.mark = A!Unset
    BY DEF RedirectAnyFields, NoFields
<1>. HIDE DEF F
<1>9. protocol # A!Unset
    BY LiteralsAreSet
<1>10. port # A!Unset
    BY DEF Reserved
<1>11. to # A!Unset
    BY DEF Reserved
<1>12. Reads(w, F)
    BY <1>6, <1>7, <1>8, <1>9, <1>10, <1>11, LiteralsAreSet DEF Reads, Or, A!Table, A!Chain
<1>. QED BY <1>12 DEF w, F

\* How the instruction that deletes the rule for the resets of a connection is parsed.
LEMMA ResetParsed ==
    ASSUME NEW ip, NEW sport, NEW peer, NEW port, NEW mark, ip \notin Reserved, sport \notin Reserved,
           peer \notin Reserved, port \notin Reserved, mark \notin Reserved
    PROVE  Says(A!ParseInstruction(ResetWords("--delete", ip, sport, peer, port, mark)), ResetFields(ip, sport,
           peer, port, mark))
<1>. DEFINE w == ResetWords("--delete", ip, sport, peer, port, mark)
            j1 == [A!Blank EXCEPT !.append = FALSE, !.chain = "OUTPUT"]
            j2 == [j1 EXCEPT !.protocol = "tcp"]
            j3 == [j2 EXCEPT !.source = ip]
            j4 == [j3 EXCEPT !.sourcePort = sport]
            j5 == [j4 EXCEPT !.destination = peer]
            j6 == [j5 EXCEPT !.destinationPort = port]
            j7 == [j6 EXCEPT !.tcpFlags = <<"RST", "RST">>]
            j8 == [j7 EXCEPT !.mark.invert = TRUE]
            j9 == [j8 EXCEPT !.mark.value = mark]
            j10 == [j9 EXCEPT !.target = "DROP"]
            i == A!ParseInstruction(w)
            F == ResetFields(ip, sport, peer, port, mark)
<1>1. Len(w) = 22 /\ Len(w) \in Nat /\ w[1] = "--delete" /\ w[2] = "OUTPUT" /\ w[3] = "-p" /\ w[4] = "tcp"
      /\ w[5] = "-s" /\ w[6] = ip /\ w[7] = "--sport" /\ w[8] = sport /\ w[9] = "-d" /\ w[10] = peer
      /\ w[11] = "--dport" /\ w[12] = port /\ w[13] = "--tcp-flags" /\ w[14] = "RST" /\ w[15] = "RST"
      /\ w[16] = "-m" /\ w[17] = "mark" /\ w[18] = "!" /\ w[19] = "--mark" /\ w[20] = mark /\ w[21] = "-j"
      /\ w[22] = "DROP"
    BY DEF ResetWords
<1>. HIDE DEF w, j1, j2, j3, j4, j5, j6, j7, j8, j9, j10, i
<1>2. At(w, 1, A!Blank)
    BY <1>1, AtStart
<1>3. At(w, 3, j1)
    <2>1. 1 \in 1..(Len(w) - 1) /\ w[1] = "--delete" /\ w[1 + 1] = "OUTPUT" /\ 3 = 1 + 2
        BY <1>1
    <2>. QED BY <1>1, <1>2, <2>1, TakesDeleted, Zenon DEF j1
<1>4. At(w, 5, j2)
    <2>1. 3 \in 1..(Len(w) - 1) /\ w[3] = "-p" /\ w[3 + 1] = "tcp" /\ 5 = 3 + 2 /\ "-p" \in FieldFlags
        BY <1>1 DEF FieldFlags
    <2>2. At(w, 5, [j1 EXCEPT ![A!FieldOf["-p"]] = "tcp"])
        BY <1>1, <1>3, <2>1, TakesField, Zenon
    <2>. QED BY <2>2, FieldsAre DEF j2
<1>5. At(w, 7, j3)
    <2>1. 5 \in 1..(Len(w) - 1) /\ w[5] = "-s" /\ w[5 + 1] = ip /\ 7 = 5 + 2 /\ "-s" \in FieldFlags
        BY <1>1 DEF FieldFlags
    <2>2. At(w, 7, [j2 EXCEPT ![A!FieldOf["-s"]] = ip])
        BY <1>1, <1>4, <2>1, TakesField, Zenon
    <2>. QED BY <2>2, FieldsAre DEF j3
<1>6. At(w, 9, j4)
    <2>1. 7 \in 1..(Len(w) - 1) /\ w[7] = "--sport" /\ w[7 + 1] = sport /\ 9 = 7 + 2 /\ "--sport" \in FieldFlags
        BY <1>1 DEF FieldFlags
    <2>2. At(w, 9, [j3 EXCEPT ![A!FieldOf["--sport"]] = sport])
        BY <1>1, <1>5, <2>1, TakesField, Zenon
    <2>. QED BY <2>2, FieldsAre DEF j4
<1>7. At(w, 11, j5)
    <2>1. 9 \in 1..(Len(w) - 1) /\ w[9] = "-d" /\ w[9 + 1] = peer /\ 11 = 9 + 2 /\ "-d" \in FieldFlags
        BY <1>1 DEF FieldFlags
    <2>2. At(w, 11, [j4 EXCEPT ![A!FieldOf["-d"]] = peer])
        BY <1>1, <1>6, <2>1, TakesField, Zenon
    <2>. QED BY <2>2, FieldsAre DEF j5
<1>8. At(w, 13, j6)
    <2>1. 11 \in 1..(Len(w) - 1) /\ w[11] = "--dport" /\ w[11 + 1] = port /\ 13 = 11 + 2
          /\ "--dport" \in FieldFlags
        BY <1>1 DEF FieldFlags
    <2>2. At(w, 13, [j5 EXCEPT ![A!FieldOf["--dport"]] = port])
        BY <1>1, <1>7, <2>1, TakesField, Zenon
    <2>. QED BY <2>2, FieldsAre DEF j6
<1>9. At(w, 16, j7)
    <2>1. 13 \in 1..(Len(w) - 2) /\ w[13] = "--tcp-flags" /\ w[13 + 1] = "RST" /\ w[13 + 2] = "RST"
          /\ 16 = 13 + 3
        BY <1>1
    <2>. QED BY <1>1, <1>8, <2>1, TakesFlags, Zenon DEF j7
<1>10. At(w, 19, j8)
    <2>1. 16 \in 1..(Len(w) - 2) /\ w[16] = "-m" /\ w[16 + 1] = "mark" /\ w[16 + 2] = "!" /\ 19 = 16 + 3
        BY <1>1
    <2>. QED BY <1>1, <1>9, <2>1, TakesInverted, Zenon DEF j8
<1>11. At(w, 21, j9)
    <2>1. 19 \in 1..(Len(w) - 1) /\ w[19] = "--mark" /\ w[19 + 1] = mark /\ 21 = 19 + 2
        BY <1>1
    <2>. QED BY <1>1, <1>10, <2>1, TakesMark, Zenon DEF j9
<1>12. At(w, 23, j10)
    <2>1. 21 \in 1..(Len(w) - 1) /\ w[21] = "-j" /\ w[21 + 1] = "DROP" /\ 23 = 21 + 2 /\ "-j" \in FieldFlags
        BY <1>1 DEF FieldFlags
    <2>2. At(w, 23, [j9 EXCEPT ![A!FieldOf["-j"]] = "DROP"])
        BY <1>1, <1>11, <2>1, TakesField, Zenon
    <2>. QED BY <2>2, FieldsAre DEF j10
<1>13. i = IF j10.table = A!Unset THEN [j10 EXCEPT !.table = "filter"] ELSE j10
    <2>1. 23 = Len(w) + 1
        BY <1>1
    <2>. QED BY <1>1, <1>12, <2>1, AtEnd DEF i
<1>14. j10.table = A!Unset
    BY DEF j1, j2, j3, j4, j5, j6, j7, j8, j9, j10, A!Blank, A!NoMark
<1>15. i = [j10 EXCEPT !.table = "filter"]
    BY <1>13, <1>14, LiteralsAreSet
<1>16. i.ok = TRUE /\ i.chain = "OUTPUT" /\ i.target = "DROP" /\ i.protocol = "tcp" /\ i.in = A!Unset
      /\ i.out = A!Unset /\ i.source = ip /\ i.destination = peer /\ i.sourcePort = sport
      /\ i.destinationPort = port /\ i.toPorts = <<>> /\ i.ctstate = <<>> /\ i.tcpFlags = <<"RST", "RST">>
      /\ i.mark = [invert |-> TRUE, value |-> mark] /\ i.table = "filter"
    <2>1. i.ok = TRUE
        BY <1>15 DEF j1, j2, j3, j4, j5, j6, j7, j8, j9, j10, A!Blank, A!NoMark
    <2>2. i.chain = "OUTPUT"
        BY <1>15 DEF j1, j2, j3, j4, j5, j6, j7, j8, j9, j10, A!Blank, A!NoMark
    <2>3. i.target = "DROP"
        BY <1>15 DEF j1, j2, j3, j4, j5, j6, j7, j8, j9, j10, A!Blank, A!NoMark
    <2>4. i.protocol = "tcp"
        BY <1>15 DEF j1, j2, j3, j4, j5, j6, j7, j8, j9, j10, A!Blank, A!NoMark
    <2>5. i.in = A!Unset
        BY <1>15 DEF j1, j2, j3, j4, j5, j6, j7, j8, j9, j10, A!Blank, A!NoMark
    <2>6. i.out = A!Unset
        BY <1>15 DEF j1, j2, j3, j4, j5, j6, j7, j8, j9, j10, A!Blank, A!NoMark
    <2>7. i.source = ip
        BY <1>15 DEF j1, j2, j3, j4, j5, j6, j7, j8, j9, j10, A!Blank, A!NoMark
    <2>8. i.destination = peer
        BY <1>15 DEF j1, j2, j3, j4, j5, j6, j7, j8, j9, j10, A!Blank, A!NoMark
    <2>9. i.sourcePort = sport
        BY <1>15 DEF j1, j2, j3, j4, j5, j6, j7, j8, j9, j10, A!Blank, A!NoMark
    <2>10. i.destinationPort = port
        BY <1>15 DEF j1, j2, j3, j4, j5, j6, j7, j8, j9, j10, A!Blank, A!NoMark
    <2>11. i.toPorts = <<>>
        BY <1>15 DEF j1, j2, j3, j4, j5, j6, j7, j8, j9, j10, A!Blank, A!NoMark
    <2>12. i.ctstate = <<>>
        BY <1>15 DEF j1, j2, j3, j4, j5, j6, j7, j8, j9, j10, A!Blank, A!NoMark
    <2>13. i.tcpFlags = <<"RST", "RST">>
        BY <1>15 DEF j1, j2, j3, j4, j5, j6, j7, j8, j9, j10, A!Blank, A!NoMark
    <2>14. i.mark = [invert |-> TRUE, value |-> mark]
        <3>1. j7.mark = A!NoMark /\ "mark" \in DOMAIN j7
            BY DEF j1, j2, j3, j4, j5, j6, j7, A!Blank
        <3>2. j8.mark = [A!NoMark EXCEPT !.invert = TRUE] /\ "mark" \in DOMAIN j8
            BY <3>1 DEF j8
        <3>3. j9.mark = [j8.mark EXCEPT !.value = mark] /\ "mark" \in DOMAIN j9
            BY <3>2 DEF j9
        <3>4. i.mark = j9.mark
            BY <3>3, <1>15 DEF j10
        <3>. QED BY <3>2, <3>3, <3>4 DEF A!NoMark
    <2>15. i.table = "filter"
        BY <1>15 DEF j1, j2, j3, j4, j5, j6, j7, j8, j9, j10, A!Blank, A!NoMark
    <2>. QED BY <2>1, <2>2, <2>3, <2>4, <2>5, <2>6, <2>7, <2>8, <2>9, <2>10, <2>11, <2>12, <2>13, <2>14, <2>15
<1>17. F.table = "filter" /\ F.chain = "OUTPUT" /\ F.target = "DROP" /\ F.protocol = "tcp" /\ F.in = A!Unset
      /\ F.out = A!Unset /\ F.source = ip /\ F.destination = peer /\ F.sport = sport /\ F.dport = port
      /\ F.to = A!Unset /\ F.flags = "RST" /\ F.mark = mark
    BY DEF ResetFields, NoFields
<1>. HIDE DEF F
<1>18. ip # A!Unset
    BY DEF Reserved
<1>19. sport # A!Unset
    BY DEF Reserved
<1>20. peer # A!Unset
    BY DEF Reserved
<1>21. port # A!Unset
    BY DEF Reserved
<1>22. mark # A!Unset
    BY DEF Reserved
<1>23. Says(i, F)
    BY <1>16, <1>17, <1>18, <1>19, <1>20, <1>21, <1>22, LiteralsAreSet DEF Says, Or, One, FlagsOf, MarkOf
<1>. QED BY <1>23 DEF w, i, F

\* What iptables reads in the instruction that adds it.
LEMMA ResetRead ==
    ASSUME NEW ip, NEW sport, NEW peer, NEW port, NEW mark, ip \notin Reserved, sport \notin Reserved,
           peer \notin Reserved, port \notin Reserved, mark \notin Reserved
    PROVE  Reads(ResetWords("--append", ip, sport, peer, port, mark), ResetFields(ip, sport, peer, port, mark))
<1>. DEFINE w == ResetWords("--append", ip, sport, peer, port, mark)  F == ResetFields(ip, sport, peer, port,
      mark)
<1>1. Len(w) = 22 /\ Len(w) \in Nat /\ w[1] = "--append" /\ w[2] = "OUTPUT" /\ w[3] = "-p" /\ w[4] = "tcp"
      /\ w[5] = "-s" /\ w[6] = ip /\ w[7] = "--sport" /\ w[8] = sport /\ w[9] = "-d" /\ w[10] = peer
      /\ w[11] = "--dport" /\ w[12] = port /\ w[13] = "--tcp-flags" /\ w[14] = "RST" /\ w[15] = "RST"
      /\ w[16] = "-m" /\ w[17] = "mark" /\ w[18] = "!" /\ w[19] = "--mark" /\ w[20] = mark /\ w[21] = "-j"
      /\ w[22] = "DROP"
    BY DEF ResetWords
<1>. HIDE DEF w
<1>2. \A m \in 1..(Len(w) - 1) : m = 1 \/ m = 2 \/ m = 3 \/ m = 4 \/ m = 5 \/ m = 6 \/ m = 7 \/ m = 8
      \/ m = 9 \/ m = 10 \/ m = 11
          \/ m = 12 \/ m = 13 \/ m = 14 \/ m = 15 \/ m = 16 \/ m = 17 \/ m = 18 \/ m = 19 \/ m = 20
          \/ m = 21
    BY <1>1
<1>3. ip # "--append" /\ ip # "--delete" /\ ip # "-t" /\ ip # "-j" /\ ip # "-p" /\ ip # "-i" /\ ip # "-o"
      /\ ip # "-s" /\ ip # "-d" /\ ip # "--sport" /\ ip # "--dport" /\ ip # "--tcp-flags" /\ ip # "--mark"
      /\ ip # "--to-ports" /\ sport # "--append" /\ sport # "--delete" /\ sport # "-t" /\ sport # "-j"
      /\ sport # "-p" /\ sport # "-i" /\ sport # "-o" /\ sport # "-s" /\ sport # "-d" /\ sport # "--sport"
      /\ sport # "--dport" /\ sport # "--tcp-flags" /\ sport # "--mark" /\ sport # "--to-ports"
      /\ peer # "--append" /\ peer # "--delete" /\ peer # "-t" /\ peer # "-j" /\ peer # "-p" /\ peer # "-i"
      /\ peer # "-o" /\ peer # "-s" /\ peer # "-d" /\ peer # "--sport" /\ peer # "--dport"
      /\ peer # "--tcp-flags" /\ peer # "--mark" /\ peer # "--to-ports" /\ port # "--append"
      /\ port # "--delete" /\ port # "-t" /\ port # "-j" /\ port # "-p" /\ port # "-i" /\ port # "-o"
      /\ port # "-s" /\ port # "-d" /\ port # "--sport" /\ port # "--dport" /\ port # "--tcp-flags"
      /\ port # "--mark" /\ port # "--to-ports" /\ mark # "--append" /\ mark # "--delete" /\ mark # "-t"
      /\ mark # "-j" /\ mark # "-p" /\ mark # "-i" /\ mark # "-o" /\ mark # "-s" /\ mark # "-d"
      /\ mark # "--sport" /\ mark # "--dport" /\ mark # "--tcp-flags" /\ mark # "--mark"
      /\ mark # "--to-ports"
    BY DEF Reserved, Flags, FieldFlags
<1>4. Only(w, "--append", 1) /\ Only(w, "-j", 21) /\ Only(w, "-p", 3) /\ Only(w, "-s", 5) /\ Only(w, "-d",
      9) /\ Only(w, "--sport", 7) /\ Only(w, "--dport", 11) /\ Only(w, "--tcp-flags", 13) /\ Only(w,
      "--mark", 19)
    BY <1>1, <1>2, <1>3 DEF Only
<1>5. Without(w, "--delete") /\ Without(w, "-t") /\ Without(w, "-i") /\ Without(w, "-o") /\ Without(w,
      "--to-ports")
    BY <1>1, <1>2, <1>3 DEF Without
<1>6. \A unset : A!Word(w, "--append", unset) = "OUTPUT" /\ A!Word(w, "-j", unset) = "DROP" /\ A!Word(w,
                "-p", unset) = "tcp" /\ A!Word(w, "-s", unset) = ip /\ A!Word(w, "-d", unset) = peer
                /\ A!Word(w, "--sport", unset) = sport /\ A!Word(w, "--dport", unset) = port /\ A!Word(w,
                "--tcp-flags", unset) = "RST" /\ A!Word(w, "--mark", unset) = mark
    BY <1>1, <1>4, WordThere
<1>7. \A unset : A!Word(w, "--delete", unset) = unset /\ A!Word(w, "-t", unset) = unset /\ A!Word(w, "-i",
                unset) = unset /\ A!Word(w, "-o", unset) = unset /\ A!Word(w, "--to-ports", unset) = unset
    BY <1>1, <1>5, WordMissing
<1>8. F.table = "filter" /\ F.chain = "OUTPUT" /\ F.target = "DROP" /\ F.protocol = "tcp" /\ F.in = A!Unset
      /\ F.out = A!Unset /\ F.source = ip /\ F.destination = peer /\ F.sport = sport /\ F.dport = port
      /\ F.to = A!Unset /\ F.flags = "RST" /\ F.mark = mark
    BY DEF ResetFields, NoFields
<1>. HIDE DEF F
<1>9. ip # A!Unset
    BY DEF Reserved
<1>10. sport # A!Unset
    BY DEF Reserved
<1>11. peer # A!Unset
    BY DEF Reserved
<1>12. port # A!Unset
    BY DEF Reserved
<1>13. mark # A!Unset
    BY DEF Reserved
<1>14. Reads(w, F)
    BY <1>6, <1>7, <1>8, <1>9, <1>10, <1>11, <1>12, <1>13, LiteralsAreSet DEF Reads, Or, A!Table, A!Chain
<1>. QED BY <1>14 DEF w, F

\* What iptables reads in the instruction that adds it.
LEMMA SubnetInOfRead ==
    ASSUME NEW intf, NEW subnet, intf \notin Reserved, subnet \notin Reserved
    PROVE  Reads(SubnetInOfWords("--append", intf, subnet), SubnetInOfFields(intf, subnet))
<1>. DEFINE w == SubnetInOfWords("--append", intf, subnet)  F == SubnetInOfFields(intf, subnet)
<1>1. Len(w) = 8 /\ Len(w) \in Nat /\ w[1] = "--append" /\ w[2] = "INPUT" /\ w[3] = "-i" /\ w[4] = intf
      /\ w[5] = "-d" /\ w[6] = subnet /\ w[7] = "-j" /\ w[8] = "ACCEPT"
    BY DEF SubnetInOfWords
<1>. HIDE DEF w
<1>2. \A m \in 1..(Len(w) - 1) : m = 1 \/ m = 2 \/ m = 3 \/ m = 4 \/ m = 5 \/ m = 6 \/ m = 7
    BY <1>1
<1>3. intf # "--append" /\ intf # "--delete" /\ intf # "-t" /\ intf # "-j" /\ intf # "-p" /\ intf # "-i"
      /\ intf # "-o" /\ intf # "-s" /\ intf # "-d" /\ intf # "--sport" /\ intf # "--dport"
      /\ intf # "--tcp-flags" /\ intf # "--mark" /\ intf # "--to-ports" /\ subnet # "--append"
      /\ subnet # "--delete" /\ subnet # "-t" /\ subnet # "-j" /\ subnet # "-p" /\ subnet # "-i"
      /\ subnet # "-o" /\ subnet # "-s" /\ subnet # "-d" /\ subnet # "--sport" /\ subnet # "--dport"
      /\ subnet # "--tcp-flags" /\ subnet # "--mark" /\ subnet # "--to-ports"
    BY DEF Reserved, Flags, FieldFlags
<1>4. Only(w, "--append", 1) /\ Only(w, "-j", 7) /\ Only(w, "-i", 3) /\ Only(w, "-d", 5)
    BY <1>1, <1>2, <1>3 DEF Only
<1>5. Without(w, "--delete") /\ Without(w, "-t") /\ Without(w, "-p") /\ Without(w, "-o") /\ Without(w, "-s")
      /\ Without(w, "--sport") /\ Without(w, "--dport") /\ Without(w, "--tcp-flags") /\ Without(w, "--mark")
      /\ Without(w, "--to-ports")
    BY <1>1, <1>2, <1>3 DEF Without
<1>6. \A unset : A!Word(w, "--append", unset) = "INPUT" /\ A!Word(w, "-j", unset) = "ACCEPT" /\ A!Word(w,
                "-i", unset) = intf /\ A!Word(w, "-d", unset) = subnet
    BY <1>1, <1>4, WordThere
<1>7. \A unset : A!Word(w, "--delete", unset) = unset /\ A!Word(w, "-t", unset) = unset /\ A!Word(w, "-p",
                unset) = unset /\ A!Word(w, "-o", unset) = unset /\ A!Word(w, "-s", unset) = unset
                /\ A!Word(w, "--sport", unset) = unset /\ A!Word(w, "--dport", unset) = unset /\ A!Word(w,
                "--tcp-flags", unset) = unset /\ A!Word(w, "--mark", unset) = unset /\ A!Word(w,
                "--to-ports", unset) = unset
    BY <1>1, <1>5, WordMissing
<1>8. F.table = "filter" /\ F.chain = "INPUT" /\ F.target = "ACCEPT" /\ F.protocol = A!Unset /\ F.in = intf
      /\ F.out = A!Unset /\ F.source = A!Unset /\ F.destination = subnet /\ F.sport = A!Unset
      /\ F.dport = A!Unset /\ F.to = A!Unset /\ F.flags = A!Unset /\ F.mark = A!Unset
    BY DEF SubnetInOfFields, NoFields
<1>. HIDE DEF F
<1>9. intf # A!Unset
    BY DEF Reserved
<1>10. subnet # A!Unset
    BY DEF Reserved
<1>11. Reads(w, F)
    BY <1>6, <1>7, <1>8, <1>9, <1>10, LiteralsAreSet DEF Reads, Or, A!Table, A!Chain
<1>. QED BY <1>11 DEF w, F

\* What iptables reads in the instruction that adds it.
LEMMA SubnetInAnyRead ==
    ASSUME NEW subnet, subnet \notin Reserved
    PROVE  Reads(SubnetInAnyWords("--append", subnet), SubnetInAnyFields(subnet))
<1>. DEFINE w == SubnetInAnyWords("--append", subnet)  F == SubnetInAnyFields(subnet)
<1>1. Len(w) = 6 /\ Len(w) \in Nat /\ w[1] = "--append" /\ w[2] = "INPUT" /\ w[3] = "-d" /\ w[4] = subnet
      /\ w[5] = "-j" /\ w[6] = "ACCEPT"
    BY DEF SubnetInAnyWords
<1>. HIDE DEF w
<1>2. \A m \in 1..(Len(w) - 1) : m = 1 \/ m = 2 \/ m = 3 \/ m = 4 \/ m = 5
    BY <1>1
<1>3. subnet # "--append" /\ subnet # "--delete" /\ subnet # "-t" /\ subnet # "-j" /\ subnet # "-p"
      /\ subnet # "-i" /\ subnet # "-o" /\ subnet # "-s" /\ subnet # "-d" /\ subnet # "--sport"
      /\ subnet # "--dport" /\ subnet # "--tcp-flags" /\ subnet # "--mark" /\ subnet # "--to-ports"
    BY DEF Reserved, Flags, FieldFlags
<1>4. Only(w, "--append", 1) /\ Only(w, "-j", 5) /\ Only(w, "-d", 3)
    BY <1>1, <1>2, <1>3 DEF Only
<1>5. Without(w, "--delete") /\ Without(w, "-t") /\ Without(w, "-p") /\ Without(w, "-i") /\ Without(w, "-o")
      /\ Without(w, "-s") /\ Without(w, "--sport") /\ Without(w, "--dport") /\ Without(w, "--tcp-flags")
      /\ Without(w, "--mark") /\ Without(w, "--to-ports")
    BY <1>1, <1>2, <1>3 DEF Without
<1>6. \A unset : A!Word(w, "--append", unset) = "INPUT" /\ A!Word(w, "-j", unset) = "ACCEPT" /\ A!Word(w,
                "-d", unset) = subnet
    BY <1>1, <1>4, WordThere
<1>7. \A unset : A!Word(w, "--delete", unset) = unset /\ A!Word(w, "-t", unset) = unset /\ A!Word(w, "-p",
                unset) = unset /\ A!Word(w, "-i", unset) = unset /\ A!Word(w, "-o", unset) = unset
                /\ A!Word(w, "-s", unset) = unset /\ A!Word(w, "--sport", unset) = unset /\ A!Word(w,
                "--dport", unset) = unset /\ A!Word(w, "--tcp-flags", unset) = unset /\ A!Word(w, "--mark",
                unset) = unset /\ A!Word(w, "--to-ports", unset) = unset
    BY <1>1, <1>5, WordMissing
<1>8. F.table = "filter" /\ F.chain = "INPUT" /\ F.target = "ACCEPT" /\ F.protocol = A!Unset
      /\ F.in = A!Unset /\ F.out = A!Unset /\ F.source = A!Unset /\ F.destination = subnet
      /\ F.sport = A!Unset /\ F.dport = A!Unset /\ F.to = A!Unset /\ F.flags = A!Unset /\ F.mark = A!Unset
    BY DEF SubnetInAnyFields, NoFields
<1>. HIDE DEF F
<1>9. subnet # A!Unset
    BY DEF Reserved
<1>10. Reads(w, F)
    BY <1>6, <1>7, <1>8, <1>9, LiteralsAreSet DEF Reads, Or, A!Table, A!Chain
<1>. QED BY <1>10 DEF w, F

\* Words one after the other.
LEMMA ConcatIs ==
    ASSUME NEW D, NEW x \in Seq(D), NEW y \in Seq(D), NEW z \in Seq(D), Len(z) = Len(x) + Len(y),
           \A i \in 1..Len(x) : z[i] = x[i], \A i \in 1..Len(y) : z[Len(x) + i] = y[i]
    PROVE  x \o y = z
<1>1. x \o y \in Seq(D) /\ Len(x \o y) = Len(x) + Len(y)
      /\ \A i \in 1..(Len(x) + Len(y)) : (x \o y)[i] = IF i <= Len(x) THEN x[i] ELSE y[i - Len(x)]
    BY ConcatProperties
<1>2. ASSUME NEW i \in 1..Len(z) PROVE (x \o y)[i] = z[i]
    <2>1. CASE i <= Len(x)
        BY <1>1, <2>1
    <2>2. CASE i > Len(x)
        <3>1. i - Len(x) \in 1..Len(y) /\ Len(x) + (i - Len(x)) = i
            BY <2>2
        <3>2. z[Len(x) + (i - Len(x))] = y[i - Len(x)]
            BY <3>1
        <3>. QED BY <1>1, <2>2, <3>1, <3>2
    <2>. QED BY <2>1, <2>2
<1>. QED BY <1>1, <1>2, SeqEqual

(***************************************************************************)
(* Parsing a line.                                                          *)
(***************************************************************************)

\* What no option of a line sets, one and two, and one pair or three pairs of ports and flags.
LEMMA NoOption == ASSUME NEW r PROVE A!Options(r, <<>>) = r
<1>. DEFINE opts == <<>>
<1>1. Len(opts) = 0
    OBVIOUS
<1>. HIDE DEF opts
<1>2. PICK f : SetsOptions(f, opts, r, Len(opts)) /\ A!Options(r, opts) = f[Len(opts)]
    <2>1. Len(opts) \in Nat
        BY <1>1
    <2>. QED BY <2>1, OptionsStep, Zenon
<1>3. f[0] = r
    BY <1>1, <1>2 DEF SetsOptions
<1>. QED BY <1>1, <1>2, <1>3 DEF opts

\* One option.
LEMMA OneOption == ASSUME NEW r, NEW o PROVE A!Options(r, <<o>>) = A!Optional(r, o)
<1>. DEFINE opts == <<o>>
<1>1. Len(opts) = 1 /\ opts[1] = o
    OBVIOUS
<1>. HIDE DEF opts
<1>2. PICK f : SetsOptions(f, opts, r, Len(opts)) /\ A!Options(r, opts) = f[Len(opts)]
    <2>1. Len(opts) \in Nat
        BY <1>1
    <2>. QED BY <2>1, OptionsStep, Zenon
<1>3. f[0] = r /\ f[1] = A!Optional(f[0], opts[1])
    BY <1>1, <1>2 DEF SetsOptions
<1>. QED BY <1>1, <1>2, <1>3 DEF opts

\* Two options, in their order.
LEMMA TwoOptions == ASSUME NEW r, NEW o, NEW q PROVE A!Options(r, <<o, q>>) = A!Optional(A!Optional(r, o), q)
<1>. DEFINE opts == <<o, q>>
<1>1. Len(opts) = 2 /\ opts[1] = o /\ opts[2] = q
    OBVIOUS
<1>. HIDE DEF opts
<1>2. PICK f : SetsOptions(f, opts, r, Len(opts)) /\ A!Options(r, opts) = f[Len(opts)]
    <2>1. Len(opts) \in Nat
        BY <1>1
    <2>. QED BY <2>1, OptionsStep, Zenon
<1>3. f[0] = r /\ f[1] = A!Optional(f[0], opts[1]) /\ f[2] = A!Optional(f[1], opts[2])
    BY <1>1, <1>2 DEF SetsOptions
<1>. QED BY <1>1, <1>2, <1>3 DEF opts

\* One pair.
LEMMA OnePair == ASSUME NEW r, NEW o PROVE A!PortOptions(r, <<o>>) = A!Option(r, o)
<1>. DEFINE pairs == <<o>>
<1>1. Len(pairs) = 1 /\ pairs[1] = o
    OBVIOUS
<1>. HIDE DEF pairs
<1>2. PICK f : SetsPairs(f, pairs, r, Len(pairs)) /\ A!PortOptions(r, pairs) = f[Len(pairs)]
    <2>1. Len(pairs) \in Nat
        BY <1>1
    <2>. QED BY <2>1, PortOptionsStep, Zenon
<1>3. f[0] = r /\ f[1] = A!Option(f[0], pairs[1])
    BY <1>1, <1>2 DEF SetsPairs
<1>. QED BY <1>1, <1>2, <1>3 DEF pairs

\* Three pairs, in their order.
LEMMA ThreePairs ==
    ASSUME NEW r, NEW o, NEW q, NEW p
    PROVE  A!PortOptions(r, <<o, q, p>>) = A!Option(A!Option(A!Option(r, o), q), p)
<1>. DEFINE pairs == <<o, q, p>>
<1>1. Len(pairs) = 3 /\ pairs[1] = o /\ pairs[2] = q /\ pairs[3] = p
    OBVIOUS
<1>. HIDE DEF pairs
<1>2. PICK f : SetsPairs(f, pairs, r, Len(pairs)) /\ A!PortOptions(r, pairs) = f[Len(pairs)]
    <2>1. Len(pairs) \in Nat
        BY <1>1
    <2>. QED BY <2>1, PortOptionsStep, Zenon
<1>3. f[0] = r /\ f[1] = A!Option(f[0], pairs[1]) /\ f[2] = A!Option(f[1], pairs[2])
      /\ f[3] = A!Option(f[2], pairs[3])
    BY <1>1, <1>2 DEF SetsPairs
<1>. QED BY <1>1, <1>2, <1>3 DEF pairs

\* What a rule is about says nothing in a way that reads as unset.
Plain(F) ==
    /\ F.in # "*" /\ F.out # "*" /\ F.protocol # "all"
    /\ F.source \notin {A!NoPrefix, A!AnyPrefix} /\ F.destination \notin {A!NoPrefix, A!AnyPrefix}
    /\ F.sport # "0" /\ F.dport # "0" /\ F.flags \in {A!Unset, "RST"}

\* The options there are: none, a port and where it is redirected, or all of them.
NoOptions(F) == F.sport = A!Unset /\ F.dport = A!Unset /\ F.flags = A!Unset /\ F.mark = A!Unset
      /\ F.to = A!Unset
PortOnly(F) ==
    /\ F.protocol \in {"tcp", "udp"} /\ F.dport # A!Unset
    /\ F.sport = A!Unset /\ F.flags = A!Unset /\ F.mark = A!Unset
MarkedReset(F) ==
    /\ F.protocol \in {"tcp", "udp"} /\ F.dport # A!Unset /\ F.sport # A!Unset
    /\ F.flags = "RST" /\ F.mark # A!Unset /\ F.to = A!Unset

\* A line before its options.
Columns(line) ==
    [target |-> line.target, protocol |-> IF line.prot = "all" THEN A!Unset ELSE line.prot,
     in |-> line.in, out |-> line.out, source |-> line.source,
     destination |-> line.destination, sourcePort |-> "0", destinationPort |-> "0",
     redirPorts |-> <<>>, ctstate |-> <<>>, tcpFlags |-> <<>>, mark |-> A!NoMark]

\* The columns of the line of a rule.
LEMMA ColumnsShown ==
    ASSUME NEW words, NEW F, Reads(words, F), F.protocol # "all"
    PROVE  LET r == Columns(A!Listed(words)) IN
           /\ r.target = F.target /\ r.protocol = F.protocol
           /\ r.in = Or(F.in, "*") /\ r.out = Or(F.out, "*")
           /\ r.source = Or(F.source, A!AnyPrefix) /\ r.destination = Or(F.destination, A!AnyPrefix)
<1>. DEFINE line == A!Listed(words)
<1>1. /\ line.target = F.target /\ line.prot = Or(F.protocol, "all")
      /\ line.in = Or(F.in, "*") /\ line.out = Or(F.out, "*")
      /\ line.source = Or(F.source, A!AnyPrefix) /\ line.destination = Or(F.destination, A!AnyPrefix)
    BY DEF A!Listed, Reads
<1>2. (IF line.prot = "all" THEN A!Unset ELSE line.prot) = F.protocol
    BY <1>1 DEF Or
<1>. HIDE DEF line
<1>3. Columns(line).protocol = F.protocol
    BY <1>2 DEF Columns
<1>. QED BY <1>1, <1>3 DEF Columns, line

\* Options one after the other.
LEMMA Joined ==
    ASSUME NEW a, NEW c
    PROVE  <<a>> \o <<c>> = <<a, c>> /\ <<a>> \o <<>> = <<a>> /\ <<a, c>> \o <<>> = <<a, c>>
<1>. DEFINE D == {a, c}  x == <<a>>  y == <<c>>  z == <<a, c>>
<1>1. x \in Seq(D) /\ y \in Seq(D) /\ z \in Seq(D)
    <2>1. x \in Seq(D)
        OBVIOUS
    <2>2. y \in Seq(D)
        OBVIOUS
    <2>3. z \in Seq(D)
        OBVIOUS
    <2>. QED BY <2>1, <2>2, <2>3
<1>2. Len(x) = 1 /\ Len(y) = 1 /\ Len(z) = 2 /\ x[1] = a /\ y[1] = c /\ z[1] = a /\ z[2] = c
    OBVIOUS
<1>. HIDE DEF D, x, y, z
<1>3. x \o y = z
    <2>1. Len(z) = Len(x) + Len(y) /\ (\A i \in 1..Len(x) : z[i] = x[i])
          /\ \A i \in 1..Len(y) : z[Len(x) + i] = y[i]
        BY <1>2
    <2>. QED BY <1>1, <2>1, ConcatIs
<1>4. x \o <<>> = x /\ z \o <<>> = z
    BY <1>1, ConcatEmptySeq
<1>. QED BY <1>3, <1>4 DEF x, y, z

\* And three.
LEMMA JoinedThree ==
    ASSUME NEW a, NEW c, NEW d
    PROVE  (<<a>> \o <<c>>) \o <<d>> = <<a, c, d>>
<1>. DEFINE D == {a, c, d}  x == <<a, c>>  y == <<d>>  z == <<a, c, d>>
<1>1. x \in Seq(D) /\ y \in Seq(D) /\ z \in Seq(D)
    OBVIOUS
<1>2. Len(z) = Len(x) + Len(y) /\ (\A i \in 1..Len(x) : z[i] = x[i])
      /\ \A i \in 1..Len(y) : z[Len(x) + i] = y[i]
    OBVIOUS
<1>. HIDE DEF D, x, y, z
<1>3. x \o y = z
    BY <1>1, <1>2, ConcatIs
<1>4. <<a>> \o <<c>> = x
    BY Joined DEF x
<1>. QED BY <1>3, <1>4 DEF y, z

\* How a line is parsed when the rule has no option,
LEMMA ShownBare ==
    ASSUME NEW words, NEW F, Reads(words, F), Plain(F), NoOptions(F)
    PROVE  ShowsThese(A!ParseLine(A!Listed(words)), F)
<1>. DEFINE line == A!Listed(words)  r == Columns(line)
<1>1. A!PortPairs(words) = <<>>
    BY DEF A!PortPairs, A!Shows, Reads, NoOptions
<1>2. line.opts = <<>>
    BY <1>1 DEF A!Listed, A!Shows, Reads, NoOptions
<1>3. A!ParseLine(line) = A!Options(r, line.opts)
    BY DEF A!ParseLine, Columns
<1>4. A!ParseLine(line) = r
    BY <1>2, <1>3, NoOption
<1>5. /\ r.target = F.target /\ r.protocol = F.protocol
      /\ r.in = Or(F.in, "*") /\ r.out = Or(F.out, "*")
      /\ r.source = Or(F.source, A!AnyPrefix) /\ r.destination = Or(F.destination, A!AnyPrefix)
    BY ColumnsShown DEF Plain
<1>6. /\ r.sourcePort = "0" /\ r.destinationPort = "0" /\ r.redirPorts = <<>> /\ r.ctstate = <<>>
      /\ r.tcpFlags = <<>> /\ r.mark = A!NoMark
    BY DEF Columns
<1>. HIDE DEF r
<1>7. ShowsThese(r, F)
    BY <1>5, <1>6 DEF ShowsThese, NoOptions, Or, One, FlagsOf, MarkOf
<1>. QED BY <1>4, <1>7 DEF line

\* when it has a port, which may be redirected,
LEMMA ShownPort ==
    ASSUME NEW words, NEW F, Reads(words, F), Plain(F), PortOnly(F)
    PROVE  ShowsThese(A!ParseLine(A!Listed(words)), F)
<1>. DEFINE line == A!Listed(words)  r == Columns(line)
            ports == <<F.protocol, <<<<"dpt", F.dport>>>>>>
            q == [r EXCEPT !.destinationPort = F.dport]
<1>1. A!PortPairs(words) = <<<<"dpt", F.dport>>>>
    BY DEF A!PortPairs, A!Shows, Reads, PortOnly, Or
<1>2. F.protocol # A!Unset /\ A!Word(words, "-p", "all") = F.protocol
    BY LiteralsAreSet DEF Reads, PortOnly, Or
<1>3. line.opts = <<ports>> \o (IF F.to = A!Unset THEN <<>> ELSE <<<<"redir", F.to>>>>)
    BY <1>1, <1>2, SMTT(15) DEF A!Listed, A!Shows, Reads, PortOnly, Or
<1>4. A!ParseLine(line) = A!Options(r, line.opts)
    BY DEF A!ParseLine, Columns
<1>5. A!Optional(r, ports) = q
    <2>1. A!Optional(r, ports) = A!PortOptions(r, <<<<"dpt", F.dport>>>>)
        BY DEF A!Optional, PortOnly
    <2>2. A!Option(r, <<"dpt", F.dport>>) = q
        BY DEF A!Option
    <2>. QED BY <2>1, <2>2, OnePair
<1>6. /\ r.target = F.target /\ r.protocol = F.protocol
      /\ r.in = Or(F.in, "*") /\ r.out = Or(F.out, "*")
      /\ r.source = Or(F.source, A!AnyPrefix) /\ r.destination = Or(F.destination, A!AnyPrefix)
    BY ColumnsShown DEF Plain
<1>7. /\ q.target = r.target /\ q.protocol = r.protocol /\ q.in = r.in /\ q.out = r.out
      /\ q.source = r.source /\ q.destination = r.destination /\ q.sourcePort = "0"
            /\ q.destinationPort = F.dport
      /\ q.redirPorts = <<>> /\ q.ctstate = <<>> /\ q.tcpFlags = <<>> /\ q.mark = A!NoMark
    BY DEF Columns
<1>8. CASE F.to = A!Unset
    <2>1. line.opts = <<ports>>
        BY <1>3, <1>8
    <2>2. A!ParseLine(line) = q
        BY <1>4, <1>5, <2>1, OneOption, Zenon
    <2>. HIDE DEF q, r, ports
    <2>3. ShowsThese(q, F)
        BY <1>6, <1>7, <1>8 DEF ShowsThese, PortOnly, Or, One, FlagsOf, MarkOf
    <2>. QED BY <2>2, <2>3 DEF line
<1>9. CASE F.to # A!Unset
    <2>. DEFINE p == [q EXCEPT !.redirPorts = <<F.to>>]  redir == <<"redir", F.to>>
    <2>1. line.opts = <<ports, redir>>
        <3>1. line.opts = <<ports>> \o <<redir>>
            BY <1>3, <1>9
        <3>. HIDE DEF ports, redir
        <3>. QED BY <3>1, Joined
    <2>2. A!Optional(q, redir) = p
        BY DEF A!Optional
    <2>3. A!ParseLine(line) = p
        <3>1. A!Options(r, <<ports, redir>>) = A!Optional(A!Optional(r, ports), redir)
            <4>. HIDE DEF r, ports, redir
            <4>. QED BY TwoOptions
        <3>. HIDE DEF p, q, r, ports, redir, line
        <3>. QED BY <1>4, <1>5, <2>1, <2>2, <3>1
    <2>4. /\ p.target = r.target /\ p.protocol = r.protocol /\ p.in = r.in /\ p.out = r.out
          /\ p.source = r.source /\ p.destination = r.destination /\ p.sourcePort = "0"
                /\ p.destinationPort = F.dport
          /\ p.redirPorts = <<F.to>> /\ p.ctstate = <<>> /\ p.tcpFlags = <<>> /\ p.mark = A!NoMark
        BY <1>7 DEF Columns
    <2>. HIDE DEF p, q, r, ports
    <2>5. ShowsThese(p, F)
        BY <1>6, <2>4, <1>9 DEF ShowsThese, PortOnly, Or, One, FlagsOf, MarkOf
    <2>. QED BY <2>3, <2>5 DEF line
<1>. QED BY <1>8, <1>9

\* and when it is about marked resets.
LEMMA ShownReset ==
    ASSUME NEW words, NEW F, Reads(words, F), Plain(F), MarkedReset(F)
    PROVE  ShowsThese(A!ParseLine(A!Listed(words)), F)
<1>. DEFINE line == A!Listed(words)  r == Columns(line)
            spt == <<"spt", F.sport>>  dpt == <<"dpt", F.dport>>  flags == <<"flags", <<"RST", "RST">>>>
            ports == <<F.protocol, <<spt, dpt, flags>>>>
            mark == <<"mark", [invert |-> TRUE, value |-> F.mark]>>
            q == [[[r EXCEPT !.sourcePort = F.sport] EXCEPT !.destinationPort = F.dport]
                     EXCEPT !.tcpFlags = <<"RST", "RST">>]
            p == [q EXCEPT !.mark = [invert |-> TRUE, value |-> F.mark]]
<1>1. A!PortPairs(words) = <<spt, dpt, flags>>
    <2>1. A!PortPairs(words) = (<<spt>> \o <<dpt>>) \o <<flags>>
        BY LiteralsAreSet DEF A!PortPairs, A!Shows, Reads, MarkedReset, Or
    <2>. HIDE DEF spt, dpt, flags
    <2>. QED BY <2>1, JoinedThree, Zenon
<1>2. F.protocol # A!Unset /\ A!Word(words, "-p", "all") = F.protocol
    BY LiteralsAreSet DEF Reads, MarkedReset, Or
<1>3. line.opts = <<ports, mark>>
    <2>1. A!PortPairs(words) # <<>>
        BY <1>1
    <2>2. line.opts = (<<ports>> \o <<mark>>) \o <<>>
        <3>. HIDE DEF spt, dpt, flags
        <3>. QED BY <1>1, <1>2, <2>1 DEF A!Listed, A!Shows, Reads, MarkedReset, Or
    <2>3. (<<ports>> \o <<mark>>) = <<ports, mark>> /\ <<ports, mark>> \o <<>> = <<ports, mark>>
        <3>. HIDE DEF ports, mark
        <3>. QED BY Joined
    <2>. QED BY <2>2, <2>3, Zenon
<1>4. A!ParseLine(line) = A!Options(r, line.opts)
    BY DEF A!ParseLine, Columns
<1>5. A!Optional(r, ports) = q
    <2>1. A!Optional(r, ports) = A!PortOptions(r, <<spt, dpt, flags>>)
        BY DEF A!Optional, MarkedReset
    <2>2. A!Option(r, spt) = [r EXCEPT !.sourcePort = F.sport]
        BY DEF A!Option
    <2>3. A!Option([r EXCEPT !.sourcePort = F.sport], dpt)
          = [[r EXCEPT !.sourcePort = F.sport] EXCEPT !.destinationPort = F.dport]
        BY DEF A!Option
    <2>4. A!Option([[r EXCEPT !.sourcePort = F.sport] EXCEPT !.destinationPort = F.dport], flags) = q
        BY DEF A!Option
    <2>5. A!PortOptions(r, <<spt, dpt, flags>>) = A!Option(A!Option(A!Option(r, spt), dpt), flags)
        <3>. HIDE DEF r, spt, dpt, flags
        <3>. QED BY ThreePairs
    <2>. HIDE DEF q, r, spt, dpt, flags
    <2>. QED BY <2>1, <2>2, <2>3, <2>4, <2>5
<1>6. A!Optional(q, mark) = p
    BY DEF A!Optional
<1>7. A!ParseLine(line) = p
    <2>1. A!Options(r, <<ports, mark>>) = A!Optional(A!Optional(r, ports), mark)
        <3>. HIDE DEF r, ports, mark
        <3>. QED BY TwoOptions
    <2>. HIDE DEF p, q, r, ports, mark, line
    <2>. QED BY <1>3, <1>4, <1>5, <1>6, <2>1
<1>8. /\ r.target = F.target /\ r.protocol = F.protocol
      /\ r.in = Or(F.in, "*") /\ r.out = Or(F.out, "*")
      /\ r.source = Or(F.source, A!AnyPrefix) /\ r.destination = Or(F.destination, A!AnyPrefix)
    BY ColumnsShown DEF Plain
<1>9. /\ p.target = r.target /\ p.protocol = r.protocol /\ p.in = r.in /\ p.out = r.out
      /\ p.source = r.source /\ p.destination = r.destination /\ p.sourcePort = F.sport
            /\ p.destinationPort = F.dport
      /\ p.redirPorts = <<>> /\ p.ctstate = <<>> /\ p.tcpFlags = <<"RST", "RST">>
      /\ p.mark = [invert |-> TRUE, value |-> F.mark]
    BY DEF Columns
<1>. HIDE DEF p, q, r, spt, dpt, flags, ports, mark
<1>10. ShowsThese(p, F)
    BY <1>8, <1>9, LiteralsAreSet DEF ShowsThese, MarkedReset, Or, One, FlagsOf, MarkOf
<1>. QED BY <1>7, <1>10 DEF line

(***************************************************************************)
(* Which line is deleted.                                                   *)
(***************************************************************************)

\* An instruction and a rule are about the same.
Same(F, G) ==
    /\ F.table = G.table /\ F.chain = G.chain /\ F.target = G.target /\ F.protocol = G.protocol
    /\ F.in = G.in /\ F.out = G.out /\ F.source = G.source /\ F.destination = G.destination
    /\ F.sport = G.sport /\ F.dport = G.dport /\ F.to = G.to /\ F.flags = G.flags /\ F.mark = G.mark

\* equalToRule finds equal an instruction and a rule that are about the same, and no others.
LEMMA EqualWhenSame ==
    ASSUME NEW i, NEW r, NEW F, NEW G, Says(i, F), ShowsThese(r, G), Plain(F), Plain(G)
    PROVE  A!EqualToRule(i, G.table, G.chain, r) <=> Same(F, G)
<1>1. A!InterfacesEqual(i.in, r.in) <=> F.in = G.in
    BY DEF A!InterfacesEqual, Says, ShowsThese, Plain, Or
<1>2. A!InterfacesEqual(i.out, r.out) <=> F.out = G.out
    BY DEF A!InterfacesEqual, Says, ShowsThese, Plain, Or
<1>3. A!PrefixesEqual(i.source, r.source) <=> F.source = G.source
    BY DEF A!PrefixesEqual, Says, ShowsThese, Plain, Or
<1>4. A!PrefixesEqual(i.destination, r.destination) <=> F.destination = G.destination
    BY DEF A!PrefixesEqual, Says, ShowsThese, Plain, Or
<1>5. i.sourcePort = r.sourcePort <=> F.sport = G.sport
    BY DEF Says, ShowsThese, Plain, Or
<1>6. i.destinationPort = r.destinationPort <=> F.dport = G.dport
    BY DEF Says, ShowsThese, Plain, Or
<1>7. i.toPorts = r.redirPorts <=> F.to = G.to
    BY DEF Says, ShowsThese, One
<1>8. i.tcpFlags = r.tcpFlags <=> F.flags = G.flags
    <2>1. i.tcpFlags = FlagsOf(F.flags) /\ r.tcpFlags = FlagsOf(G.flags)
        BY DEF Says, ShowsThese
    <2>2. <<"RST", "RST">> # <<>>
        OBVIOUS
    <2>3. F.flags \in {A!Unset, "RST"} /\ G.flags \in {A!Unset, "RST"}
        BY DEF Plain
    <2>4. FlagsOf(A!Unset) = <<>> /\ FlagsOf("RST") = <<"RST", "RST">>
        BY LiteralsAreSet DEF FlagsOf
    <2>. QED BY <2>1, <2>2, <2>3, <2>4
<1>9. i.mark = r.mark <=> F.mark = G.mark
    <2>1. i.mark = MarkOf(F.mark) /\ r.mark = MarkOf(G.mark)
        BY DEF Says, ShowsThese
    <2>2. A!NoMark.invert = FALSE /\ \A v : [invert |-> TRUE, value |-> v].invert = TRUE
        BY DEF A!NoMark
    <2>3. \A v, u : [invert |-> TRUE, value |-> v] = [invert |-> TRUE, value |-> u] => v = u
        <3>. TAKE v, u
        <3>. HAVE [invert |-> TRUE, value |-> v] = [invert |-> TRUE, value |-> u]
        <3>1. [invert |-> TRUE, value |-> v].value = v /\ [invert |-> TRUE, value |-> u].value = u
            OBVIOUS
        <3>. QED BY <3>1
    <2>. QED BY <2>1, <2>2, <2>3 DEF MarkOf
<1>10. i.ctstate = r.ctstate /\ i.table = F.table /\ i.chain = F.chain /\ i.target = F.target
       /\ i.protocol = F.protocol /\ r.target = G.target /\ r.protocol = G.protocol
    BY DEF Says, ShowsThese
<1>. QED BY <1>1, <1>2, <1>3, <1>4, <1>5, <1>6, <1>7, <1>8, <1>9, <1>10 DEF A!EqualToRule, Same

\* So an instruction is equal to the line of a rule that is about the same, and of no other.
LEMMA EqualToTheSame ==
    ASSUME NEW d, NEW r, NEW F, NEW G, Says(A!ParseInstruction(d), F), Plain(F),
           Reads(r, G), Plain(G), NoOptions(G) \/ PortOnly(G) \/ MarkedReset(G)
    PROVE  A!EqualToRule(A!ParseInstruction(d), A!Table(r), A!Chain(r), A!ParseLine(A!Listed(r))) <=> Same(F, G)
<1>1. ShowsThese(A!ParseLine(A!Listed(r)), G)
    BY ShownBare, ShownPort, ShownReset
<1>2. A!Table(r) = G.table /\ A!Chain(r) = G.chain
    BY DEF Reads
<1>3. A!EqualToRule(A!ParseInstruction(d), G.table, G.chain, A!ParseLine(A!Listed(r))) <=> Same(F, G)
    BY <1>1, EqualWhenSame, Zenon
<1>. QED BY <1>2, <1>3, Zenon

\* The words of a rule for a subnet, with or without an interface.
SubnetWords(verb, intf, ip, subnet) ==
    IF intf = "*" THEN SubnetAnyWords(verb, ip, subnet) ELSE SubnetOfWords(verb, intf, ip, subnet)
\* They are what its pieces make one after the other.
LEMMA SubnetWritten ==
    ASSUME NEW verb, NEW intf, NEW ip, NEW subnet
    PROVE  <<verb, "OUTPUT">> \o A!On("-o", intf)
               \o <<"-s", ip, "-d", subnet, "-j", "ACCEPT">>
           = SubnetWords(verb, intf, ip, subnet)
<1>. DEFINE D == {verb, "OUTPUT", "-o", intf, "-s", ip, "-d", subnet, "-j", "ACCEPT"}
            x == <<verb, "OUTPUT">>
            y == <<"-o", intf>>
            z == <<"-s", ip, "-d", subnet, "-j", "ACCEPT">>
            xy == <<verb, "OUTPUT", "-o", intf>>
            any == <<verb, "OUTPUT", "-s", ip, "-d", subnet, "-j", "ACCEPT">>
            of == <<verb, "OUTPUT", "-o", intf, "-s", ip, "-d", subnet, "-j", "ACCEPT">>
<1>1. x \in Seq(D) /\ y \in Seq(D) /\ xy \in Seq(D)
    OBVIOUS
<1>2. z \in Seq(D)
    OBVIOUS
<1>3. any \in Seq(D)
    OBVIOUS
<1>4. of \in Seq(D)
    OBVIOUS
<1>5. Len(xy) = Len(x) + Len(y) /\ (\A i \in 1..Len(x) : xy[i] = x[i])
      /\ \A i \in 1..Len(y) : xy[Len(x) + i] = y[i]
    OBVIOUS
<1>6. Len(any) = Len(x) + Len(z) /\ (\A i \in 1..Len(x) : any[i] = x[i])
      /\ \A i \in 1..Len(z) : any[Len(x) + i] = z[i]
    OBVIOUS
<1>7. Len(of) = Len(xy) + Len(z) /\ (\A i \in 1..Len(xy) : of[i] = xy[i])
      /\ \A i \in 1..Len(z) : of[Len(xy) + i] = z[i]
    OBVIOUS
<1>8. any = SubnetAnyWords(verb, ip, subnet) /\ of = SubnetOfWords(verb, intf, ip, subnet)
    BY DEF SubnetAnyWords, SubnetOfWords
<1>9. A!On("-o", intf) = IF intf = "*" THEN <<>> ELSE y
    BY DEF A!On
<1>. HIDE DEF D, x, y, z, xy, any, of
<1>10. x \o y = xy
    BY <1>1, <1>5, ConcatIs
<1>11. x \o z = any
    BY <1>1, <1>2, <1>3, <1>6, ConcatIs
<1>12. xy \o z = of
    BY <1>1, <1>2, <1>4, <1>7, ConcatIs
<1>13. x \o <<>> = x
    BY <1>1, ConcatEmptySeq
<1>14. x \o A!On("-o", intf) \o z = IF intf = "*" THEN any ELSE of
    BY <1>9, <1>10, <1>11, <1>12, <1>13
<1>. QED BY <1>8, <1>14 DEF x, z, SubnetWords

\* The words of a rule for a port, with or without an interface.
PortWords(verb, intf, protocol, port) ==
    IF intf = "*" THEN PortAnyWords(verb, protocol, port) ELSE PortOfWords(verb, intf, protocol, port)
\* They are what its pieces make one after the other.
LEMMA PortWritten ==
    ASSUME NEW verb, NEW intf, NEW protocol, NEW port
    PROVE  <<verb, "INPUT">> \o A!On("-i", intf)
               \o <<"-p", protocol, "-m", protocol, "--dport", port, "-j", "ACCEPT">>
           = PortWords(verb, intf, protocol, port)
<1>. DEFINE D == {verb, "INPUT", "-i", intf, "-p", protocol, "-m", "--dport", port, "-j", "ACCEPT"}
            x == <<verb, "INPUT">>
            y == <<"-i", intf>>
            z == <<"-p", protocol, "-m", protocol, "--dport", port, "-j", "ACCEPT">>
            xy == <<verb, "INPUT", "-i", intf>>
            any == <<verb, "INPUT", "-p", protocol, "-m", protocol, "--dport", port, "-j", "ACCEPT">>
            of == <<verb, "INPUT", "-i", intf, "-p", protocol, "-m", protocol, "--dport", port, "-j",
                   "ACCEPT">>
<1>1. x \in Seq(D) /\ y \in Seq(D) /\ xy \in Seq(D)
    OBVIOUS
<1>2. z \in Seq(D)
    OBVIOUS
<1>3. any \in Seq(D)
    OBVIOUS
<1>4. of \in Seq(D)
    OBVIOUS
<1>5. Len(xy) = Len(x) + Len(y) /\ (\A i \in 1..Len(x) : xy[i] = x[i])
      /\ \A i \in 1..Len(y) : xy[Len(x) + i] = y[i]
    OBVIOUS
<1>6. Len(any) = Len(x) + Len(z) /\ (\A i \in 1..Len(x) : any[i] = x[i])
      /\ \A i \in 1..Len(z) : any[Len(x) + i] = z[i]
    OBVIOUS
<1>7. Len(of) = Len(xy) + Len(z) /\ (\A i \in 1..Len(xy) : of[i] = xy[i])
      /\ \A i \in 1..Len(z) : of[Len(xy) + i] = z[i]
    OBVIOUS
<1>8. any = PortAnyWords(verb, protocol, port) /\ of = PortOfWords(verb, intf, protocol, port)
    BY DEF PortAnyWords, PortOfWords
<1>9. A!On("-i", intf) = IF intf = "*" THEN <<>> ELSE y
    BY DEF A!On
<1>. HIDE DEF D, x, y, z, xy, any, of
<1>10. x \o y = xy
    BY <1>1, <1>5, ConcatIs
<1>11. x \o z = any
    BY <1>1, <1>2, <1>3, <1>6, ConcatIs
<1>12. xy \o z = of
    BY <1>1, <1>2, <1>4, <1>7, ConcatIs
<1>13. x \o <<>> = x
    BY <1>1, ConcatEmptySeq
<1>14. x \o A!On("-i", intf) \o z = IF intf = "*" THEN any ELSE of
    BY <1>9, <1>10, <1>11, <1>12, <1>13
<1>. QED BY <1>8, <1>14 DEF x, z, PortWords

\* The words of a redirection, with or without an interface.
RedirectWords(verb, intf, protocol, port, to) ==
    IF intf = "*" THEN RedirectAnyWords(verb, protocol, port, to) ELSE RedirectOfWords(verb, intf, protocol,
          port, to)
\* They are what its pieces make one after the other.
LEMMA RedirectWritten ==
    ASSUME NEW verb, NEW intf, NEW protocol, NEW port, NEW to
    PROVE  <<"-t", "nat", verb, "PREROUTING">> \o A!On("-i", intf)
               \o <<"-p", protocol, "--dport", port, "-j", "REDIRECT", "--to-ports", to>>
           = RedirectWords(verb, intf, protocol, port, to)
<1>. DEFINE D == {"-t", "nat", verb, "PREROUTING", "-i", intf, "-p", protocol, "--dport", port, "-j",
                  "REDIRECT", "--to-ports", to}
            x == <<"-t", "nat", verb, "PREROUTING">>
            y == <<"-i", intf>>
            z == <<"-p", protocol, "--dport", port, "-j", "REDIRECT", "--to-ports", to>>
            xy == <<"-t", "nat", verb, "PREROUTING", "-i", intf>>
            any == <<"-t", "nat", verb, "PREROUTING", "-p", protocol, "--dport", port, "-j", "REDIRECT",
                    "--to-ports", to>>
            of == <<"-t", "nat", verb, "PREROUTING", "-i", intf, "-p", protocol, "--dport", port, "-j",
                   "REDIRECT", "--to-ports", to>>
<1>1. x \in Seq(D) /\ y \in Seq(D) /\ xy \in Seq(D)
    OBVIOUS
<1>2. z \in Seq(D)
    OBVIOUS
<1>3. any \in Seq(D)
    OBVIOUS
<1>4. of \in Seq(D)
    OBVIOUS
<1>5. Len(xy) = Len(x) + Len(y) /\ (\A i \in 1..Len(x) : xy[i] = x[i])
      /\ \A i \in 1..Len(y) : xy[Len(x) + i] = y[i]
    OBVIOUS
<1>6. Len(any) = Len(x) + Len(z) /\ (\A i \in 1..Len(x) : any[i] = x[i])
      /\ \A i \in 1..Len(z) : any[Len(x) + i] = z[i]
    OBVIOUS
<1>7. Len(of) = Len(xy) + Len(z) /\ (\A i \in 1..Len(xy) : of[i] = xy[i])
      /\ \A i \in 1..Len(z) : of[Len(xy) + i] = z[i]
    OBVIOUS
<1>8. any = RedirectAnyWords(verb, protocol, port, to) /\ of = RedirectOfWords(verb, intf, protocol, port, to)
    BY DEF RedirectAnyWords, RedirectOfWords
<1>9. A!On("-i", intf) = IF intf = "*" THEN <<>> ELSE y
    BY DEF A!On
<1>. HIDE DEF D, x, y, z, xy, any, of
<1>10. x \o y = xy
    BY <1>1, <1>5, ConcatIs
<1>11. x \o z = any
    BY <1>1, <1>2, <1>3, <1>6, ConcatIs
<1>12. xy \o z = of
    BY <1>1, <1>2, <1>4, <1>7, ConcatIs
<1>13. x \o <<>> = x
    BY <1>1, ConcatEmptySeq
<1>14. x \o A!On("-i", intf) \o z = IF intf = "*" THEN any ELSE of
    BY <1>9, <1>10, <1>11, <1>12, <1>13
<1>. QED BY <1>8, <1>14 DEF x, z, RedirectWords

\* The words of a rule for what comes to a subnet, with or without an interface.
SubnetInWords(verb, intf, subnet) ==
    IF intf = "*" THEN SubnetInAnyWords(verb, subnet) ELSE SubnetInOfWords(verb, intf, subnet)
\* They are what its pieces make one after the other.
LEMMA SubnetInWritten ==
    ASSUME NEW verb, NEW intf, NEW subnet
    PROVE  <<verb, "INPUT">> \o A!On("-i", intf)
               \o <<"-d", subnet, "-j", "ACCEPT">>
           = SubnetInWords(verb, intf, subnet)
<1>. DEFINE D == {verb, "INPUT", "-i", intf, "-d", subnet, "-j", "ACCEPT"}
            x == <<verb, "INPUT">>
            y == <<"-i", intf>>
            z == <<"-d", subnet, "-j", "ACCEPT">>
            xy == <<verb, "INPUT", "-i", intf>>
            any == <<verb, "INPUT", "-d", subnet, "-j", "ACCEPT">>
            of == <<verb, "INPUT", "-i", intf, "-d", subnet, "-j", "ACCEPT">>
<1>1. x \in Seq(D) /\ y \in Seq(D) /\ xy \in Seq(D)
    OBVIOUS
<1>2. z \in Seq(D)
    OBVIOUS
<1>3. any \in Seq(D)
    OBVIOUS
<1>4. of \in Seq(D)
    OBVIOUS
<1>5. Len(xy) = Len(x) + Len(y) /\ (\A i \in 1..Len(x) : xy[i] = x[i])
      /\ \A i \in 1..Len(y) : xy[Len(x) + i] = y[i]
    OBVIOUS
<1>6. Len(any) = Len(x) + Len(z) /\ (\A i \in 1..Len(x) : any[i] = x[i])
      /\ \A i \in 1..Len(z) : any[Len(x) + i] = z[i]
    OBVIOUS
<1>7. Len(of) = Len(xy) + Len(z) /\ (\A i \in 1..Len(xy) : of[i] = xy[i])
      /\ \A i \in 1..Len(z) : of[Len(xy) + i] = z[i]
    OBVIOUS
<1>8. any = SubnetInAnyWords(verb, subnet) /\ of = SubnetInOfWords(verb, intf, subnet)
    BY DEF SubnetInAnyWords, SubnetInOfWords
<1>9. A!On("-i", intf) = IF intf = "*" THEN <<>> ELSE y
    BY DEF A!On
<1>. HIDE DEF D, x, y, z, xy, any, of
<1>10. x \o y = xy
    BY <1>1, <1>5, ConcatIs
<1>11. x \o z = any
    BY <1>1, <1>2, <1>3, <1>6, ConcatIs
<1>12. xy \o z = of
    BY <1>1, <1>2, <1>4, <1>7, ConcatIs
<1>13. x \o <<>> = x
    BY <1>1, ConcatEmptySeq
<1>14. x \o A!On("-i", intf) \o z = IF intf = "*" THEN any ELSE of
    BY <1>9, <1>10, <1>11, <1>12, <1>13
<1>. QED BY <1>8, <1>14 DEF x, z, SubnetInWords

(***************************************************************************)
(* Every rule of the program is about something.                            *)
(***************************************************************************)

\* The rule that is about these.
Writes(F) ==
    IF F.mark # A!Unset THEN ResetWords("--append", F.source, F.sport, F.destination, F.dport, F.mark)
    ELSE IF F.to # A!Unset THEN
        IF F.in = A!Unset THEN RedirectAnyWords("--append", F.protocol, F.dport, F.to)
        ELSE RedirectOfWords("--append", F.in, F.protocol, F.dport, F.to)
    ELSE IF F.protocol # A!Unset THEN
        IF F.out # A!Unset THEN ToVPNWords("--append", F.out, F.destination, F.protocol, F.dport)
        ELSE IF F.in = A!Unset THEN PortAnyWords("--append", F.protocol, F.dport)
        ELSE PortOfWords("--append", F.in, F.protocol, F.dport)
    ELSE IF F.source # A!Unset THEN
        IF F.out = A!Unset THEN SubnetAnyWords("--append", F.source, F.destination)
        ELSE SubnetOfWords("--append", F.out, F.source, F.destination)
    ELSE IF F.destination # A!Unset THEN
        IF F.in = A!Unset THEN SubnetInAnyWords("--append", F.destination)
        ELSE SubnetInOfWords("--append", F.in, F.destination)
    ELSE ThroughWords("--append", F.out)

\* r is a rule about something, and d deletes a rule about something.
About(F) == Plain(F) /\ (NoOptions(F) \/ PortOnly(F) \/ MarkedReset(F))
Adds(r) == \E F : About(F) /\ Reads(r, F) /\ r = Writes(F)
Deletes(d) ==
    /\ A!IsDeleteMatch(d)
    /\ \E F : About(F) /\ Says(A!ParseInstruction(d), F) /\ Reads(A!Added(d), F) /\ A!Added(d) = Writes(F)

\* The same words with the other verb.
LEMMA AddedIs ==
    ASSUME NEW D, NEW w \in Seq(D), NEW v \in Seq(D), Len(w) = Len(v),
           \A k \in 1..Len(w) : v[k] = IF w[k] = "--delete" THEN "--append" ELSE w[k]
    PROVE  A!Added(w) = v
<1>1. DOMAIN w = 1..Len(w) /\ v = [k \in 1..Len(w) |-> v[k]]
    OBVIOUS
<1>. QED BY <1>1 DEF A!Added

\* The rule for all that goes out through an interface is about something.
LEMMA ThroughAbout ==
    ASSUME NEW intf, intf \notin Reserved
    PROVE  About(ThroughFields(intf)) /\ ThroughWords("--append", intf) = Writes(ThroughFields(intf))
<1>. DEFINE F == ThroughFields(intf)
<1>1. F.table = "filter" /\ F.chain = "OUTPUT" /\ F.target = "ACCEPT" /\ F.protocol = A!Unset
      /\ F.in = A!Unset /\ F.out = intf /\ F.source = A!Unset /\ F.destination = A!Unset
      /\ F.sport = A!Unset /\ F.dport = A!Unset /\ F.to = A!Unset /\ F.flags = A!Unset /\ F.mark = A!Unset
    BY DEF ThroughFields, NoFields
<1>2. intf # "*" /\ intf # "0" /\ intf # "all" /\ intf # A!NoPrefix /\ intf # A!AnyPrefix
    BY DEF Reserved, A!NoPrefix, A!AnyPrefix
<1>3. intf # A!Unset
    BY DEF Reserved
<1>. HIDE DEF F
<1>4. Plain(F)
    BY <1>1, <1>2, LiteralsAreSet DEF Plain
<1>5. NoOptions(F)
    BY <1>1, <1>3, LiteralsAreSet DEF NoOptions
<1>6. ThroughWords("--append", intf) = Writes(F)
    BY <1>1, <1>3, LiteralsAreSet DEF Writes
<1>. QED BY <1>4, <1>5, <1>6 DEF About, F

\* The instruction that adds it is a rule about something,
LEMMA ThroughAdds ==
    ASSUME NEW intf, intf \notin Reserved
    PROVE  Adds(ThroughWords("--append", intf))
BY ThroughAbout, ThroughRead DEF Adds

\* and the one that deletes it is a deletion of that rule.
LEMMA ThroughDeletes ==
    ASSUME NEW intf, intf \notin Reserved
    PROVE  Deletes(ThroughWords("--delete", intf))
<1>. DEFINE w == ThroughWords("--delete", intf)
            v == ThroughWords("--append", intf)
            D == {"--delete", "--append", "OUTPUT", "-o", intf, "-j", "ACCEPT"}
<1>1. w \in Seq(D)
    BY DEF ThroughWords
<1>2. v \in Seq(D)
    BY DEF ThroughWords
<1>3. Len(w) = 6 /\ Len(v) = 6 /\ w[1] = "--delete"
    BY DEF ThroughWords
<1>4. intf # "--delete"
    BY DEF Reserved, Flags
<1>5. \A k \in 1..Len(w) : v[k] = IF w[k] = "--delete" THEN "--append" ELSE w[k]
    BY <1>4 DEF ThroughWords
<1>. HIDE DEF w, v, D
<1>6. A!Added(w) = v
    BY <1>1, <1>2, <1>3, <1>5, AddedIs
<1>7. A!IsDeleteMatch(w)
    BY <1>3 DEF A!IsDeleteMatch
<1>8. Says(A!ParseInstruction(w), ThroughFields(intf))
    BY ThroughParsed DEF w
<1>9. Reads(v, ThroughFields(intf)) /\ About(ThroughFields(intf)) /\ v = Writes(ThroughFields(intf))
    BY ThroughRead, ThroughAbout DEF v
<1>. QED BY <1>6, <1>7, <1>8, <1>9 DEF Deletes, w

\* The rule for what goes to the VPN server is about something.
LEMMA ToVPNAbout ==
    ASSUME NEW intf, NEW ip, NEW protocol, NEW port, intf \notin Reserved, ip \notin Reserved,
           port \notin Reserved, protocol \in {"tcp", "udp"}
    PROVE  About(ToVPNFields(intf, ip, protocol, port))
           /\ ToVPNWords("--append", intf, ip, protocol, port) = Writes(ToVPNFields(intf, ip, protocol, port))
<1>. DEFINE F == ToVPNFields(intf, ip, protocol, port)
<1>1. F.table = "filter" /\ F.chain = "OUTPUT" /\ F.target = "ACCEPT" /\ F.protocol = protocol
      /\ F.in = A!Unset /\ F.out = intf /\ F.source = A!Unset /\ F.destination = ip /\ F.sport = A!Unset
      /\ F.dport = port /\ F.to = A!Unset /\ F.flags = A!Unset /\ F.mark = A!Unset
    BY DEF ToVPNFields, NoFields
<1>2. intf # "*" /\ intf # "0" /\ intf # "all" /\ intf # A!NoPrefix /\ intf # A!AnyPrefix /\ ip # "*"
      /\ ip # "0" /\ ip # "all" /\ ip # A!NoPrefix /\ ip # A!AnyPrefix /\ protocol # "*" /\ protocol # "0"
      /\ protocol # "all" /\ protocol # A!NoPrefix /\ protocol # A!AnyPrefix /\ port # "*" /\ port # "0"
      /\ port # "all" /\ port # A!NoPrefix /\ port # A!AnyPrefix
    BY DEF Reserved, A!NoPrefix, A!AnyPrefix
<1>3. intf # A!Unset
    BY DEF Reserved
<1>4. ip # A!Unset
    BY DEF Reserved
<1>5. protocol # A!Unset
    BY LiteralsAreSet
<1>6. port # A!Unset
    BY DEF Reserved
<1>. HIDE DEF F
<1>7. Plain(F)
    BY <1>1, <1>2, LiteralsAreSet DEF Plain
<1>8. PortOnly(F)
    BY <1>1, <1>3, <1>4, <1>5, <1>6, LiteralsAreSet DEF PortOnly
<1>9. ToVPNWords("--append", intf, ip, protocol, port) = Writes(F)
    BY <1>1, <1>3, <1>4, <1>5, <1>6, LiteralsAreSet DEF Writes
<1>. QED BY <1>7, <1>8, <1>9 DEF About, F

\* The instruction that adds it is a rule about something,
LEMMA ToVPNAdds ==
    ASSUME NEW intf, NEW ip, NEW protocol, NEW port, intf \notin Reserved, ip \notin Reserved,
           port \notin Reserved, protocol \in {"tcp", "udp"}
    PROVE  Adds(ToVPNWords("--append", intf, ip, protocol, port))
BY ToVPNAbout, ToVPNRead DEF Adds

\* and the one that deletes it is a deletion of that rule.
LEMMA ToVPNDeletes ==
    ASSUME NEW intf, NEW ip, NEW protocol, NEW port, intf \notin Reserved, ip \notin Reserved,
           port \notin Reserved, protocol \in {"tcp", "udp"}
    PROVE  Deletes(ToVPNWords("--delete", intf, ip, protocol, port))
<1>. DEFINE w == ToVPNWords("--delete", intf, ip, protocol, port)
            v == ToVPNWords("--append", intf, ip, protocol, port)
            D == {"--delete", "--append", "OUTPUT", "-d", ip, "-o", intf, "-p", protocol, "-m", "--dport",
                  port, "-j", "ACCEPT"}
<1>1. w \in Seq(D)
    BY DEF ToVPNWords
<1>2. v \in Seq(D)
    BY DEF ToVPNWords
<1>3. Len(w) = 14 /\ Len(v) = 14 /\ w[1] = "--delete"
    BY DEF ToVPNWords
<1>4. intf # "--delete" /\ ip # "--delete" /\ protocol # "--delete" /\ port # "--delete"
    BY DEF Reserved, Flags
<1>5. \A k \in 1..Len(w) : v[k] = IF w[k] = "--delete" THEN "--append" ELSE w[k]
    BY <1>4 DEF ToVPNWords
<1>. HIDE DEF w, v, D
<1>6. A!Added(w) = v
    BY <1>1, <1>2, <1>3, <1>5, AddedIs
<1>7. A!IsDeleteMatch(w)
    BY <1>3 DEF A!IsDeleteMatch
<1>8. Says(A!ParseInstruction(w), ToVPNFields(intf, ip, protocol, port))
    BY ToVPNParsed DEF w
<1>9. Reads(v, ToVPNFields(intf, ip, protocol, port)) /\ About(ToVPNFields(intf, ip, protocol, port))
      /\ v = Writes(ToVPNFields(intf, ip, protocol, port))
    BY ToVPNRead, ToVPNAbout DEF v
<1>. QED BY <1>6, <1>7, <1>8, <1>9 DEF Deletes, w

\* The rule for what goes to a subnet through an interface is about something.
LEMMA SubnetOfAbout ==
    ASSUME NEW intf, NEW ip, NEW subnet, intf \notin Reserved, ip \notin Reserved, subnet \notin Reserved
    PROVE  About(SubnetOfFields(intf, ip, subnet))
           /\ SubnetOfWords("--append", intf, ip, subnet) = Writes(SubnetOfFields(intf, ip, subnet))
<1>. DEFINE F == SubnetOfFields(intf, ip, subnet)
<1>1. F.table = "filter" /\ F.chain = "OUTPUT" /\ F.target = "ACCEPT" /\ F.protocol = A!Unset
      /\ F.in = A!Unset /\ F.out = intf /\ F.source = ip /\ F.destination = subnet /\ F.sport = A!Unset
      /\ F.dport = A!Unset /\ F.to = A!Unset /\ F.flags = A!Unset /\ F.mark = A!Unset
    BY DEF SubnetOfFields, NoFields
<1>2. intf # "*" /\ intf # "0" /\ intf # "all" /\ intf # A!NoPrefix /\ intf # A!AnyPrefix /\ ip # "*"
      /\ ip # "0" /\ ip # "all" /\ ip # A!NoPrefix /\ ip # A!AnyPrefix /\ subnet # "*" /\ subnet # "0"
      /\ subnet # "all" /\ subnet # A!NoPrefix /\ subnet # A!AnyPrefix
    BY DEF Reserved, A!NoPrefix, A!AnyPrefix
<1>3. intf # A!Unset
    BY DEF Reserved
<1>4. ip # A!Unset
    BY DEF Reserved
<1>5. subnet # A!Unset
    BY DEF Reserved
<1>. HIDE DEF F
<1>6. Plain(F)
    BY <1>1, <1>2, LiteralsAreSet DEF Plain
<1>7. NoOptions(F)
    BY <1>1, <1>3, <1>4, <1>5, LiteralsAreSet DEF NoOptions
<1>8. SubnetOfWords("--append", intf, ip, subnet) = Writes(F)
    BY <1>1, <1>3, <1>4, <1>5, LiteralsAreSet DEF Writes
<1>. QED BY <1>6, <1>7, <1>8 DEF About, F

\* The instruction that adds it is a rule about something,
LEMMA SubnetOfAdds ==
    ASSUME NEW intf, NEW ip, NEW subnet, intf \notin Reserved, ip \notin Reserved, subnet \notin Reserved
    PROVE  Adds(SubnetOfWords("--append", intf, ip, subnet))
BY SubnetOfAbout, SubnetOfRead DEF Adds

\* and the one that deletes it is a deletion of that rule.
LEMMA SubnetOfDeletes ==
    ASSUME NEW intf, NEW ip, NEW subnet, intf \notin Reserved, ip \notin Reserved, subnet \notin Reserved
    PROVE  Deletes(SubnetOfWords("--delete", intf, ip, subnet))
<1>. DEFINE w == SubnetOfWords("--delete", intf, ip, subnet)
            v == SubnetOfWords("--append", intf, ip, subnet)
            D == {"--delete", "--append", "OUTPUT", "-o", intf, "-s", ip, "-d", subnet, "-j", "ACCEPT"}
<1>1. w \in Seq(D)
    BY DEF SubnetOfWords
<1>2. v \in Seq(D)
    BY DEF SubnetOfWords
<1>3. Len(w) = 10 /\ Len(v) = 10 /\ w[1] = "--delete"
    BY DEF SubnetOfWords
<1>4. intf # "--delete" /\ ip # "--delete" /\ subnet # "--delete"
    BY DEF Reserved, Flags
<1>5. \A k \in 1..Len(w) : v[k] = IF w[k] = "--delete" THEN "--append" ELSE w[k]
    BY <1>4 DEF SubnetOfWords
<1>. HIDE DEF w, v, D
<1>6. A!Added(w) = v
    BY <1>1, <1>2, <1>3, <1>5, AddedIs
<1>7. A!IsDeleteMatch(w)
    BY <1>3 DEF A!IsDeleteMatch
<1>8. Says(A!ParseInstruction(w), SubnetOfFields(intf, ip, subnet))
    BY SubnetOfParsed DEF w
<1>9. Reads(v, SubnetOfFields(intf, ip, subnet)) /\ About(SubnetOfFields(intf, ip, subnet))
      /\ v = Writes(SubnetOfFields(intf, ip, subnet))
    BY SubnetOfRead, SubnetOfAbout DEF v
<1>. QED BY <1>6, <1>7, <1>8, <1>9 DEF Deletes, w

\* The rule for what goes to a subnet through any interface is about something.
LEMMA SubnetAnyAbout ==
    ASSUME NEW ip, NEW subnet, ip \notin Reserved, subnet \notin Reserved
    PROVE  About(SubnetAnyFields(ip, subnet))
           /\ SubnetAnyWords("--append", ip, subnet) = Writes(SubnetAnyFields(ip, subnet))
<1>. DEFINE F == SubnetAnyFields(ip, subnet)
<1>1. F.table = "filter" /\ F.chain = "OUTPUT" /\ F.target = "ACCEPT" /\ F.protocol = A!Unset
      /\ F.in = A!Unset /\ F.out = A!Unset /\ F.source = ip /\ F.destination = subnet /\ F.sport = A!Unset
      /\ F.dport = A!Unset /\ F.to = A!Unset /\ F.flags = A!Unset /\ F.mark = A!Unset
    BY DEF SubnetAnyFields, NoFields
<1>2. ip # "*" /\ ip # "0" /\ ip # "all" /\ ip # A!NoPrefix /\ ip # A!AnyPrefix /\ subnet # "*"
      /\ subnet # "0" /\ subnet # "all" /\ subnet # A!NoPrefix /\ subnet # A!AnyPrefix
    BY DEF Reserved, A!NoPrefix, A!AnyPrefix
<1>3. ip # A!Unset
    BY DEF Reserved
<1>4. subnet # A!Unset
    BY DEF Reserved
<1>. HIDE DEF F
<1>5. Plain(F)
    BY <1>1, <1>2, LiteralsAreSet DEF Plain
<1>6. NoOptions(F)
    BY <1>1, <1>3, <1>4, LiteralsAreSet DEF NoOptions
<1>7. SubnetAnyWords("--append", ip, subnet) = Writes(F)
    BY <1>1, <1>3, <1>4, LiteralsAreSet DEF Writes
<1>. QED BY <1>5, <1>6, <1>7 DEF About, F

\* The instruction that adds it is a rule about something,
LEMMA SubnetAnyAdds ==
    ASSUME NEW ip, NEW subnet, ip \notin Reserved, subnet \notin Reserved
    PROVE  Adds(SubnetAnyWords("--append", ip, subnet))
BY SubnetAnyAbout, SubnetAnyRead DEF Adds

\* and the one that deletes it is a deletion of that rule.
LEMMA SubnetAnyDeletes ==
    ASSUME NEW ip, NEW subnet, ip \notin Reserved, subnet \notin Reserved
    PROVE  Deletes(SubnetAnyWords("--delete", ip, subnet))
<1>. DEFINE w == SubnetAnyWords("--delete", ip, subnet)
            v == SubnetAnyWords("--append", ip, subnet)
            D == {"--delete", "--append", "OUTPUT", "-s", ip, "-d", subnet, "-j", "ACCEPT"}
<1>1. w \in Seq(D)
    BY DEF SubnetAnyWords
<1>2. v \in Seq(D)
    BY DEF SubnetAnyWords
<1>3. Len(w) = 8 /\ Len(v) = 8 /\ w[1] = "--delete"
    BY DEF SubnetAnyWords
<1>4. ip # "--delete" /\ subnet # "--delete"
    BY DEF Reserved, Flags
<1>5. \A k \in 1..Len(w) : v[k] = IF w[k] = "--delete" THEN "--append" ELSE w[k]
    BY <1>4 DEF SubnetAnyWords
<1>. HIDE DEF w, v, D
<1>6. A!Added(w) = v
    BY <1>1, <1>2, <1>3, <1>5, AddedIs
<1>7. A!IsDeleteMatch(w)
    BY <1>3 DEF A!IsDeleteMatch
<1>8. Says(A!ParseInstruction(w), SubnetAnyFields(ip, subnet))
    BY SubnetAnyParsed DEF w
<1>9. Reads(v, SubnetAnyFields(ip, subnet)) /\ About(SubnetAnyFields(ip, subnet))
      /\ v = Writes(SubnetAnyFields(ip, subnet))
    BY SubnetAnyRead, SubnetAnyAbout DEF v
<1>. QED BY <1>6, <1>7, <1>8, <1>9 DEF Deletes, w

\* The rule for what comes to a port through an interface is about something.
LEMMA PortOfAbout ==
    ASSUME NEW intf, NEW protocol, NEW port, intf \notin Reserved, port \notin Reserved,
           protocol \in {"tcp", "udp"}
    PROVE  About(PortOfFields(intf, protocol, port))
           /\ PortOfWords("--append", intf, protocol, port) = Writes(PortOfFields(intf, protocol, port))
<1>. DEFINE F == PortOfFields(intf, protocol, port)
<1>1. F.table = "filter" /\ F.chain = "INPUT" /\ F.target = "ACCEPT" /\ F.protocol = protocol /\ F.in = intf
      /\ F.out = A!Unset /\ F.source = A!Unset /\ F.destination = A!Unset /\ F.sport = A!Unset
      /\ F.dport = port /\ F.to = A!Unset /\ F.flags = A!Unset /\ F.mark = A!Unset
    BY DEF PortOfFields, NoFields
<1>2. intf # "*" /\ intf # "0" /\ intf # "all" /\ intf # A!NoPrefix /\ intf # A!AnyPrefix /\ protocol # "*"
      /\ protocol # "0" /\ protocol # "all" /\ protocol # A!NoPrefix /\ protocol # A!AnyPrefix /\ port # "*"
      /\ port # "0" /\ port # "all" /\ port # A!NoPrefix /\ port # A!AnyPrefix
    BY DEF Reserved, A!NoPrefix, A!AnyPrefix
<1>3. intf # A!Unset
    BY DEF Reserved
<1>4. protocol # A!Unset
    BY LiteralsAreSet
<1>5. port # A!Unset
    BY DEF Reserved
<1>. HIDE DEF F
<1>6. Plain(F)
    BY <1>1, <1>2, LiteralsAreSet DEF Plain
<1>7. PortOnly(F)
    BY <1>1, <1>3, <1>4, <1>5, LiteralsAreSet DEF PortOnly
<1>8. PortOfWords("--append", intf, protocol, port) = Writes(F)
    BY <1>1, <1>3, <1>4, <1>5, LiteralsAreSet DEF Writes
<1>. QED BY <1>6, <1>7, <1>8 DEF About, F

\* The instruction that adds it is a rule about something,
LEMMA PortOfAdds ==
    ASSUME NEW intf, NEW protocol, NEW port, intf \notin Reserved, port \notin Reserved,
           protocol \in {"tcp", "udp"}
    PROVE  Adds(PortOfWords("--append", intf, protocol, port))
BY PortOfAbout, PortOfRead DEF Adds

\* and the one that deletes it is a deletion of that rule.
LEMMA PortOfDeletes ==
    ASSUME NEW intf, NEW protocol, NEW port, intf \notin Reserved, port \notin Reserved,
           protocol \in {"tcp", "udp"}
    PROVE  Deletes(PortOfWords("--delete", intf, protocol, port))
<1>. DEFINE w == PortOfWords("--delete", intf, protocol, port)
            v == PortOfWords("--append", intf, protocol, port)
            D == {"--delete", "--append", "INPUT", "-i", intf, "-p", protocol, "-m", "--dport", port, "-j",
                  "ACCEPT"}
<1>1. w \in Seq(D)
    BY DEF PortOfWords
<1>2. v \in Seq(D)
    BY DEF PortOfWords
<1>3. Len(w) = 12 /\ Len(v) = 12 /\ w[1] = "--delete"
    BY DEF PortOfWords
<1>4. intf # "--delete" /\ protocol # "--delete" /\ port # "--delete"
    BY DEF Reserved, Flags
<1>5. \A k \in 1..Len(w) : v[k] = IF w[k] = "--delete" THEN "--append" ELSE w[k]
    BY <1>4 DEF PortOfWords
<1>. HIDE DEF w, v, D
<1>6. A!Added(w) = v
    BY <1>1, <1>2, <1>3, <1>5, AddedIs
<1>7. A!IsDeleteMatch(w)
    BY <1>3 DEF A!IsDeleteMatch
<1>8. Says(A!ParseInstruction(w), PortOfFields(intf, protocol, port))
    BY PortOfParsed DEF w
<1>9. Reads(v, PortOfFields(intf, protocol, port)) /\ About(PortOfFields(intf, protocol, port))
      /\ v = Writes(PortOfFields(intf, protocol, port))
    BY PortOfRead, PortOfAbout DEF v
<1>. QED BY <1>6, <1>7, <1>8, <1>9 DEF Deletes, w

\* The rule for what comes to a port through any interface is about something.
LEMMA PortAnyAbout ==
    ASSUME NEW protocol, NEW port, port \notin Reserved, protocol \in {"tcp", "udp"}
    PROVE  About(PortAnyFields(protocol, port))
           /\ PortAnyWords("--append", protocol, port) = Writes(PortAnyFields(protocol, port))
<1>. DEFINE F == PortAnyFields(protocol, port)
<1>1. F.table = "filter" /\ F.chain = "INPUT" /\ F.target = "ACCEPT" /\ F.protocol = protocol
      /\ F.in = A!Unset /\ F.out = A!Unset /\ F.source = A!Unset /\ F.destination = A!Unset
      /\ F.sport = A!Unset /\ F.dport = port /\ F.to = A!Unset /\ F.flags = A!Unset /\ F.mark = A!Unset
    BY DEF PortAnyFields, NoFields
<1>2. protocol # "*" /\ protocol # "0" /\ protocol # "all" /\ protocol # A!NoPrefix
      /\ protocol # A!AnyPrefix /\ port # "*" /\ port # "0" /\ port # "all" /\ port # A!NoPrefix
      /\ port # A!AnyPrefix
    BY DEF Reserved, A!NoPrefix, A!AnyPrefix
<1>3. protocol # A!Unset
    BY LiteralsAreSet
<1>4. port # A!Unset
    BY DEF Reserved
<1>. HIDE DEF F
<1>5. Plain(F)
    BY <1>1, <1>2, LiteralsAreSet DEF Plain
<1>6. PortOnly(F)
    BY <1>1, <1>3, <1>4, LiteralsAreSet DEF PortOnly
<1>7. PortAnyWords("--append", protocol, port) = Writes(F)
    BY <1>1, <1>3, <1>4, LiteralsAreSet DEF Writes
<1>. QED BY <1>5, <1>6, <1>7 DEF About, F

\* The instruction that adds it is a rule about something,
LEMMA PortAnyAdds ==
    ASSUME NEW protocol, NEW port, port \notin Reserved, protocol \in {"tcp", "udp"}
    PROVE  Adds(PortAnyWords("--append", protocol, port))
BY PortAnyAbout, PortAnyRead DEF Adds

\* and the one that deletes it is a deletion of that rule.
LEMMA PortAnyDeletes ==
    ASSUME NEW protocol, NEW port, port \notin Reserved, protocol \in {"tcp", "udp"}
    PROVE  Deletes(PortAnyWords("--delete", protocol, port))
<1>. DEFINE w == PortAnyWords("--delete", protocol, port)
            v == PortAnyWords("--append", protocol, port)
            D == {"--delete", "--append", "INPUT", "-p", protocol, "-m", "--dport", port, "-j", "ACCEPT"}
<1>1. w \in Seq(D)
    BY DEF PortAnyWords
<1>2. v \in Seq(D)
    BY DEF PortAnyWords
<1>3. Len(w) = 10 /\ Len(v) = 10 /\ w[1] = "--delete"
    BY DEF PortAnyWords
<1>4. protocol # "--delete" /\ port # "--delete"
    BY DEF Reserved, Flags
<1>5. \A k \in 1..Len(w) : v[k] = IF w[k] = "--delete" THEN "--append" ELSE w[k]
    BY <1>4 DEF PortAnyWords
<1>. HIDE DEF w, v, D
<1>6. A!Added(w) = v
    BY <1>1, <1>2, <1>3, <1>5, AddedIs
<1>7. A!IsDeleteMatch(w)
    BY <1>3 DEF A!IsDeleteMatch
<1>8. Says(A!ParseInstruction(w), PortAnyFields(protocol, port))
    BY PortAnyParsed DEF w
<1>9. Reads(v, PortAnyFields(protocol, port)) /\ About(PortAnyFields(protocol, port))
      /\ v = Writes(PortAnyFields(protocol, port))
    BY PortAnyRead, PortAnyAbout DEF v
<1>. QED BY <1>6, <1>7, <1>8, <1>9 DEF Deletes, w

\* The rule for a redirection of an interface is about something.
LEMMA RedirectOfAbout ==
    ASSUME NEW intf, NEW protocol, NEW port, NEW to, intf \notin Reserved, port \notin Reserved,
           to \notin Reserved, protocol \in {"tcp", "udp"}
    PROVE  About(RedirectOfFields(intf, protocol, port, to))
           /\ RedirectOfWords("--append", intf, protocol, port, to)
                 = Writes(RedirectOfFields(intf, protocol, port, to))
<1>. DEFINE F == RedirectOfFields(intf, protocol, port, to)
<1>1. F.table = "nat" /\ F.chain = "PREROUTING" /\ F.target = "REDIRECT" /\ F.protocol = protocol
      /\ F.in = intf /\ F.out = A!Unset /\ F.source = A!Unset /\ F.destination = A!Unset
      /\ F.sport = A!Unset /\ F.dport = port /\ F.to = to /\ F.flags = A!Unset /\ F.mark = A!Unset
    BY DEF RedirectOfFields, NoFields
<1>2. intf # "*" /\ intf # "0" /\ intf # "all" /\ intf # A!NoPrefix /\ intf # A!AnyPrefix /\ protocol # "*"
      /\ protocol # "0" /\ protocol # "all" /\ protocol # A!NoPrefix /\ protocol # A!AnyPrefix /\ port # "*"
      /\ port # "0" /\ port # "all" /\ port # A!NoPrefix /\ port # A!AnyPrefix /\ to # "*" /\ to # "0"
      /\ to # "all" /\ to # A!NoPrefix /\ to # A!AnyPrefix
    BY DEF Reserved, A!NoPrefix, A!AnyPrefix
<1>3. intf # A!Unset
    BY DEF Reserved
<1>4. protocol # A!Unset
    BY LiteralsAreSet
<1>5. port # A!Unset
    BY DEF Reserved
<1>6. to # A!Unset
    BY DEF Reserved
<1>. HIDE DEF F
<1>7. Plain(F)
    BY <1>1, <1>2, LiteralsAreSet DEF Plain
<1>8. PortOnly(F)
    BY <1>1, <1>3, <1>4, <1>5, <1>6, LiteralsAreSet DEF PortOnly
<1>9. RedirectOfWords("--append", intf, protocol, port, to) = Writes(F)
    BY <1>1, <1>3, <1>4, <1>5, <1>6, LiteralsAreSet DEF Writes
<1>. QED BY <1>7, <1>8, <1>9 DEF About, F

\* The instruction that adds it is a rule about something,
LEMMA RedirectOfAdds ==
    ASSUME NEW intf, NEW protocol, NEW port, NEW to, intf \notin Reserved, port \notin Reserved,
           to \notin Reserved, protocol \in {"tcp", "udp"}
    PROVE  Adds(RedirectOfWords("--append", intf, protocol, port, to))
BY RedirectOfAbout, RedirectOfRead DEF Adds

\* and the one that deletes it is a deletion of that rule.
LEMMA RedirectOfDeletes ==
    ASSUME NEW intf, NEW protocol, NEW port, NEW to, intf \notin Reserved, port \notin Reserved,
           to \notin Reserved, protocol \in {"tcp", "udp"}
    PROVE  Deletes(RedirectOfWords("--delete", intf, protocol, port, to))
<1>. DEFINE w == RedirectOfWords("--delete", intf, protocol, port, to)
            v == RedirectOfWords("--append", intf, protocol, port, to)
            D == {"--delete", "--append", "-t", "nat", "PREROUTING", "-i", intf, "-p", protocol, "--dport",
                  port, "-j", "REDIRECT", "--to-ports", to}
<1>1. w \in Seq(D)
    BY DEF RedirectOfWords
<1>2. v \in Seq(D)
    BY DEF RedirectOfWords
<1>3. Len(w) = 14 /\ Len(v) = 14 /\ w[3] = "--delete"
    BY DEF RedirectOfWords
<1>4. intf # "--delete" /\ protocol # "--delete" /\ port # "--delete" /\ to # "--delete"
    BY DEF Reserved, Flags
<1>5. \A k \in 1..Len(w) : v[k] = IF w[k] = "--delete" THEN "--append" ELSE w[k]
    BY <1>4 DEF RedirectOfWords
<1>. HIDE DEF w, v, D
<1>6. A!Added(w) = v
    BY <1>1, <1>2, <1>3, <1>5, AddedIs
<1>7. A!IsDeleteMatch(w)
    BY <1>3 DEF A!IsDeleteMatch
<1>8. Says(A!ParseInstruction(w), RedirectOfFields(intf, protocol, port, to))
    BY RedirectOfParsed DEF w
<1>9. Reads(v, RedirectOfFields(intf, protocol, port, to))
      /\ About(RedirectOfFields(intf, protocol, port, to))
            /\ v = Writes(RedirectOfFields(intf, protocol, port, to))
    BY RedirectOfRead, RedirectOfAbout DEF v
<1>. QED BY <1>6, <1>7, <1>8, <1>9 DEF Deletes, w

\* The rule for a redirection of any interface is about something.
LEMMA RedirectAnyAbout ==
    ASSUME NEW protocol, NEW port, NEW to, port \notin Reserved, to \notin Reserved, protocol \in {"tcp",
           "udp"}
    PROVE  About(RedirectAnyFields(protocol, port, to))
           /\ RedirectAnyWords("--append", protocol, port, to) = Writes(RedirectAnyFields(protocol, port, to))
<1>. DEFINE F == RedirectAnyFields(protocol, port, to)
<1>1. F.table = "nat" /\ F.chain = "PREROUTING" /\ F.target = "REDIRECT" /\ F.protocol = protocol
      /\ F.in = A!Unset /\ F.out = A!Unset /\ F.source = A!Unset /\ F.destination = A!Unset
      /\ F.sport = A!Unset /\ F.dport = port /\ F.to = to /\ F.flags = A!Unset /\ F.mark = A!Unset
    BY DEF RedirectAnyFields, NoFields
<1>2. protocol # "*" /\ protocol # "0" /\ protocol # "all" /\ protocol # A!NoPrefix
      /\ protocol # A!AnyPrefix /\ port # "*" /\ port # "0" /\ port # "all" /\ port # A!NoPrefix
      /\ port # A!AnyPrefix /\ to # "*" /\ to # "0" /\ to # "all" /\ to # A!NoPrefix /\ to # A!AnyPrefix
    BY DEF Reserved, A!NoPrefix, A!AnyPrefix
<1>3. protocol # A!Unset
    BY LiteralsAreSet
<1>4. port # A!Unset
    BY DEF Reserved
<1>5. to # A!Unset
    BY DEF Reserved
<1>. HIDE DEF F
<1>6. Plain(F)
    BY <1>1, <1>2, LiteralsAreSet DEF Plain
<1>7. PortOnly(F)
    BY <1>1, <1>3, <1>4, <1>5, LiteralsAreSet DEF PortOnly
<1>8. RedirectAnyWords("--append", protocol, port, to) = Writes(F)
    BY <1>1, <1>3, <1>4, <1>5, LiteralsAreSet DEF Writes
<1>. QED BY <1>6, <1>7, <1>8 DEF About, F

\* The instruction that adds it is a rule about something,
LEMMA RedirectAnyAdds ==
    ASSUME NEW protocol, NEW port, NEW to, port \notin Reserved, to \notin Reserved, protocol \in {"tcp",
           "udp"}
    PROVE  Adds(RedirectAnyWords("--append", protocol, port, to))
BY RedirectAnyAbout, RedirectAnyRead DEF Adds

\* and the one that deletes it is a deletion of that rule.
LEMMA RedirectAnyDeletes ==
    ASSUME NEW protocol, NEW port, NEW to, port \notin Reserved, to \notin Reserved, protocol \in {"tcp",
           "udp"}
    PROVE  Deletes(RedirectAnyWords("--delete", protocol, port, to))
<1>. DEFINE w == RedirectAnyWords("--delete", protocol, port, to)
            v == RedirectAnyWords("--append", protocol, port, to)
            D == {"--delete", "--append", "-t", "nat", "PREROUTING", "-p", protocol, "--dport", port, "-j",
                  "REDIRECT", "--to-ports", to}
<1>1. w \in Seq(D)
    BY DEF RedirectAnyWords
<1>2. v \in Seq(D)
    BY DEF RedirectAnyWords
<1>3. Len(w) = 12 /\ Len(v) = 12 /\ w[3] = "--delete"
    BY DEF RedirectAnyWords
<1>4. protocol # "--delete" /\ port # "--delete" /\ to # "--delete"
    BY DEF Reserved, Flags
<1>5. \A k \in 1..Len(w) : v[k] = IF w[k] = "--delete" THEN "--append" ELSE w[k]
    BY <1>4 DEF RedirectAnyWords
<1>. HIDE DEF w, v, D
<1>6. A!Added(w) = v
    BY <1>1, <1>2, <1>3, <1>5, AddedIs
<1>7. A!IsDeleteMatch(w)
    BY <1>3 DEF A!IsDeleteMatch
<1>8. Says(A!ParseInstruction(w), RedirectAnyFields(protocol, port, to))
    BY RedirectAnyParsed DEF w
<1>9. Reads(v, RedirectAnyFields(protocol, port, to)) /\ About(RedirectAnyFields(protocol, port, to))
      /\ v = Writes(RedirectAnyFields(protocol, port, to))
    BY RedirectAnyRead, RedirectAnyAbout DEF v
<1>. QED BY <1>6, <1>7, <1>8, <1>9 DEF Deletes, w

\* The rule for the resets of a connection is about something.
LEMMA ResetAbout ==
    ASSUME NEW ip, NEW sport, NEW peer, NEW port, NEW mark, ip \notin Reserved, sport \notin Reserved,
           peer \notin Reserved, port \notin Reserved, mark \notin Reserved
    PROVE  About(ResetFields(ip, sport, peer, port, mark))
           /\ ResetWords("--append", ip, sport, peer, port, mark)
                 = Writes(ResetFields(ip, sport, peer, port, mark))
<1>. DEFINE F == ResetFields(ip, sport, peer, port, mark)
<1>1. F.table = "filter" /\ F.chain = "OUTPUT" /\ F.target = "DROP" /\ F.protocol = "tcp" /\ F.in = A!Unset
      /\ F.out = A!Unset /\ F.source = ip /\ F.destination = peer /\ F.sport = sport /\ F.dport = port
      /\ F.to = A!Unset /\ F.flags = "RST" /\ F.mark = mark
    BY DEF ResetFields, NoFields
<1>2. ip # "*" /\ ip # "0" /\ ip # "all" /\ ip # A!NoPrefix /\ ip # A!AnyPrefix /\ sport # "*"
      /\ sport # "0" /\ sport # "all" /\ sport # A!NoPrefix /\ sport # A!AnyPrefix /\ peer # "*"
      /\ peer # "0" /\ peer # "all" /\ peer # A!NoPrefix /\ peer # A!AnyPrefix /\ port # "*" /\ port # "0"
      /\ port # "all" /\ port # A!NoPrefix /\ port # A!AnyPrefix /\ mark # "*" /\ mark # "0" /\ mark # "all"
      /\ mark # A!NoPrefix /\ mark # A!AnyPrefix
    BY DEF Reserved, A!NoPrefix, A!AnyPrefix
<1>3. ip # A!Unset
    BY DEF Reserved
<1>4. sport # A!Unset
    BY DEF Reserved
<1>5. peer # A!Unset
    BY DEF Reserved
<1>6. port # A!Unset
    BY DEF Reserved
<1>7. mark # A!Unset
    BY DEF Reserved
<1>. HIDE DEF F
<1>8. Plain(F)
    BY <1>1, <1>2, LiteralsAreSet DEF Plain
<1>9. MarkedReset(F)
    BY <1>1, <1>3, <1>4, <1>5, <1>6, <1>7, LiteralsAreSet DEF MarkedReset
<1>10. ResetWords("--append", ip, sport, peer, port, mark) = Writes(F)
    BY <1>1, <1>3, <1>4, <1>5, <1>6, <1>7, LiteralsAreSet DEF Writes
<1>. QED BY <1>8, <1>9, <1>10 DEF About, F

\* The instruction that adds it is a rule about something,
LEMMA ResetAdds ==
    ASSUME NEW ip, NEW sport, NEW peer, NEW port, NEW mark, ip \notin Reserved, sport \notin Reserved,
           peer \notin Reserved, port \notin Reserved, mark \notin Reserved
    PROVE  Adds(ResetWords("--append", ip, sport, peer, port, mark))
BY ResetAbout, ResetRead DEF Adds

\* and the one that deletes it is a deletion of that rule.
LEMMA ResetDeletes ==
    ASSUME NEW ip, NEW sport, NEW peer, NEW port, NEW mark, ip \notin Reserved, sport \notin Reserved,
           peer \notin Reserved, port \notin Reserved, mark \notin Reserved
    PROVE  Deletes(ResetWords("--delete", ip, sport, peer, port, mark))
<1>. DEFINE w == ResetWords("--delete", ip, sport, peer, port, mark)
            v == ResetWords("--append", ip, sport, peer, port, mark)
            D == {"--delete", "--append", "OUTPUT", "-p", "tcp", "-s", ip, "--sport", sport, "-d", peer,
                  "--dport", port, "--tcp-flags", "RST", "-m", "mark", "!", "--mark", mark, "-j", "DROP"}
<1>1. w \in Seq(D)
    BY DEF ResetWords
<1>2. v \in Seq(D)
    BY DEF ResetWords
<1>3. Len(w) = 22 /\ Len(v) = 22 /\ w[1] = "--delete"
    BY DEF ResetWords
<1>4. ip # "--delete" /\ sport # "--delete" /\ peer # "--delete" /\ port # "--delete" /\ mark # "--delete"
    BY DEF Reserved, Flags
<1>5. \A k \in 1..Len(w) : v[k] = IF w[k] = "--delete" THEN "--append" ELSE w[k]
    BY <1>4 DEF ResetWords
<1>. HIDE DEF w, v, D
<1>6. A!Added(w) = v
    BY <1>1, <1>2, <1>3, <1>5, AddedIs
<1>7. A!IsDeleteMatch(w)
    BY <1>3 DEF A!IsDeleteMatch
<1>8. Says(A!ParseInstruction(w), ResetFields(ip, sport, peer, port, mark))
    BY ResetParsed DEF w
<1>9. Reads(v, ResetFields(ip, sport, peer, port, mark)) /\ About(ResetFields(ip, sport, peer, port, mark))
      /\ v = Writes(ResetFields(ip, sport, peer, port, mark))
    BY ResetRead, ResetAbout DEF v
<1>. QED BY <1>6, <1>7, <1>8, <1>9 DEF Deletes, w

\* The rule for what comes to a subnet through an interface is about something.
LEMMA SubnetInOfAbout ==
    ASSUME NEW intf, NEW subnet, intf \notin Reserved, subnet \notin Reserved
    PROVE  About(SubnetInOfFields(intf, subnet))
           /\ SubnetInOfWords("--append", intf, subnet) = Writes(SubnetInOfFields(intf, subnet))
<1>. DEFINE F == SubnetInOfFields(intf, subnet)
<1>1. F.table = "filter" /\ F.chain = "INPUT" /\ F.target = "ACCEPT" /\ F.protocol = A!Unset /\ F.in = intf
      /\ F.out = A!Unset /\ F.source = A!Unset /\ F.destination = subnet /\ F.sport = A!Unset
      /\ F.dport = A!Unset /\ F.to = A!Unset /\ F.flags = A!Unset /\ F.mark = A!Unset
    BY DEF SubnetInOfFields, NoFields
<1>2. intf # "*" /\ intf # "0" /\ intf # "all" /\ intf # A!NoPrefix /\ intf # A!AnyPrefix /\ subnet # "*"
      /\ subnet # "0" /\ subnet # "all" /\ subnet # A!NoPrefix /\ subnet # A!AnyPrefix
    BY DEF Reserved, A!NoPrefix, A!AnyPrefix
<1>3. intf # A!Unset
    BY DEF Reserved
<1>4. subnet # A!Unset
    BY DEF Reserved
<1>. HIDE DEF F
<1>5. Plain(F)
    BY <1>1, <1>2, LiteralsAreSet DEF Plain
<1>6. NoOptions(F)
    BY <1>1, <1>3, <1>4, LiteralsAreSet DEF NoOptions
<1>7. SubnetInOfWords("--append", intf, subnet) = Writes(F)
    BY <1>1, <1>3, <1>4, LiteralsAreSet DEF Writes
<1>. QED BY <1>5, <1>6, <1>7 DEF About, F

\* The instruction that adds it is a rule about something,
LEMMA SubnetInOfAdds ==
    ASSUME NEW intf, NEW subnet, intf \notin Reserved, subnet \notin Reserved
    PROVE  Adds(SubnetInOfWords("--append", intf, subnet))
BY SubnetInOfAbout, SubnetInOfRead DEF Adds

\* The rule for what comes to a subnet through any interface is about something.
LEMMA SubnetInAnyAbout ==
    ASSUME NEW subnet, subnet \notin Reserved
    PROVE  About(SubnetInAnyFields(subnet))
           /\ SubnetInAnyWords("--append", subnet) = Writes(SubnetInAnyFields(subnet))
<1>. DEFINE F == SubnetInAnyFields(subnet)
<1>1. F.table = "filter" /\ F.chain = "INPUT" /\ F.target = "ACCEPT" /\ F.protocol = A!Unset
      /\ F.in = A!Unset /\ F.out = A!Unset /\ F.source = A!Unset /\ F.destination = subnet
      /\ F.sport = A!Unset /\ F.dport = A!Unset /\ F.to = A!Unset /\ F.flags = A!Unset /\ F.mark = A!Unset
    BY DEF SubnetInAnyFields, NoFields
<1>2. subnet # "*" /\ subnet # "0" /\ subnet # "all" /\ subnet # A!NoPrefix /\ subnet # A!AnyPrefix
    BY DEF Reserved, A!NoPrefix, A!AnyPrefix
<1>3. subnet # A!Unset
    BY DEF Reserved
<1>. HIDE DEF F
<1>4. Plain(F)
    BY <1>1, <1>2, LiteralsAreSet DEF Plain
<1>5. NoOptions(F)
    BY <1>1, <1>3, LiteralsAreSet DEF NoOptions
<1>6. SubnetInAnyWords("--append", subnet) = Writes(F)
    BY <1>1, <1>3, LiteralsAreSet DEF Writes
<1>. QED BY <1>4, <1>5, <1>6 DEF About, F

\* The instruction that adds it is a rule about something,
LEMMA SubnetInAnyAdds ==
    ASSUME NEW subnet, subnet \notin Reserved
    PROVE  Adds(SubnetInAnyWords("--append", subnet))
BY SubnetInAnyAbout, SubnetInAnyRead DEF Adds

\* No word of the instance is reserved.
LEMMA WordsAreFree == \A x \in {"eth0", "tun0", "a", "b", "1", "2", "0x1"} : x \notin Reserved
<1>1. "eth0" # A!Unset
    BY Zenon DEF A!Unset
<1>2. "tun0" # A!Unset
    BY Zenon DEF A!Unset
<1>3. "a" # A!Unset
    BY Zenon DEF A!Unset
<1>4. "b" # A!Unset
    BY Zenon DEF A!Unset
<1>5. "1" # A!Unset
    BY Zenon DEF A!Unset
<1>6. "2" # A!Unset
    BY Zenon DEF A!Unset
<1>7. "0x1" # A!Unset
    BY Zenon DEF A!Unset
<1>. QED BY <1>1, <1>2, <1>3, <1>4, <1>5, <1>6, <1>7 DEF Reserved, Flags, FieldFlags, A!NoPrefix, A!AnyPrefix

\* The words of a redirection.
LEMMA RedirectionIs ==
    ASSUME NEW intf, NEW protocol, NEW port, NEW to, NEW remove
    PROVE  A!Redirection(intf, protocol, port, to, remove) = RedirectWords(A!Verb(remove), intf, protocol,
           port, to)
BY RedirectWritten DEF A!Redirection

\* The instructions with words among names, and the rules of the program with such words.
Instructions(names, remove) ==
    {A!OutputThroughInterface(i, remove) : i \in names}
    \cup {A!OutputTrafficToVPN(i, a, pr, po, remove) : i \in names, a \in names, pr \in {"tcp", "udp"},
          po \in names}
    \cup {A!OutputFromIPToSubnet(i, a, c, remove) : i \in names \cup {"*"}, a \in names, c \in names}
    \cup {A!InputToPort(i, pr, po, remove) : i \in names \cup {"*"}, pr \in {"tcp", "udp"}, po \in names}
    \cup {A!Redirection(i, pr, p, q, remove) :
             i \in names \cup {"*"}, pr \in {"tcp", "udp"}, p \in names, q \in names}
    \cup {A!DropRST(a, p, c, q, m, remove) :
             a \in names, p \in names, c \in names, q \in names, m \in names}
RulesWith(names) ==
    Instructions(names, FALSE) \cup {A!InputToSubnet(i, a) : i \in names \cup {"*"}, a \in names}

\* The instructions that may be deleted are deletions, and the rules they delete are rules, of one kind each.
LEMMA InstructionsAre ==
    ASSUME NEW names, \A x \in names : x \notin Reserved,
           NEW remove \in BOOLEAN, NEW d \in Instructions(names, remove)
    PROVE  (remove => Deletes(d)) /\ (~ remove => Adds(d))
<1>. DEFINE Protocols == {"tcp", "udp"}
            Shown(x) == (remove => Deletes(x)) /\ (~ remove => Adds(x))
<1>1. A!Verb(remove) = IF remove THEN "--delete" ELSE "--append"
    BY DEF A!Verb
<1>2. \A x \in names : x \notin Reserved
    OBVIOUS
<1>3. ASSUME NEW i \in names PROVE Shown(A!OutputThroughInterface(i, remove))
    <2>1. A!OutputThroughInterface(i, remove) = ThroughWords(A!Verb(remove), i)
        BY DEF A!OutputThroughInterface, ThroughWords
    <2>. QED BY <1>1, <1>2, <2>1, ThroughDeletes, ThroughAdds
<1>4. ASSUME NEW i \in names, NEW a \in names, NEW pr \in Protocols, NEW po \in names
      PROVE  Shown(A!OutputTrafficToVPN(i, a, pr, po, remove))
    <2>1. A!OutputTrafficToVPN(i, a, pr, po, remove) = ToVPNWords(A!Verb(remove), i, a, pr, po)
        BY DEF A!OutputTrafficToVPN, ToVPNWords
    <2>. QED BY <1>1, <1>2, <2>1, ToVPNDeletes, ToVPNAdds
<1>5. ASSUME NEW i \in names \cup {"*"}, NEW a \in names, NEW c \in names
      PROVE  Shown(A!OutputFromIPToSubnet(i, a, c, remove))
    <2>1. A!OutputFromIPToSubnet(i, a, c, remove)
          = IF i = "*" THEN SubnetAnyWords(A!Verb(remove), a, c) ELSE SubnetOfWords(A!Verb(remove), i, a, c)
        BY SubnetWritten DEF A!OutputFromIPToSubnet, SubnetWords
    <2>2. i # "*" => i \in names
        OBVIOUS
    <2>. QED BY <1>1, <1>2, <2>1, <2>2, SubnetAnyDeletes, SubnetOfDeletes, SubnetAnyAdds, SubnetOfAdds
<1>6. ASSUME NEW i \in names \cup {"*"}, NEW pr \in Protocols, NEW po \in names
      PROVE  Shown(A!InputToPort(i, pr, po, remove))
    <2>1. A!InputToPort(i, pr, po, remove)
          = IF i = "*" THEN PortAnyWords(A!Verb(remove), pr, po) ELSE PortOfWords(A!Verb(remove), i, pr, po)
        BY PortWritten DEF A!InputToPort, PortWords
    <2>2. i # "*" => i \in names
        OBVIOUS
    <2>. QED BY <1>1, <1>2, <2>1, <2>2, PortAnyDeletes, PortOfDeletes, PortAnyAdds, PortOfAdds
<1>7. ASSUME NEW i \in names \cup {"*"}, NEW pr \in Protocols, NEW p \in names, NEW q \in names
      PROVE  Shown(A!Redirection(i, pr, p, q, remove))
    <2>1. A!Redirection(i, pr, p, q, remove)
          = IF i = "*" THEN RedirectAnyWords(A!Verb(remove), pr, p, q)
            ELSE RedirectOfWords(A!Verb(remove), i, pr, p, q)
        BY RedirectionIs, Zenon DEF RedirectWords
    <2>2. i # "*" => i \in names
        OBVIOUS
    <2>. QED BY <1>1, <1>2, <2>1, <2>2, RedirectAnyDeletes, RedirectOfDeletes, RedirectAnyAdds, RedirectOfAdds
<1>8. ASSUME NEW a \in names, NEW p \in names, NEW c \in names, NEW q \in names, NEW m \in names
      PROVE  Shown(A!DropRST(a, p, c, q, m, remove))
    <2>1. A!DropRST(a, p, c, q, m, remove) = ResetWords(A!Verb(remove), a, p, c, q, m)
        BY DEF A!DropRST, ResetWords
    <2>. QED BY <1>1, <1>2, <2>1, ResetDeletes, ResetAdds
<1>. HIDE DEF Shown
<1>9. Shown(d)
    BY <1>3, <1>4, <1>5, <1>6, <1>7, <1>8 DEF Instructions
<1>. QED BY <1>9 DEF Shown

\* So are the others, which are never deleted.
LEMMA RulesAre ==
    ASSUME NEW names, \A x \in names : x \notin Reserved, NEW r \in RulesWith(names)
    PROVE  Adds(r)
<1>1. ASSUME NEW i \in names \cup {"*"}, NEW a \in names PROVE Adds(A!InputToSubnet(i, a))
    <2>1. A!InputToSubnet(i, a) = IF i = "*" THEN SubnetInAnyWords("--append",
          a) ELSE SubnetInOfWords("--append", i, a)
        BY SubnetInWritten DEF A!InputToSubnet, SubnetInWords
    <2>2. i # "*" => i \in names
        OBVIOUS
    <2>. QED BY <2>1, <2>2, SubnetInAnyAdds, SubnetInOfAdds
<1>. DEFINE appended == Instructions(names, FALSE)
<1>2. r \in appended => Adds(r)
    BY InstructionsAre
<1>3. RulesWith(names) = appended \cup {A!InputToSubnet(i, a) : i \in names \cup {"*"}, a \in names}
    BY DEF RulesWith
<1>. HIDE DEF appended
<1>. QED BY <1>1, <1>2, <1>3

\* A deletion is equal to the rule it names, and to no other rule of the program.
LEMMA EqualWhenNamed ==
    ASSUME NEW d, Deletes(d), NEW r, Adds(r)
    PROVE  A!EqualToRule(A!ParseInstruction(d), A!Table(r), A!Chain(r),
           A!ParseLine(A!Listed(r))) <=> r = A!Added(d)
<1>. DEFINE Equal == A!EqualToRule(A!ParseInstruction(d), A!Table(r), A!Chain(r), A!ParseLine(A!Listed(r)))
<1>1. PICK F : About(F) /\ Says(A!ParseInstruction(d), F) /\ Reads(A!Added(d), F) /\ A!Added(d) = Writes(F)
    BY DEF Deletes
<1>2. PICK G : About(G) /\ Reads(r, G) /\ r = Writes(G)
    BY DEF Adds
<1>3. Equal <=> Same(F, G)
    BY <1>1, <1>2, EqualToTheSame DEF About
<1>4. Same(F, G) => Writes(F) = Writes(G)
    BY DEF Same, Writes
<1>5. ASSUME r = A!Added(d) PROVE Equal
    <2>1. Reads(r, F)
        BY <1>1, <1>5
    <2>2. Equal <=> Same(F, F)
        BY <1>1, <2>1, EqualToTheSame DEF About
    <2>. QED BY <2>2 DEF Same
<1>. HIDE DEF Equal
<1>6. Equal <=> r = A!Added(d)
    BY <1>1, <1>2, <1>3, <1>4, <1>5
<1>. QED BY <1>6 DEF Equal

\* The number that is found in a chain of rules, 0 if the rule is not there.
FindsFirst(number, chain, rule) ==
    \/ number = 0 /\ \A k \in 1..Len(chain) : chain[k] # rule
    \/ number \in 1..Len(chain) /\ chain[number] = rule /\ \A k \in 1..(number - 1) : chain[k] # rule

(* For any names of interfaces, addresses, ports and marks, and for any chain   *)
(* of the rules of the program: what is deleted is the first rule equal to the  *)
(* one the instruction names, and nothing is deleted when there is none         *)
(* (iptables/delete.go findLineNumber).                                      *)
THEOREM FirstOfThemDeleted ==
    ASSUME NEW names, \A x \in names : x \notin Reserved,
           NEW d \in Instructions(names, TRUE), NEW chain \in Seq(RulesWith(names))
    PROVE  FindsFirst(A!FindLineNumber(d, chain), chain, A!Added(d))
<1>. DEFINE i == A!ParseInstruction(d)
            equal == {k \in 1..Len(chain) : A!EqualToRule(i, A!Table(chain[k]), A!Chain(chain[k]),
                                                          A!ParseLine(A!Listed(chain[k])))}
            number == A!FindLineNumber(d, chain)
<1>1. Deletes(d)
    BY InstructionsAre
<1>2. \A k \in 1..Len(chain) : Adds(chain[k])
    <2>. TAKE k \in 1..Len(chain)
    <2>1. chain[k] \in RulesWith(names)
        OBVIOUS
    <2>. QED BY <2>1, RulesAre
<1>3. number = IF equal = {} THEN 0 ELSE CHOOSE k \in equal : \A j \in equal : k <= j
    BY DEF A!FindLineNumber
<1>4. \A k \in 1..Len(chain) : k \in equal <=> chain[k] = A!Added(d)
    <2>. TAKE k \in 1..Len(chain)
    <2>1. A!EqualToRule(i, A!Table(chain[k]), A!Chain(chain[k]),
          A!ParseLine(A!Listed(chain[k]))) <=> chain[k] = A!Added(d)
        BY <1>1, <1>2, EqualWhenNamed
    <2>. QED BY <2>1
<1>5. equal \subseteq 1..Len(chain) /\ Len(chain) \in Nat
    OBVIOUS
<1>. HIDE DEF i, equal, number
<1>6. CASE equal = {}
    <2>1. number = 0
        BY <1>3, <1>6
    <2>2. \A k \in 1..Len(chain) : chain[k] # A!Added(d)
        BY <1>4, <1>6
    <2>. QED BY <2>1, <2>2 DEF FindsFirst, number
<1>7. CASE equal # {}
    <2>1. equal \subseteq Nat
        BY <1>5
    <2>2. \E k \in equal : \A j \in equal : k <= j
        BY <1>7, <2>1, LeastOfSome
    <2>3. number \in equal /\ \A j \in equal : number <= j
        BY <1>3, <1>7, <2>2
    <2>4. \A k \in 1..(number - 1) : k \in 1..Len(chain) /\ k \notin equal
        BY <1>5, <2>3
    <2>5. number \in 1..Len(chain) /\ chain[number] = A!Added(d)
          /\ \A k \in 1..(number - 1) : chain[k] # A!Added(d)
        BY <1>4, <1>5, <2>3, <2>4
    <2>. QED BY <2>5 DEF FindsFirst, number
<1>. QED BY <1>6, <1>7

\* The words of the instance.
SmallNames == {"eth0", "tun0", "a", "b", "1", "2", "0x1"}

\* None of them is reserved, and the instructions are of these words.
LEMMA SmallWordsAre ==
    /\ \A x \in SmallNames : x \notin Reserved
    /\ A!Deletable(TRUE) \subseteq Instructions(SmallNames, TRUE)
    /\ A!Rules \subseteq RulesWith(SmallNames)
<1>. DEFINE Intfs == SmallWords.intfs  Ips == SmallWords.ips  Ports == SmallWords.ports
<1>1. SmallWords.intfs = Intfs /\ SmallWords.ips = Ips /\ SmallWords.ports = Ports
    OBVIOUS
<1>2. Intfs \subseteq SmallNames /\ Ips \subseteq SmallNames /\ Ports \subseteq SmallNames
      /\ "0x1" \in SmallNames
    BY DEF SmallNames, SmallWords
<1>. HIDE DEF Intfs, Ips, Ports
<1>3. ASSUME NEW remove PROVE A!Deletable(remove) \subseteq Instructions(SmallNames, remove)
    <2>. DEFINE Free == SmallNames \cup {"*"}
                Pr == {"tcp", "udp"}
                Some == Intfs \cup {"*"}
                Through(I) == {A!OutputThroughInterface(i, remove) : i \in I}
                ToVPN(I, J, L) == {A!OutputTrafficToVPN(i, a, pr, po, remove) : i \in I, a \in J, pr \in Pr, po \in L}
                FromIP(I, J, L) == {A!OutputFromIPToSubnet(i, a, c, remove) : i \in I, a \in J, c \in L}
                ToPort(I, L) == {A!InputToPort(i, pr, po, remove) : i \in I, pr \in Pr, po \in L}
                Redirected(I, J, L) == {A!Redirection(i, pr, p, q, remove) : i \in I, pr \in Pr, p \in J, q \in L}
    <2>1. Some \subseteq Free
        BY <1>2
    <2>2. ASSUME NEW d \in Through(Intfs) PROVE d \in Through(SmallNames)
        BY <1>2
    <2>3. ASSUME NEW d \in ToVPN(Intfs, Ips, Ports) PROVE d \in ToVPN(SmallNames, SmallNames, SmallNames)
        BY <1>2
    <2>4. ASSUME NEW d \in FromIP(Some, Ips, Ips) PROVE d \in FromIP(Free, SmallNames, SmallNames)
        BY <1>2, <2>1
    <2>5. ASSUME NEW d \in ToPort(Some, Ports) PROVE d \in ToPort(Free, SmallNames)
        BY <1>2, <2>1
    <2>6. ASSUME NEW d \in Redirected(Some, Ports, Ports) PROVE d \in Redirected(Free, SmallNames, SmallNames)
        BY <1>2, <2>1
    <2>. DEFINE Dropped == {A!DropRST(a, p, c, q, "0x1", remove) : a \in Ips, c \in Ips, p \in Ports, q \in Ports}
                Drops == {A!DropRST(a, p, c, q, m, remove) : a \in SmallNames, p \in SmallNames, c \in SmallNames,
                                                            q \in SmallNames, m \in SmallNames}
    <2>7. ASSUME NEW d \in Dropped PROVE d \in Drops
        <3>1. PICK a \in Ips, c \in Ips, p \in Ports, q \in Ports : d = A!DropRST(a, p, c, q, "0x1", remove)
            OBVIOUS
        <3>2. \E m \in SmallNames : d = A!DropRST(a, p, c, q, m, remove)
            BY <1>2, <3>1
        <3>. QED BY <1>2, <3>2
    <2>8. A!Deletable(remove) = Through(Intfs) \cup ToVPN(Intfs, Ips, Ports) \cup FromIP(Some, Ips, Ips)
                                \cup ToPort(Some, Ports) \cup Redirected(Some, Ports, Ports) \cup Dropped
        BY DEF A!Deletable, Intfs, Ips, Ports
    <2>9. Instructions(SmallNames, remove)
          = Through(SmallNames) \cup ToVPN(SmallNames, SmallNames, SmallNames)
            \cup FromIP(Free, SmallNames, SmallNames) \cup ToPort(Free, SmallNames)
            \cup Redirected(Free, SmallNames, SmallNames) \cup Drops
        BY DEF Instructions
    <2>. HIDE DEF Through, ToVPN, FromIP, ToPort, Redirected, Dropped, Drops, Free, Some
    <2>. QED BY <2>2, <2>3, <2>4, <2>5, <2>6, <2>7, <2>8, <2>9
<1>. DEFINE appended == A!Deletable(FALSE)  some == Instructions(SmallNames, FALSE)
<1>4. appended \subseteq some
    BY Zenon, <1>3
<1>5. A!Rules = appended \cup {A!InputToSubnet(i, a) : i \in SmallWords.intfs \cup {"*"}, a \in SmallWords.ips}
    BY DEF A!Rules
<1>6. RulesWith(SmallNames) = some \cup {A!InputToSubnet(i, a) : i \in SmallNames \cup {"*"}, a \in SmallNames}
    BY DEF RulesWith
<1>. HIDE DEF appended, some
<1>7. A!Rules \subseteq RulesWith(SmallNames)
    BY <1>1, <1>2, <1>4, <1>5, <1>6
<1>8. A!Deletable(TRUE) \subseteq Instructions(SmallNames, TRUE)
    BY Zenon, <1>3
<1>. QED BY WordsAreFree, <1>7, <1>8 DEF SmallNames

\* A deletion of the instance finds the rule it names among those of the program, and no other.
LEMMA DeletionFinds ==
    ASSUME NEW d \in A!Deletable(TRUE), NEW r \in A!Rules
    PROVE  A!FindLineNumber(d, <<r>>) = 1 <=> r = A!Added(d)
<1>. DEFINE chain == <<r>>  number == A!FindLineNumber(d, chain)
<1>1. \A x \in SmallNames : x \notin Reserved
    BY SmallWordsAre
<1>2. d \in Instructions(SmallNames, TRUE) /\ r \in RulesWith(SmallNames)
    BY SmallWordsAre
<1>3. chain \in Seq(RulesWith(SmallNames)) /\ Len(chain) = 1 /\ chain[1] = r
    BY <1>2
<1>. HIDE DEF chain
<1>4. FindsFirst(number, chain, A!Added(d))
    BY <1>1, <1>2, <1>3, FirstOfThemDeleted
<1>. HIDE DEF number
<1>5. number = 1 <=> r = A!Added(d)
    BY <1>3, <1>4 DEF FindsFirst
<1>. QED BY <1>5 DEF number, chain

\* What the instance deletes is a deletion, and is understood.
LEMMA DeletionsAre ==
    ASSUME NEW d \in A!Deletable(TRUE)
    PROVE  A!IsDeleteMatch(d) /\ A!ParseInstruction(d).ok
<1>1. d \in Instructions(SmallNames, TRUE) /\ \A x \in SmallNames : x \notin Reserved
    BY SmallWordsAre
<1>2. Deletes(d)
    BY <1>1, InstructionsAre
<1>. QED BY <1>2 DEF Deletes, Says

(***************************************************************************)
(* Which iptables is used.                                                  *)
(***************************************************************************)

\* What is found when an iptables program is looked for in n paths: one that works, or none of them works.
FoundAmong(found, fails, n) ==
    /\ found.error = "none" =>
          /\ found.path \in 1..n /\ fails[found.path] = "none"
          /\ \A k \in found.tested : fails[k] # "delete"
    /\ found.error = "unsupported" =>
          found.path = 0 /\ \A k \in 1..n : fails[k] # "delete" /\ fails[k] # "none"
    /\ found.error \in {"none", "unsupported"} => found.tested \subseteq 1..n

\* The first path that is not merely unsupported is taken, and works, or none is left.
LEMMA SupportChecked ==
    ASSUME NEW n \in Nat, NEW fails \in [1..n -> A!Failures]
    PROVE  FoundAmong(A!CheckSupport(fails), fails, n)
<1>. DEFINE found == A!CheckSupport(fails)
            tests == [k \in DOMAIN fails |-> A!TestPath(fails[k])]
            settled == {k \in DOMAIN fails : tests[k].verdict # "unsupported"}
            last == IF settled = {} THEN Len(fails) ELSE CHOOSE k \in settled : \A j \in settled : k <= j
            critical == settled # {} /\ tests[last].verdict = "critical"
<1>1. DOMAIN fails = 1..n /\ Len(fails) = n
    <2>1. fails \in Seq(A!Failures)
        BY SeqDef
    <2>2. DOMAIN fails = 1..Len(fails) /\ Len(fails) \in Nat
        BY <2>1
    <2>. QED BY <2>2
<1>2. \A k \in 1..n : tests[k].verdict = CASE fails[k] \in {"delete", "unreadable"} -> "critical"
                                           [] fails[k] \in {"add", "denied", "list", "policy"} -> "unsupported"
                                           [] OTHER -> "ok"
    BY <1>1 DEF A!TestPath
<1>3. \A k \in 1..n : /\ fails[k] = "delete" => tests[k].verdict = "critical"
                      /\ tests[k].verdict = "unsupported" => fails[k] # "none"
                      /\ tests[k].verdict = "ok" => fails[k] = "none"
                      /\ tests[k].verdict \in {"ok", "critical", "unsupported"}
    <2>. TAKE k \in 1..n
    <2>1. fails[k] \in {"none", "add", "denied", "delete", "list", "unreadable", "policy"}
        BY DEF A!Failures
    <2>. HIDE DEF tests
    <2>. QED BY <1>2, <2>1
<1>4. /\ found.path = IF settled = {} \/ critical THEN 0 ELSE last
      /\ found.error = IF critical THEN "critical" ELSE IF settled # {} THEN "none"
                       ELSE IF \A k \in DOMAIN fails : tests[k].denied THEN "denied" ELSE "unsupported"
      /\ found.tested = 1..last
    BY DEF A!CheckSupport
<1>5. settled = {k \in 1..n : tests[k].verdict # "unsupported"}
    BY <1>1
<1>. HIDE DEF tests, settled, critical
<1>6. settled # {} => last \in settled /\ \A j \in settled : last <= j
    <2>1. settled # {} => \E k \in settled : \A j \in settled : k <= j
        <3>1. settled \subseteq Nat
            BY <1>5
        <3>. QED BY <3>1, LeastOfSome
    <2>. QED BY <2>1
<1>7. settled = {} => last = n
    BY <1>1
<1>. HIDE DEF last, found
<1>8. last \in 0..n
    BY <1>5, <1>6, <1>7
<1>9. CASE found.error = "none"
    <2>1. settled # {} /\ tests[last].verdict # "critical" /\ found.path = last /\ found.tested = 1..last
        BY <1>4, <1>9 DEF critical
    <2>2. last \in 1..n /\ tests[last].verdict = "ok"
        BY <1>3, <1>5, <1>6, <2>1
    <2>3. ASSUME NEW k \in 1..last PROVE fails[k] # "delete"
        <3>1. CASE k = last
            BY <1>3, <2>2, <3>1
        <3>2. CASE k < last
            <4>1. k \in 1..n /\ k \notin settled
                BY <1>6, <1>8, <2>1, <3>2
            <4>. QED BY <1>3, <1>5, <4>1
        <3>. QED BY <3>1, <3>2, <1>8
    <2>. QED BY <1>3, <1>9, <2>1, <2>2, <2>3, <1>8 DEF FoundAmong, found
<1>10. CASE found.error = "unsupported"
    <2>1. settled = {} /\ found.path = 0 /\ found.tested = 1..n
        BY <1>4, <1>7, <1>10
    <2>2. \A k \in 1..n : tests[k].verdict = "unsupported"
        BY <1>5, <2>1
    <2>. QED BY <1>3, <1>10, <2>1, <2>2 DEF FoundAmong, found
<1>11. CASE found.error \notin {"none", "unsupported"}
    BY <1>11 DEF FoundAmong, found
<1>. QED BY <1>9, <1>10, <1>11

\* Every input of the instance is an instruction or outcomes of the tests of the paths.
InputOK ==
    which = "algorithms" =>
        \/ s = A!None
        \/ \E d \in A!Deletable(TRUE) : s = [algorithm |-> "delete", words |-> d]
        \/ \E f4 \in [1..3 -> A!Failures], f6 \in [1..2 -> A!Failures] : s = [algorithm |-> "support",
              v4 |-> f4, v6 |-> f6]

\* So the inputs are treated as RulesAsNamed says.
LEMMA InputNamed ==
    ASSUME InputOK
    PROVE  RulesAsNamed
<1>. SUFFICES ASSUME which = "algorithms" PROVE A!DeletesThatRule /\ A!NoTestRuleLeft
    BY DEF RulesAsNamed
<1>1. CASE s = A!None
    BY <1>1 DEF A!None, A!DeletesThatRule, A!NoTestRuleLeft
<1>2. ASSUME NEW d \in A!Deletable(TRUE), s = [algorithm |-> "delete", words |-> d]
      PROVE  A!DeletesThatRule /\ A!NoTestRuleLeft
    <2>1. s.algorithm = "delete" /\ s.words = d
        BY <1>2
    <2>2. A!IsDeleteMatch(d) /\ A!ParseInstruction(d).ok
        BY DeletionsAre
    <2>3. \A r \in A!Rules : A!FindLineNumber(d, <<r>>) = 1 <=> r = A!Added(d)
        BY DeletionFinds
    <2>. QED BY <2>1, <2>2, <2>3 DEF A!DeletesThatRule, A!NoTestRuleLeft
<1>3. ASSUME NEW f4 \in [1..3 -> A!Failures], NEW f6 \in [1..2 -> A!Failures],
             s = [algorithm |-> "support", v4 |-> f4, v6 |-> f6]
      PROVE  A!DeletesThatRule /\ A!NoTestRuleLeft
    <2>. DEFINE v4 == A!CheckSupport(f4)  v6 == A!CheckSupport(f6)  made == A!New(f4, f6)
    <2>1. s.algorithm = "support" /\ s.v4 = f4 /\ s.v6 = f6
        BY <1>3
    <2>2. /\ made.ok = (v4.error = "none" /\ v6.error \in {"none", "unsupported"})
          /\ made.ip4 = v4.path /\ made.ip6 = v6.path /\ made.tested4 = v4.tested
          /\ v4.error = "none" => made.tested6 = v6.tested
        BY DEF A!New
    <2>. DEFINE FourOK == FoundAmong(v4, f4, 3)  SixOK == FoundAmong(v6, f6, 2)
    <2>3. FourOK /\ SixOK
        BY SupportChecked
    <2>. HIDE DEF v4, v6, made
    <2>4. /\ v4.error = "none" => v4.path \in 1..3 /\ f4[v4.path] = "none"
              /\ \A k \in v4.tested : f4[k] # "delete"
        BY <2>3 DEF FoundAmong
    <2>5. /\ v6.error = "none" => v6.path \in 1..2 /\ f6[v6.path] = "none"
              /\ \A k \in v6.tested : f6[k] # "delete"
          /\ v6.error = "unsupported" => v6.path = 0 /\ \A k \in 1..2 : f6[k] # "delete" /\ f6[k] # "none"
          /\ v6.error \in {"none", "unsupported"} => v6.tested \subseteq 1..2
        BY <2>3 DEF FoundAmong
    <2>6. made.ok => /\ \A k \in made.tested4 : f4[k] # "delete"
                     /\ \A k \in made.tested6 : f6[k] # "delete"
                     /\ f4[made.ip4] = "none"
                     /\ made.ip6 # 0 => f6[made.ip6] = "none"
                     /\ made.ip6 = 0 => \A k \in 1..2 : f6[k] # "none"
        <3>. SUFFICES ASSUME made.ok
                      PROVE  /\ \A k \in made.tested4 : f4[k] # "delete"
                             /\ \A k \in made.tested6 : f6[k] # "delete"
                             /\ f4[made.ip4] = "none"
                             /\ made.ip6 # 0 => f6[made.ip6] = "none"
                             /\ made.ip6 = 0 => \A k \in 1..2 : f6[k] # "none"
            OBVIOUS
        <3>1. v4.error = "none" /\ v6.error \in {"none", "unsupported"}
            BY <2>2
        <3>2. made.ip4 = v4.path /\ made.ip6 = v6.path /\ made.tested4 = v4.tested /\ made.tested6 = v6.tested
            BY <2>2, <3>1
        <3>3. (\A k \in made.tested4 : f4[k] # "delete") /\ f4[made.ip4] = "none"
            BY <2>4, <3>1, <3>2
        <3>4. CASE v6.error = "none"
            <4>1. v6.path \in 1..2 /\ f6[v6.path] = "none" /\ \A k \in v6.tested : f6[k] # "delete"
                BY <2>5, <3>4
            <4>2. made.ip6 # 0
                BY <3>2, <4>1
            <4>. QED BY <3>2, <3>3, <4>1, <4>2
        <3>5. CASE v6.error = "unsupported"
            <4>1. v6.path = 0 /\ (\A k \in 1..2 : f6[k] # "delete" /\ f6[k] # "none")
                  /\ v6.tested \subseteq 1..2
                BY <2>5, <3>5
            <4>. QED BY <3>2, <3>3, <4>1
        <3>. QED BY <3>1, <3>4, <3>5
    <2>. QED BY <2>1, <2>6 DEF A!DeletesThatRule, A!NoTestRuleLeft, made
<1>. QED BY <1>1, <1>2, <1>3 DEF InputOK

(* The instance of the algorithms: every deletion of iptables finds the rule it  *)
(* names and no other (iptables/parse.go, delete.go), and a firewall that is    *)
(* made leaves no test rule in any table it tried (iptables/support.go).        *)
THEOREM RulesDeleted == Spec => []RulesAsNamed
<1>1. Init => InputOK
    BY DEF Init, InputOK, A!Init
<1>2. InputOK /\ [Next]_vars => InputOK'
    <2>. SUFFICES ASSUME InputOK, [Next]_vars PROVE InputOK'
        OBVIOUS
    <2>1. CASE UNCHANGED vars
        BY <2>1 DEF InputOK, vars
    <2>2. CASE Next
        <3>1. which' = which
            BY <2>2 DEF Next
        <3>2. CASE which # "algorithms"
            BY <3>1, <3>2 DEF InputOK
        <3>3. CASE which = "algorithms"
            <4>1. A!Next
                BY <2>2, <3>3 DEF Next
            <4>. QED BY <3>1, <4>1 DEF InputOK, A!Next, A!PickDeletion, A!PickSupport
        <3>. QED BY <3>2, <3>3
    <2>. QED BY <2>1, <2>2
<1>3. InputOK => RulesAsNamed
    BY InputNamed
<1>. QED BY <1>1, <1>2, <1>3, PTL DEF Spec
===============================================================================
