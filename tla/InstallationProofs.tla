------------------------- MODULE InstallationProofs -------------------------
(***************************************************************************)
(* GuideKept and WhatIsSaidHolds of Installation, for every set of scopes, *)
(* every set of lines, any versions and any number of upsets.              *)
(*                                                                         *)
(* Neither is inductive.  A file is rewritten in two steps, so the text a  *)
(* command holds while the file is truncated must be as good as the file   *)
(* was (Guarded), and where a section begins and ends is only known if the *)
(* marks stand next to each other as the commands write them (OneSection). *)
(* What a command says at its end was made true steps earlier, so how far  *)
(* it is must say what holds already (Installing, Removing).               *)
(***************************************************************************)
EXTENDS Installation, Integers, TLAPS

Marks == ToSet(Versions)
Token == Lines \cup Marks \cup {"start", "end", "scan_note"}

\* A CLAUDE.md as the commands and the user leave it: no line twice and one start mark at most,
\* a version mark right behind the start and nowhere else, the end mark behind that or lost.
OneSection(doc) ==
    /\ \A i, j \in DOMAIN doc : doc[i] = doc[j] /\ doc[i] \in Lines \cup {"start"} => i = j
    /\ \A i \in DOMAIN doc : doc[i] = "start" => i + 1 \in DOMAIN doc /\ doc[i + 1] \in Marks
    /\ \A i \in DOMAIN doc : doc[i] \in Marks => i - 1 \in DOMAIN doc /\ doc[i - 1] = "start"
    /\ \A i \in DOMAIN doc : doc[i] = "end" => i - 2 \in DOMAIN doc /\ doc[i - 2] = "start"

----------------------------------------------------------------------------
\* Where the section of such a file begins and ends, and the version it shows.

LEMMA OneNumber ==
    ASSUME NEW n \in Nat
    PROVE  Min({n}) = n
<1>1. \E x \in {n} : \A y \in {n} : x <= y
    OBVIOUS
<1> QED
    BY <1>1 DEF Min

LEMMA StartIs ==
    ASSUME NEW doc \in Seq(Token), OneSection(doc)
    PROVE  /\ SectionStart(doc) = 0 => \A i \in DOMAIN doc : doc[i] # "start"
           /\ SectionStart(doc) # 0 =>
                  SectionStart(doc) \in DOMAIN doc /\ doc[SectionStart(doc)] = "start"
           /\ \A i \in DOMAIN doc : doc[i] = "start" => SectionStart(doc) = i
<1> DEFINE S == {i \in 1..Len(doc) : doc[i] = "start"}
<1>1. SectionStart(doc) = IF S # {} THEN Min(S) ELSE 0
    BY DEF SectionStart, SelectInSeq
<1>2. DOMAIN doc = 1..Len(doc) /\ Len(doc) \in Nat
    OBVIOUS
<1>3. CASE S = {}
    BY <1>1, <1>2, <1>3
<1>4. CASE S # {}
    <2>1. PICK i \in 1..Len(doc) : doc[i] = "start"
        BY <1>4
    <2>2. S = {i}
        BY <1>2, <2>1 DEF OneSection
    <2>3. Min(S) = i
        BY <1>2, <2>2, OneNumber
    <2>4. SectionStart(doc) = i
        BY <1>1, <1>4, <2>3
    <2>5. \A j \in DOMAIN doc : doc[j] = "start" => j = i
        BY <1>2, <2>1 DEF OneSection
    <2> QED
        BY <1>2, <2>1, <2>4, <2>5
<1> QED
    BY <1>3, <1>4

LEMMA EndIs ==
    ASSUME NEW doc \in Seq(Token), OneSection(doc), NEW st \in DOMAIN doc, doc[st] = "start"
    PROVE  /\ st + 1 \in DOMAIN doc
           /\ Contains(doc, "end") =>
                  st + 2 \in DOMAIN doc /\ doc[st + 2] = "end" /\ SectionEnd(doc) = st + 2
           /\ ~Contains(doc, "end") => SectionEnd(doc) = Len(doc)
<1> DEFINE E == {i \in (st + 1)..Len(doc) : doc[i] = "end"}
<1>1. SectionStart(doc) = st
    BY StartIs
<1>2. SectionEnd(doc) = LET e == IF E # {} THEN Min(E) ELSE 0 IN IF e = 0 THEN Len(doc) ELSE e
    BY <1>1 DEF SectionEnd, SelectInSubSeq
<1>3. DOMAIN doc = 1..Len(doc) /\ Len(doc) \in Nat /\ st \in Nat /\ st + 1 \in DOMAIN doc
    BY DEF OneSection
<1>4. \A i \in 1..Len(doc) : doc[i] = "end" => i = st + 2
    <2> SUFFICES ASSUME NEW i \in 1..Len(doc), doc[i] = "end" PROVE i = st + 2
        OBVIOUS
    <2>1. i - 2 \in DOMAIN doc /\ doc[i - 2] = "start"
        BY <1>3 DEF OneSection
    <2>2. i - 2 = st
        BY <2>1 DEF OneSection
    <2> QED
        BY <1>3, <2>2
<1>5. CASE Contains(doc, "end")
    <2>1. st + 2 \in 1..Len(doc) /\ doc[st + 2] = "end"
        BY <1>3, <1>4, <1>5 DEF Contains
    <2>2. E = {st + 2}
        BY <1>3, <1>4, <2>1
    <2>3. Min(E) = st + 2
        BY <1>3, <2>2, OneNumber
    <2> QED
        BY <1>2, <1>3, <1>5, <2>1, <2>2, <2>3
<1>6. CASE ~Contains(doc, "end")
    BY <1>2, <1>3, <1>6 DEF Contains
<1> QED
    BY <1>3, <1>5, <1>6

LEMMA VersionIs ==
    ASSUME NEW doc \in Seq(Token), OneSection(doc), NEW st \in DOMAIN doc, doc[st] = "start"
    PROVE  VersionFound(doc, Marks) = doc[st + 1]
<1> DEFINE I == {i \in 1..Len(doc) : doc[i] \in Marks}
<1>1. DOMAIN doc = 1..Len(doc) /\ Len(doc) \in Nat /\ st \in Nat
    OBVIOUS
<1>2. I = {st + 1}
    BY <1>1 DEF OneSection
<1>3. SelectInSeq(doc, LAMBDA t : t \in Marks) = st + 1
    <2>1. Min(I) = st + 1
        BY <1>1, <1>2, OneNumber
    <2> QED
        BY <1>2, <2>1 DEF SelectInSeq
<1> QED
    BY <1>1, <1>3 DEF VersionFound

----------------------------------------------------------------------------
\* What the commands make of such a file.

\* The text up to the end of what survives: all of it, unless the section has lost its end.
Kept(doc) == IF Contains(doc, "end") \/ SectionStart(doc) = 0 THEN doc
             ELSE SubSeq(doc, 1, SectionStart(doc))

LEMMA LengthIs ==
    ASSUME NEW s \in Seq(Token)
    PROVE  Len(s) \in Nat /\ DOMAIN s = 1..Len(s)
OBVIOUS

LEMMA Concat ==
    ASSUME NEW a \in Seq(Token), NEW b \in Seq(Token)
    PROVE  /\ a \o b \in Seq(Token) /\ Len(a \o b) = Len(a) + Len(b)
           /\ \A i \in 1..Len(a) : (a \o b)[i] = a[i]
           /\ \A i \in 1..Len(b) : (a \o b)[Len(a) + i] = b[i]
OBVIOUS

LEMMA Cut ==
    ASSUME NEW s \in Seq(Token), NEW m \in 1..(Len(s) + 1), NEW k \in 0..Len(s), m <= k + 1
    PROVE  /\ SubSeq(s, m, k) \in Seq(Token) /\ Len(SubSeq(s, m, k)) = k - m + 1
           /\ \A i \in 1..(k - m + 1) : SubSeq(s, m, k)[i] = s[m + i - 1]
OBVIOUS

LEMMA Three ==
    ASSUME NEW T, NEW x \in T, NEW y \in T, NEW z \in T
    PROVE  /\ << x, y, z >> \in Seq(T) /\ Len(<< x, y, z >>) = 3
           /\ << x, y, z >>[1] = x /\ << x, y, z >>[2] = y /\ << x, y, z >>[3] = z
OBVIOUS

LEMMA BlockIs ==
    ASSUME version \in Marks
    PROVE  /\ Block \in Seq(Token) /\ Len(Block) = 3
           /\ Block[1] = "start" /\ Block[2] = version /\ Block[3] = "end"
<1>1. "start" \in Token /\ version \in Token /\ "end" \in Token
    BY DEF Token
<1> QED
    BY <1>1, Three DEF Block

\* Tokens of different kinds differ.
LEMMA Kinds ==
    /\ "start" \notin Marks \cup Lines /\ "end" \notin Marks \cup Lines /\ "scan_note" \notin Marks \cup Lines
    /\ \A t \in Lines : t \notin Marks
BY InstallationAssumption DEF Marks

\* The user's lines of a are in b, in the same order, if each is found there at a place of its own
\* and the places are in the same order.
LEMMA LinesWithin ==
    ASSUME NEW a, NEW b, NEW place,
           \A i \in DOMAIN a : a[i] \in Lines => place[i] \in DOMAIN b /\ b[place[i]] = a[i],
           \A i, j \in DOMAIN a : a[i] \in Lines /\ a[j] \in Lines /\ i <= j => place[i] <= place[j]
    PROVE  UserLines(a) \subseteq UserLines(b)
<1> SUFFICES ASSUME NEW p \in UserLines(a) PROVE p \in UserLines(b)
    OBVIOUS
<1>1. p \in Lines \X Lines
    BY DEF UserLines
<1>2. PICK i \in DOMAIN a, j \in DOMAIN a : i <= j /\ a[i] = p[1] /\ a[j] = p[2]
    BY DEF UserLines
<1>3. p[1] \in Lines /\ p[2] \in Lines
    BY <1>1
<1>4. /\ place[i] \in DOMAIN b /\ b[place[i]] = p[1]
      /\ place[j] \in DOMAIN b /\ b[place[j]] = p[2]
      /\ place[i] <= place[j]
    BY <1>2, <1>3
<1> QED
    BY <1>1, <1>4 DEF UserLines

LEMMA SamePlaces ==
    ASSUME NEW a \in Seq(Token), NEW b,
           \A i \in DOMAIN a : a[i] \in Lines => i \in DOMAIN b /\ b[i] = a[i]
    PROVE  UserLines(a) \subseteq UserLines(b)
<1> DEFINE place == [i \in DOMAIN a |-> i]
<1>1. \A i \in DOMAIN a : place[i] = i
    OBVIOUS
<1> HIDE DEF place
<1> QED
    BY <1>1, LinesWithin

\* A text with a section at st, whose end may be lost, none of it elsewhere and no line twice.
LEMMA SectionShape ==
    ASSUME NEW new \in Seq(Token), NEW st \in DOMAIN new, st + 1 \in DOMAIN new,
           new[st] = "start", new[st + 1] \in Marks,
           \A i \in DOMAIN new : (new[i] = "start" => i = st) /\ (new[i] \in Marks => i = st + 1)
                                 /\ (new[i] = "end" => i = st + 2),
           \A i, j \in DOMAIN new : new[i] = new[j] /\ new[i] \in Lines => i = j
    PROVE  OneSection(new)
<1>1. st \in Nat /\ DOMAIN new = 1..Len(new) /\ Len(new) \in Nat
    OBVIOUS
<1>2. \A i, j \in DOMAIN new : new[i] = new[j] /\ new[i] \in Lines \cup {"start"} => i = j
    OBVIOUS
<1>3. \A i \in DOMAIN new : new[i] = "start" => i + 1 \in DOMAIN new /\ new[i + 1] \in Marks
    OBVIOUS
<1>4. \A i \in DOMAIN new : new[i] \in Marks => i - 1 \in DOMAIN new /\ new[i - 1] = "start"
    <2> SUFFICES ASSUME NEW i \in DOMAIN new, new[i] \in Marks
                 PROVE  i - 1 \in DOMAIN new /\ new[i - 1] = "start"
        OBVIOUS
    <2>1. i = st + 1 /\ i - 1 = st
        BY <1>1
    <2> QED
        BY <2>1
<1>5. \A i \in DOMAIN new : new[i] = "end" => i - 2 \in DOMAIN new /\ new[i - 2] = "start"
    <2> SUFFICES ASSUME NEW i \in DOMAIN new, new[i] = "end"
                 PROVE  i - 2 \in DOMAIN new /\ new[i - 2] = "start"
        OBVIOUS
    <2>1. i = st + 2 /\ i - 2 = st
        BY <1>1
    <2> QED
        BY <2>1
<1> QED
    BY <1>2, <1>3, <1>4, <1>5 DEF OneSection

LEMMA SectionAt ==
    ASSUME NEW new \in Seq(Token), NEW st \in DOMAIN new, st + 2 \in DOMAIN new,
           new[st] = "start", new[st + 1] \in Marks, new[st + 2] = "end",
           \A i \in DOMAIN new \ {st, st + 1, st + 2} :
               new[i] # "start" /\ new[i] # "end" /\ new[i] \notin Marks,
           \A i, j \in DOMAIN new : new[i] = new[j] /\ new[i] \in Lines => i = j
    PROVE  OneSection(new) /\ VersionFound(new, Marks) = new[st + 1] /\ Contains(new, "end")
<1>1. st \in Nat /\ st + 1 \in DOMAIN new /\ DOMAIN new = 1..Len(new) /\ Len(new) \in Nat
    OBVIOUS
<1>2. \A i \in DOMAIN new : (new[i] = "start" => i = st) /\ (new[i] \in Marks => i = st + 1)
                            /\ (new[i] = "end" => i = st + 2)
    BY <1>1, Kinds
<1>3. OneSection(new)
    BY <1>1, <1>2, SectionShape
<1>4. VersionFound(new, Marks) = new[st + 1]
    BY <1>3, VersionIs
<1>5. Contains(new, "end")
    BY <1>1 DEF Contains
<1> QED
    BY <1>3, <1>4, <1>5

\* A text without a section and with no line twice.
LEMMA PlainText ==
    ASSUME NEW new \in Seq(Token),
           \A i \in DOMAIN new : new[i] # "start" /\ new[i] # "end" /\ new[i] \notin Marks,
           \A i, j \in DOMAIN new : new[i] = new[j] /\ new[i] \in Lines => i = j
    PROVE  OneSection(new)
BY DEF OneSection

\* Where the marks of a file are.
LEMMA MarksAre ==
    ASSUME NEW doc \in Seq(Token), OneSection(doc)
    PROVE  /\ SectionStart(doc) = 0 =>
                  \A i \in DOMAIN doc : doc[i] # "start" /\ doc[i] # "end" /\ doc[i] \notin Marks
           /\ \A st \in DOMAIN doc : doc[st] = "start" =>
                  \A i \in DOMAIN doc : /\ doc[i] = "start" => i = st
                                        /\ doc[i] \in Marks => i = st + 1
                                        /\ doc[i] = "end" => i = st + 2
<1>1. DOMAIN doc = 1..Len(doc) /\ Len(doc) \in Nat
    OBVIOUS
<1>2. ASSUME SectionStart(doc) = 0, NEW i \in DOMAIN doc
      PROVE  doc[i] # "start" /\ doc[i] # "end" /\ doc[i] \notin Marks
    BY <1>1, <1>2, StartIs DEF OneSection
<1>3. ASSUME NEW st \in DOMAIN doc, doc[st] = "start", NEW i \in DOMAIN doc
      PROVE  /\ doc[i] = "start" => i = st
             /\ doc[i] \in Marks => i = st + 1
             /\ doc[i] = "end" => i = st + 2
    <2>1. \A j \in DOMAIN doc : doc[j] = "start" => j = st
        BY <1>3 DEF OneSection
    <2>2. doc[i] \in Marks => i - 1 = st
        BY <2>1 DEF OneSection
    <2>3. doc[i] = "end" => i - 2 = st
        BY <2>1 DEF OneSection
    <2> QED
        BY <1>1, <2>1, <2>2, <2>3
<1> QED
    BY <1>2, <1>3

----------------------------------------------------------------------------
LEMMA WithSectionIs ==
    ASSUME NEW doc \in Seq(Token), OneSection(doc), version \in Marks
    PROVE  /\ WithSection(doc) \in Seq(Token)
           /\ OneSection(WithSection(doc))
           /\ VersionFound(WithSection(doc), Marks) = version
           /\ Contains(WithSection(doc), "end")
           /\ UserLines(WithSection(doc)) = UserLines(Kept(doc))
<1> DEFINE new == WithSection(doc)
           n == Len(doc)
<1>1. n \in Nat /\ DOMAIN doc = 1..n
    OBVIOUS
<1>2. /\ Block \in Seq(Token) /\ Len(Block) = 3
      /\ Block[1] = "start" /\ Block[2] = version /\ Block[3] = "end"
    BY BlockIs
<1>3. \A i, j \in 1..n : doc[i] = doc[j] /\ doc[i] \in Lines => i = j
    BY <1>1 DEF OneSection
<1>4. CASE SectionStart(doc) = 0
    <2>1. new = doc \o Block /\ Kept(doc) = doc
        BY <1>4 DEF WithSection, Kept
    <2>2. /\ doc \o Block \in Seq(Token) /\ Len(doc \o Block) = Len(doc) + Len(Block)
          /\ \A i \in 1..Len(doc) : (doc \o Block)[i] = doc[i]
          /\ \A i \in 1..Len(Block) : (doc \o Block)[Len(doc) + i] = Block[i]
        BY <1>2, Concat
    <2> HIDE DEF new
    <2>3. /\ new \in Seq(Token) /\ Len(new) = n + 3
          /\ \A i \in 1..n : new[i] = doc[i]
          /\ \A i \in 1..3 : new[n + i] = Block[i]
        BY <1>2, <2>1, <2>2
    <2>4. DOMAIN new = 1..(n + 3) /\ new[n + 1] = "start" /\ new[n + 2] = version /\ new[n + 3] = "end"
        BY <1>1, <1>2, <2>3
    <2>5. \A i \in 1..n : doc[i] # "start" /\ doc[i] # "end" /\ doc[i] \notin Marks
        BY <1>1, <1>4, MarksAre
    <2>6. \A i \in DOMAIN new \ {n + 1, n + 2, n + 3} : i \in 1..n
        BY <1>1, <2>4
    <2>7. \A i \in DOMAIN new : new[i] \in Lines => i \in 1..n /\ doc[i] = new[i]
        BY <2>3, <2>4, <2>6, Kinds
    <2>8. OneSection(new) /\ VersionFound(new, Marks) = version /\ Contains(new, "end")
        <3>1. n + 1 \in DOMAIN new /\ n + 1 + 2 = n + 3 /\ n + 1 + 1 = n + 2 /\ n + 3 \in DOMAIN new
            BY <1>1, <2>4
        <3>2. \A i, j \in DOMAIN new : new[i] = new[j] /\ new[i] \in Lines => i = j
            BY <1>3, <2>7
        <3>3. \A i \in DOMAIN new \ {n + 1, n + 2, n + 3} :
                  new[i] # "start" /\ new[i] # "end" /\ new[i] \notin Marks
            BY <2>3, <2>5, <2>6
        <3>4. new[n + 1] = "start" /\ new[n + 1 + 1] \in Marks /\ new[n + 1 + 2] = "end"
              /\ new[n + 1 + 1] = version
            BY <2>4, <3>1
        <3>5. \A i \in DOMAIN new \ {n + 1, n + 1 + 1, n + 1 + 2} :
                  new[i] # "start" /\ new[i] # "end" /\ new[i] \notin Marks
            BY <3>1, <3>3
        <3>6. n + 1 + 2 \in DOMAIN new
            BY <3>1
        <3> HIDE DEF n
        <3> QED
            BY <2>3, <3>1, <3>2, <3>4, <3>5, <3>6, SectionAt
    <2>9. UserLines(new) = UserLines(doc)
        <3>1. UserLines(new) \subseteq UserLines(doc)
            BY <1>1, <2>3, <2>7, SamePlaces
        <3>2. UserLines(doc) \subseteq UserLines(new)
            BY <1>1, <2>3, <2>4, SamePlaces
        <3> QED
            BY <3>1, <3>2
    <2> QED
        BY <2>1, <2>3, <2>8, <2>9 DEF new
<1>5. CASE SectionStart(doc) # 0
    <2>1. PICK st \in 1..n : st = SectionStart(doc) /\ doc[st] = "start"
        BY <1>1, <1>5, StartIs
    <2> DEFINE before == SubSeq(doc, 1, st - 1)
               behind == SubSeq(doc, SectionEnd(doc) + 1, n)
    <2>2. new = before \o Block \o behind
        BY <1>5, <2>1 DEF WithSection
    <2>3. \A i \in 1..n : /\ doc[i] = "start" => i = st
                          /\ doc[i] \in Marks => i = st + 1
                          /\ doc[i] = "end" => i = st + 2
        BY <1>1, <2>1, MarksAre
    <2>4. /\ before \in Seq(Token) /\ Len(before) = st - 1
          /\ \A i \in 1..(st - 1) : before[i] = doc[i]
        <3>1. 1 \in 1..(n + 1) /\ st - 1 \in 0..n /\ 1 <= st - 1 + 1
            BY <1>1
        <3>2. /\ before \in Seq(Token) /\ Len(before) = st - 1 - 1 + 1
              /\ \A i \in 1..(st - 1 - 1 + 1) : before[i] = doc[1 + i - 1]
            BY <3>1, Cut
        <3>3. st - 1 - 1 + 1 = st - 1 /\ \A i \in 1..(st - 1) : 1 + i - 1 = i
            BY <1>1
        <3> QED
            BY <3>2, <3>3
    <2> HIDE DEF before, behind
    <2>5. /\ before \o Block \in Seq(Token) /\ Len(before \o Block) = st + 2
          /\ \A i \in 1..(st - 1) : (before \o Block)[i] = doc[i]
          /\ (before \o Block)[st] = "start" /\ (before \o Block)[st + 1] = version
          /\ (before \o Block)[st + 2] = "end"
        <3>1. /\ before \o Block \in Seq(Token) /\ Len(before \o Block) = Len(before) + Len(Block)
              /\ \A i \in 1..Len(before) : (before \o Block)[i] = before[i]
              /\ \A i \in 1..Len(Block) : (before \o Block)[Len(before) + i] = Block[i]
            BY <1>2, <2>4, Concat
        <3>2. /\ before \o Block \in Seq(Token) /\ Len(before \o Block) = st - 1 + 3
              /\ \A i \in 1..(st - 1) : (before \o Block)[i] = before[i]
              /\ \A i \in 1..3 : (before \o Block)[st - 1 + i] = Block[i]
            BY <1>2, <2>4, <3>1
        <3>3. st - 1 + 3 = st + 2 /\ st - 1 + 1 = st /\ st - 1 + 2 = st + 1 /\ 1 \in 1..3 /\ 2 \in 1..3 /\ 3 \in 1..3
            BY <1>1
        <3> QED
            BY <1>2, <2>4, <3>2, <3>3
    <2>6. CASE Contains(doc, "end")
        <3>1. st + 2 \in 1..n /\ SectionEnd(doc) = st + 2 /\ Kept(doc) = doc
            BY <1>1, <2>1, <2>6, EndIs DEF Kept
        <3>2. /\ behind \in Seq(Token) /\ Len(behind) = n - (st + 2)
              /\ \A i \in 1..(n - (st + 2)) : behind[i] = doc[st + 2 + i]
            <4>1. st + 3 \in 1..(n + 1) /\ n \in 0..n /\ st + 3 <= n + 1 /\ st + 2 + 1 = st + 3
                BY <1>1, <3>1
            <4>2. /\ behind \in Seq(Token) /\ Len(behind) = n - (st + 3) + 1
                  /\ \A i \in 1..(n - (st + 3) + 1) : behind[i] = doc[st + 3 + i - 1]
                BY <3>1, <4>1, Cut DEF behind
            <4>3. n - (st + 3) + 1 = n - (st + 2) /\ \A i \in 1..n : st + 3 + i - 1 = st + 2 + i
                BY <1>1
            <4>4. \A i \in 1..(n - (st + 2)) : i \in 1..n
                BY <1>1
            <4> QED
                BY <4>2, <4>3, <4>4
        <3>3. /\ new \in Seq(Token) /\ Len(new) = n
              /\ \A i \in 1..(st + 2) : new[i] = (before \o Block)[i]
              /\ \A i \in 1..(n - (st + 2)) : new[st + 2 + i] = behind[i]
            <4> DEFINE first == before \o Block
            <4>1. st + 2 + (n - (st + 2)) = n
                BY <1>1
            <4>2. first \in Seq(Token) /\ Len(first) = st + 2 /\ new = first \o behind
                BY <2>2, <2>5
            <4> HIDE DEF first, new
            <4>3. /\ first \o behind \in Seq(Token) /\ Len(first \o behind) = Len(first) + Len(behind)
                  /\ \A i \in 1..Len(first) : (first \o behind)[i] = first[i]
                  /\ \A i \in 1..Len(behind) : (first \o behind)[Len(first) + i] = behind[i]
                BY <3>2, <4>2, Concat
            <4> QED
                BY <3>2, <4>1, <4>2, <4>3 DEF first
        <3> HIDE DEF new
        <3>4. ASSUME NEW i \in 1..(st - 1) PROVE new[i] = doc[i]
            <4>1. i \in 1..(st + 2)
                BY <1>1
            <4> QED
                BY <2>5, <3>3, <4>1
        <3>5. DOMAIN new = 1..n /\ new[st] = "start" /\ new[st + 1] = version /\ new[st + 2] = "end"
            <4>1. st \in 1..(st + 2) /\ st + 1 \in 1..(st + 2) /\ st + 2 \in 1..(st + 2)
                BY <1>1
            <4>2. DOMAIN new = 1..n
                BY <1>1, <3>3
            <4> QED
                BY <2>5, <3>3, <4>1, <4>2
        <3>6. ASSUME NEW i \in (1..n) \ {st, st + 1, st + 2} PROVE new[i] = doc[i]
            <4>1. CASE i < st
                BY <1>1, <3>4, <4>1
            <4>2. CASE i > st + 2
                <5>1. i - (st + 2) \in 1..(n - (st + 2)) /\ st + 2 + (i - (st + 2)) = i
                    BY <1>1, <4>2
                <5>2. PICK k \in 1..(n - (st + 2)) : st + 2 + k = i
                    BY <5>1
                <5> QED
                    BY <3>2, <3>3, <5>2
            <4> QED
                BY <1>1, <4>1, <4>2
        <3>7. \A i \in {st, st + 1, st + 2} : doc[i] \notin Lines /\ new[i] \notin Lines
            <4>1. doc[st + 1] \in Marks /\ doc[st + 2] = "end"
                BY <1>1, <2>1, <2>6, EndIs DEF OneSection
            <4> QED
                BY <2>1, <3>5, <4>1, Kinds
        <3>8. OneSection(new) /\ VersionFound(new, Marks) = version /\ Contains(new, "end")
            <4>1. \A i, j \in DOMAIN new : new[i] = new[j] /\ new[i] \in Lines => i = j
                BY <1>3, <3>5, <3>6, <3>7
            <4>2. \A i \in DOMAIN new \ {st, st + 1, st + 2} :
                      new[i] # "start" /\ new[i] # "end" /\ new[i] \notin Marks
                BY <2>3, <3>5, <3>6
            <4> QED
                BY <3>1, <3>3, <3>5, <4>1, <4>2, SectionAt
        <3>9. UserLines(new) = UserLines(doc)
            <4>1. UserLines(new) \subseteq UserLines(doc)
                BY <1>1, <3>3, <3>5, <3>6, <3>7, SamePlaces
            <4>2. UserLines(doc) \subseteq UserLines(new)
                BY <1>1, <3>5, <3>6, <3>7, SamePlaces
            <4> QED
                BY <4>1, <4>2
        <3> QED
            BY <3>1, <3>3, <3>8, <3>9 DEF new
    <2>7. CASE ~Contains(doc, "end")
        <3>1. SectionEnd(doc) = n /\ Kept(doc) = SubSeq(doc, 1, st)
            BY <1>1, <1>5, <2>1, <2>7, EndIs DEF Kept
        <3>2. behind = << >> /\ new = before \o Block
            <4>1. behind = << >>
                BY <1>1, <3>1 DEF behind
            <4> QED
                BY <2>2, <2>5, <4>1
        <3> HIDE DEF new
        <3>3. /\ new \in Seq(Token) /\ DOMAIN new = 1..(st + 2)
              /\ new[st] = "start" /\ new[st + 1] = version /\ new[st + 2] = "end"
              /\ \A i \in 1..(st - 1) : new[i] = doc[i]
            BY <1>1, <2>5, <3>2
        <3>4. \A i \in DOMAIN new \ {st, st + 1, st + 2} : i \in 1..(st - 1) /\ i \in 1..n
            BY <1>1, <3>3
        <3>5. \A i \in DOMAIN new : new[i] \in Lines => i \in 1..(st - 1) /\ i \in 1..n /\ doc[i] = new[i]
            BY <3>3, <3>4, Kinds
        <3>6. OneSection(new) /\ VersionFound(new, Marks) = version /\ Contains(new, "end")
            <4>1. \A i, j \in DOMAIN new : new[i] = new[j] /\ new[i] \in Lines => i = j
                BY <1>3, <3>5
            <4>2. \A i \in DOMAIN new \ {st, st + 1, st + 2} :
                      new[i] # "start" /\ new[i] # "end" /\ new[i] \notin Marks
                BY <1>1, <2>3, <3>3, <3>4
            <4>3. st \in DOMAIN new /\ st + 2 \in DOMAIN new
                BY <1>1, <3>3
            <4> QED
                BY <3>3, <4>1, <4>2, <4>3, SectionAt
        <3>7. /\ Kept(doc) \in Seq(Token) /\ DOMAIN Kept(doc) = 1..st
              /\ \A i \in 1..st : Kept(doc)[i] = doc[i]
            <4>1. 1 \in 1..(n + 1) /\ st \in 0..n /\ 1 <= st + 1 /\ st - 1 + 1 = st /\ \A i \in 1..st : 1 + i - 1 = i
                BY <1>1
            <4>2. /\ Kept(doc) \in Seq(Token) /\ Len(Kept(doc)) = st - 1 + 1
                  /\ \A i \in 1..(st - 1 + 1) : Kept(doc)[i] = doc[1 + i - 1]
                BY <3>1, <4>1, Cut
            <4> QED
                BY <4>1, <4>2
        <3>8. UserLines(new) = UserLines(Kept(doc))
            <4>1. \A i \in DOMAIN new : new[i] \in Lines => i \in DOMAIN Kept(doc) /\ Kept(doc)[i] = new[i]
                BY <1>1, <3>5, <3>7
            <4>2. \A i \in DOMAIN Kept(doc) : Kept(doc)[i] \in Lines => i \in DOMAIN new /\ new[i] = Kept(doc)[i]
                <5> SUFFICES ASSUME NEW i \in 1..st, doc[i] \in Lines PROVE i \in DOMAIN new /\ new[i] = doc[i]
                    BY <3>7
                <5>1. i # st
                    BY <2>1, Kinds
                <5>2. i \in 1..(st - 1) /\ i \in 1..(st + 2)
                    BY <1>1, <5>1
                <5> QED
                    BY <3>3, <5>2
            <4>3. UserLines(new) \subseteq UserLines(Kept(doc)) /\ UserLines(Kept(doc)) \subseteq UserLines(new)
                BY <3>3, <3>7, <4>1, <4>2, SamePlaces
            <4> QED
                BY <4>3
        <3> QED
            BY <3>3, <3>6, <3>8 DEF new
    <2> QED
        BY <2>6, <2>7
<1> QED
    BY <1>4, <1>5

LEMMA Before ==
    ASSUME NEW doc \in Seq(Token), NEW k \in 0..Len(doc)
    PROVE  /\ SubSeq(doc, 1, k) \in Seq(Token) /\ Len(SubSeq(doc, 1, k)) = k
           /\ \A i \in 1..k : SubSeq(doc, 1, k)[i] = doc[i]
<1>1. 1 \in 1..(Len(doc) + 1) /\ 1 <= k + 1 /\ k - 1 + 1 = k /\ \A i \in 1..k : 1 + i - 1 = i
    OBVIOUS
<1>2. /\ SubSeq(doc, 1, k) \in Seq(Token) /\ Len(SubSeq(doc, 1, k)) = k - 1 + 1
      /\ \A i \in 1..(k - 1 + 1) : SubSeq(doc, 1, k)[i] = doc[1 + i - 1]
    BY <1>1, Cut
<1> QED
    BY <1>1, <1>2

LEMMA Behind ==
    ASSUME NEW doc \in Seq(Token), NEW k \in 0..Len(doc)
    PROVE  /\ SubSeq(doc, k + 1, Len(doc)) \in Seq(Token)
           /\ Len(SubSeq(doc, k + 1, Len(doc))) = Len(doc) - k
           /\ \A i \in 1..(Len(doc) - k) : SubSeq(doc, k + 1, Len(doc))[i] = doc[k + i]
<1>1. /\ k + 1 \in 1..(Len(doc) + 1) /\ Len(doc) \in 0..Len(doc) /\ k + 1 <= Len(doc) + 1
      /\ Len(doc) - (k + 1) + 1 = Len(doc) - k /\ \A i \in 1..(Len(doc) - k) : k + 1 + i - 1 = k + i
    OBVIOUS
<1>2. /\ SubSeq(doc, k + 1, Len(doc)) \in Seq(Token)
      /\ Len(SubSeq(doc, k + 1, Len(doc))) = Len(doc) - (k + 1) + 1
      /\ \A i \in 1..(Len(doc) - (k + 1) + 1) : SubSeq(doc, k + 1, Len(doc))[i] = doc[k + 1 + i - 1]
    BY <1>1, Cut
<1> QED
    BY <1>1, <1>2

\* A file without the places from x to y.
Without(doc, x, y) == SubSeq(doc, 1, x - 1) \o SubSeq(doc, y + 1, Len(doc))

NoLineTwice(doc) == \A i, j \in DOMAIN doc : doc[i] = doc[j] /\ doc[i] \in Lines => i = j
NoLineIn(doc, places) == \A i \in places : doc[i] \notin Lines

\* If the places hold no line of the user, the lines stay as they were.
LEMMA TakenOut ==
    ASSUME NEW doc \in Seq(Token), NEW x \in 1..Len(doc), NEW y \in x..Len(doc),
           NoLineIn(doc, x..y), NoLineTwice(doc)
    PROVE  /\ Without(doc, x, y) \in Seq(Token)
           /\ \A i \in DOMAIN Without(doc, x, y) :
                 /\ i < x => i \in DOMAIN doc /\ Without(doc, x, y)[i] = doc[i]
                 /\ i >= x => /\ i + (y - x + 1) \in DOMAIN doc
                             /\ Without(doc, x, y)[i] = doc[i + (y - x + 1)]
           /\ \A i \in 1..(x - 1) : i \in DOMAIN Without(doc, x, y) /\ Without(doc, x, y)[i] = doc[i]
           /\ NoLineTwice(Without(doc, x, y))
           /\ UserLines(Without(doc, x, y)) = UserLines(doc)
<1> DEFINE new == Without(doc, x, y)
<1> DEFINE before == SubSeq(doc, 1, x - 1)
           behind == SubSeq(doc, y + 1, Len(doc))
<1>1. PICK n \in Nat, gap \in Nat :
          /\ n = Len(doc) /\ gap = y - x + 1 /\ DOMAIN doc = 1..n
          /\ x \in Nat /\ y \in Nat /\ 1 <= x /\ x <= y /\ y <= n
    BY LengthIs
<1>2. before \in Seq(Token) /\ Len(before) = x - 1 /\ \A i \in 1..(x - 1) : before[i] = doc[i]
    <2>1. x - 1 \in 0..Len(doc)
        BY <1>1
    <2> QED
        BY <2>1, Before
<1>3. behind \in Seq(Token) /\ Len(behind) = n - y /\ \A i \in 1..(n - y) : behind[i] = doc[y + i]
    <2>1. y \in 0..Len(doc)
        BY <1>1
    <2> QED
        BY <1>1, <2>1, Behind
<1> HIDE DEF before, behind
<1>4. /\ before \o behind \in Seq(Token) /\ Len(before \o behind) = Len(before) + Len(behind)
      /\ \A i \in 1..Len(before) : (before \o behind)[i] = before[i]
      /\ \A i \in 1..Len(behind) : (before \o behind)[Len(before) + i] = behind[i]
    BY <1>2, <1>3, Concat
<1>5. new = before \o behind
    BY DEF before, behind, Without
<1> HIDE DEF new
<1>6. /\ new \in Seq(Token) /\ DOMAIN new = 1..(n - gap)
      /\ \A i \in 1..(x - 1) : new[i] = doc[i]
      /\ \A i \in 1..(n - y) : new[x - 1 + i] = doc[y + i]
    <2>1. new \in Seq(Token) /\ Len(new) = x - 1 + (n - y)
        BY <1>2, <1>3, <1>4, <1>5
    <2>2. x - 1 + (n - y) = n - gap
        BY <1>1
    <2>3. DOMAIN new = 1..(n - gap)
        BY <2>1, <2>2, LengthIs
    <2>4. \A i \in 1..(x - 1) : new[i] = doc[i]
        BY <1>2, <1>4, <1>5
    <2>5. \A i \in 1..(n - y) : new[x - 1 + i] = doc[y + i]
        BY <1>2, <1>3, <1>4, <1>5
    <2> QED
        BY <2>1, <2>3, <2>4, <2>5
<1>7. ASSUME NEW i \in DOMAIN new PROVE i \in Nat /\ 1 <= i /\ i <= n - gap
    BY <1>1, <1>6
<1>8. ASSUME NEW i \in DOMAIN new, i < x PROVE i \in DOMAIN doc /\ new[i] = doc[i]
    <2>1. i \in 1..(x - 1) /\ i \in 1..n
        BY <1>1, <1>7, <1>8
    <2> QED
        BY <1>1, <1>6, <2>1
<1>9. ASSUME NEW i \in DOMAIN new, i >= x PROVE i + gap \in DOMAIN doc /\ new[i] = doc[i + gap]
    <2>1. PICK k \in 1..(n - y) : x - 1 + k = i /\ y + k = i + gap
        <3>1. i - (x - 1) \in 1..(n - y) /\ x - 1 + (i - (x - 1)) = i /\ y + (i - (x - 1)) = i + gap
            BY <1>1, <1>7, <1>9
        <3> QED
            BY <3>1
    <2>2. i + gap \in 1..n
        BY <1>1, <1>7
    <2> QED
        BY <1>1, <1>6, <2>1, <2>2
<1>10. ASSUME NEW i \in 1..(x - 1) PROVE i \in DOMAIN new /\ new[i] = doc[i]
    <2>1. i \in 1..(n - gap)
        BY <1>1
    <2> QED
        BY <1>6, <2>1
<1> DEFINE from == [i \in DOMAIN new |-> IF i < x THEN i ELSE i + gap]
<1>11. \A i \in DOMAIN new : from[i] = IF i < x THEN i ELSE i + gap
    OBVIOUS
<1> DEFINE to == [i \in DOMAIN doc |-> IF i < x THEN i ELSE i - gap]
<1>12. \A i \in DOMAIN doc : to[i] = IF i < x THEN i ELSE i - gap
    OBVIOUS
<1> HIDE DEF from, to
<1>13. \A i \in DOMAIN new : from[i] \in DOMAIN doc /\ doc[from[i]] = new[i]
    <2> SUFFICES ASSUME NEW i \in DOMAIN new PROVE from[i] \in DOMAIN doc /\ doc[from[i]] = new[i]
        OBVIOUS
    <2>1. CASE i < x
        BY <1>8, <1>11, <2>1
    <2>2. CASE ~(i < x)
        <3>1. i >= x
            BY <1>1, <1>7, <2>2
        <3> QED
            BY <1>9, <1>11, <2>2, <3>1
    <2> QED
        BY <2>1, <2>2
<1>14. \A i, j \in DOMAIN new : (i <= j => from[i] <= from[j]) /\ (from[i] = from[j] => i = j)
    <2> SUFFICES ASSUME NEW i \in DOMAIN new, NEW j \in DOMAIN new
                 PROVE  (i <= j => from[i] <= from[j]) /\ (from[i] = from[j] => i = j)
        OBVIOUS
    <2>1. i \in Nat /\ j \in Nat
        BY <1>7
    <2>2. from[i] = (IF i < x THEN i ELSE i + gap) /\ from[j] = (IF j < x THEN j ELSE j + gap)
        BY <1>11
    <2> QED
        BY <1>1, <2>1, <2>2
<1>15. ASSUME NEW i \in DOMAIN doc, doc[i] \in Lines
       PROVE  /\ i \in Nat /\ (i < x \/ i > y)
              /\ to[i] \in DOMAIN new /\ new[to[i]] = doc[i]
    <2>1. i \in Nat /\ 1 <= i /\ i <= n
        BY <1>1
    <2>2. i \notin x..y
        BY <1>15 DEF NoLineIn
    <2>3. i < x \/ i > y
        BY <1>1, <2>1, <2>2
    <2>4. CASE i < x
        <3>1. i \in 1..(x - 1) /\ to[i] = i
            BY <1>1, <1>12, <2>1, <2>4
        <3> QED
            BY <1>10, <2>1, <2>3, <3>1
    <2>5. CASE i > y
        <3>1. PICK k \in Nat : k = i - gap /\ k + gap = i /\ k >= x /\ 1 <= k /\ k <= n - gap
            BY <1>1, <2>1, <2>5
        <3>2. to[i] = k /\ k \in DOMAIN new
            BY <1>1, <1>6, <1>12, <2>1, <2>5, <3>1
        <3> QED
            BY <1>9, <2>1, <2>3, <3>1, <3>2
    <2> QED
        BY <2>3, <2>4, <2>5
<1>16. \A i, j \in DOMAIN doc : doc[i] \in Lines /\ doc[j] \in Lines /\ i <= j => to[i] <= to[j]
    <2> SUFFICES ASSUME NEW i \in DOMAIN doc, NEW j \in DOMAIN doc, doc[i] \in Lines, doc[j] \in Lines, i <= j
                 PROVE  to[i] <= to[j]
        OBVIOUS
    <2>1. i \in Nat /\ j \in Nat /\ (i < x \/ i > y) /\ (j < x \/ j > y)
        BY <1>15
    <2>2. to[i] = (IF i < x THEN i ELSE i - gap) /\ to[j] = (IF j < x THEN j ELSE j - gap)
        BY <1>12
    <2> QED
        BY <1>1, <2>1, <2>2
<1>17. UserLines(new) = UserLines(doc)
    <2>1. UserLines(new) \subseteq UserLines(doc)
        BY <1>13, <1>14, LinesWithin
    <2>2. UserLines(doc) \subseteq UserLines(new)
        <3>1. \A i \in DOMAIN doc : doc[i] \in Lines => to[i] \in DOMAIN new /\ new[to[i]] = doc[i]
            BY <1>15
        <3> QED
            BY <1>16, <3>1, LinesWithin
    <2> QED
        BY <2>1, <2>2
<1>18. NoLineTwice(new)
    <2> SUFFICES ASSUME NEW i \in DOMAIN new, NEW j \in DOMAIN new, new[i] = new[j], new[i] \in Lines
                 PROVE  i = j
        BY DEF NoLineTwice
    <2>1. from[i] = from[j]
        BY <1>13 DEF NoLineTwice
    <2> QED
        BY <1>14, <2>1
<1> QED
    BY <1>1, <1>6, <1>8, <1>9, <1>10, <1>17, <1>18 DEF new

LEMMA WithoutSectionIs ==
    ASSUME NEW doc \in Seq(Token), OneSection(doc), SectionStart(doc) # 0
    PROVE  /\ WithoutSection(doc) \in Seq(Token)
           /\ OneSection(WithoutSection(doc))
           /\ UserLines(WithoutSection(doc)) = UserLines(Kept(doc))
<1> DEFINE new == WithoutSection(doc)
           n == Len(doc)
<1>1. n \in Nat /\ DOMAIN doc = 1..n
    OBVIOUS
<1>2. PICK st \in 1..n : st = SectionStart(doc) /\ doc[st] = "start"
    BY <1>1, StartIs
<1>3. new = SubSeq(doc, 1, st - 1) \o SubSeq(doc, SectionEnd(doc) + 1, n)
    BY <1>2 DEF WithoutSection
<1>4. \A i \in 1..n : /\ doc[i] = "start" => i = st
                      /\ doc[i] \in Marks => i = st + 1
                      /\ doc[i] = "end" => i = st + 2
    BY <1>1, <1>2, MarksAre
<1>5. NoLineTwice(doc)
    BY DEF OneSection, NoLineTwice
<1> HIDE DEF new
<1>6. CASE Contains(doc, "end")
    <2>1. /\ st + 2 \in st..n /\ SectionEnd(doc) = st + 2 /\ Kept(doc) = doc
          /\ doc[st + 1] \in Marks /\ doc[st + 2] = "end"
        <3>1. st + 2 \in DOMAIN doc /\ doc[st + 2] = "end" /\ SectionEnd(doc) = st + 2
            BY <1>1, <1>2, <1>6, EndIs
        <3>2. doc[st + 1] \in Marks
            BY <1>1, <1>2 DEF OneSection
        <3>3. st + 2 \in st..n
            BY <1>1, <3>1
        <3> QED
            BY <1>6, <3>1, <3>2, <3>3 DEF Kept
    <2>2. NoLineIn(doc, st..(st + 2))
        <3>1. \A i \in st..(st + 2) : i = st \/ i = st + 1 \/ i = st + 2
            BY <1>1
        <3> QED
            BY <1>2, <2>1, <3>1, Kinds DEF NoLineIn
    <2>3. /\ new \in Seq(Token)
          /\ \A i \in DOMAIN new :
                /\ i < st => i \in DOMAIN doc /\ new[i] = doc[i]
                /\ i >= st => i + (st + 2 - st + 1) \in DOMAIN doc /\ new[i] = doc[i + (st + 2 - st + 1)]
          /\ \A i, j \in DOMAIN new : new[i] = new[j] /\ new[i] \in Lines => i = j
          /\ UserLines(new) = UserLines(doc)
        <3>1. new = Without(doc, st, st + 2)
            BY <1>3, <2>1 DEF Without
        <3> QED
            BY <1>5, <2>1, <2>2, <3>1, TakenOut DEF NoLineTwice
    <2>4. \A i \in DOMAIN new : new[i] # "start" /\ new[i] # "end" /\ new[i] \notin Marks
        <3> SUFFICES ASSUME NEW i \in DOMAIN new PROVE new[i] # "start" /\ new[i] # "end" /\ new[i] \notin Marks
            OBVIOUS
        <3>1. i \in Nat
            BY <2>3
        <3>2. CASE i < st
            BY <1>1, <1>4, <2>3, <3>1, <3>2
        <3>3. CASE i >= st
            <4>1. PICK k \in DOMAIN doc : k = i + 3 /\ new[i] = doc[k]
                BY <1>1, <2>3, <3>1, <3>3
            <4> QED
                BY <1>1, <1>4, <3>1, <3>3, <4>1
        <3> QED
            BY <1>1, <3>1, <3>2, <3>3
    <2> QED
        BY <2>1, <2>3, <2>4, PlainText DEF new
<1>7. CASE ~Contains(doc, "end")
    <2> DEFINE before == SubSeq(doc, 1, st - 1)
    <2>1. SectionEnd(doc) = n /\ Kept(doc) = SubSeq(doc, 1, st)
        BY <1>1, <1>2, <1>7, EndIs DEF Kept
    <2>2. before \in Seq(Token) /\ Len(before) = st - 1 /\ \A i \in 1..(st - 1) : before[i] = doc[i]
        <3>1. st - 1 \in 0..n
            BY <1>1
        <3> QED
            BY <3>1, Before
    <2>3. Kept(doc) \in Seq(Token) /\ Len(Kept(doc)) = st /\ \A i \in 1..st : Kept(doc)[i] = doc[i]
        <3>1. st \in 0..n
            BY <1>1
        <3> QED
            BY <2>1, <3>1, Before
    <2> HIDE DEF before
    <2>4. new = before
        <3>1. SubSeq(doc, SectionEnd(doc) + 1, n) = << >>
            BY <1>1, <2>1
        <3>2. new = before \o << >>
            BY <1>3, <3>1 DEF before
        <3>3. before \o << >> = before
            BY <2>2
        <3> QED
            BY <3>2, <3>3
    <2>5. new \in Seq(Token) /\ DOMAIN new = 1..(st - 1) /\ \A i \in DOMAIN new : i \in 1..n /\ new[i] = doc[i]
        BY <1>1, <2>2, <2>4
    <2>6. OneSection(new)
        <3>1. \A i \in DOMAIN new : new[i] # "start" /\ new[i] # "end" /\ new[i] \notin Marks
            BY <1>1, <1>4, <2>5
        <3>2. \A i, j \in DOMAIN new : new[i] = new[j] /\ new[i] \in Lines => i = j
            BY <1>1, <1>5, <2>5 DEF NoLineTwice
        <3> QED
            BY <2>5, <3>1, <3>2, PlainText
    <2>7. UserLines(new) = UserLines(Kept(doc))
        <3>1. \A i \in DOMAIN new : i \in DOMAIN Kept(doc) /\ Kept(doc)[i] = new[i]
            BY <1>1, <2>3, <2>5
        <3>2. \A i \in DOMAIN Kept(doc) : Kept(doc)[i] \in Lines => i \in DOMAIN new /\ new[i] = Kept(doc)[i]
            <4> SUFFICES ASSUME NEW i \in 1..st, doc[i] \in Lines PROVE i \in DOMAIN new /\ new[i] = doc[i]
                BY <2>3
            <4>1. i # st
                BY <1>2, Kinds
            <4>2. i \in 1..(st - 1)
                BY <1>1, <4>1
            <4> QED
                BY <2>5, <4>2
        <3>3. UserLines(new) \subseteq UserLines(Kept(doc))
            BY <2>5, <3>1, SamePlaces
        <3>4. UserLines(Kept(doc)) \subseteq UserLines(new)
            BY <2>3, <3>2, SamePlaces
        <3> QED
            BY <3>3, <3>4
    <2> QED
        BY <2>5, <2>6, <2>7 DEF new
<1> QED
    BY <1>6, <1>7

LEMMA EndLost ==
    ASSUME NEW doc \in Seq(Token), OneSection(doc), NEW e \in DOMAIN doc, doc[e] = "end"
    PROVE  /\ RemoveAt(doc, e) \in Seq(Token)
           /\ OneSection(RemoveAt(doc, e))
           /\ UserLines(RemoveAt(doc, e)) = UserLines(doc)
<1> DEFINE new == RemoveAt(doc, e)
<1>1. Len(doc) \in Nat /\ DOMAIN doc = 1..Len(doc) /\ e \in Nat
    OBVIOUS
<1>2. PICK st \in DOMAIN doc : st + 2 = e /\ doc[st] = "start"
    BY <1>1 DEF OneSection
<1>3. new = Without(doc, e, e)
    BY DEF RemoveAt, Without
<1>4. \A i \in DOMAIN doc : /\ doc[i] = "start" => i = st
                            /\ doc[i] \in Marks => i = st + 1
                            /\ doc[i] = "end" => i = st + 2
    BY <1>2, MarksAre
<1>5. NoLineTwice(doc) /\ NoLineIn(doc, e..e)
    <2>1. \A i \in e..e : i = e
        BY <1>1
    <2> QED
        BY <2>1, Kinds DEF OneSection, NoLineTwice, NoLineIn
<1>6. st + 1 \in DOMAIN doc /\ doc[st + 1] \in Marks
    BY <1>2 DEF OneSection
<1> HIDE DEF new
<1>7. e \in 1..Len(doc) /\ e \in e..Len(doc) /\ e - e + 1 = 1
    BY <1>1
<1>8. /\ new \in Seq(Token)
      /\ \A i \in DOMAIN new : /\ i < e => i \in DOMAIN doc /\ new[i] = doc[i]
                               /\ i >= e => i + (e - e + 1) \in DOMAIN doc /\ new[i] = doc[i + (e - e + 1)]
      /\ \A i \in 1..(e - 1) : i \in DOMAIN new /\ new[i] = doc[i]
      /\ \A i, j \in DOMAIN new : new[i] = new[j] /\ new[i] \in Lines => i = j
      /\ UserLines(new) = UserLines(doc)
    BY <1>3, <1>5, <1>7, TakenOut DEF NoLineTwice
<1>9. \A i \in DOMAIN new : /\ new[i] = "start" => i = st
                            /\ new[i] \in Marks => i = st + 1
                            /\ new[i] = "end" => i = st + 2
    <2> SUFFICES ASSUME NEW i \in DOMAIN new
                 PROVE  /\ new[i] = "start" => i = st
                        /\ new[i] \in Marks => i = st + 1
                        /\ new[i] = "end" => i = st + 2
        OBVIOUS
    <2>1. i \in Nat
        BY <1>8
    <2>2. CASE i < e
        BY <1>4, <1>8, <2>2
    <2>3. CASE i >= e
        <3>1. PICK k \in DOMAIN doc : k = i + 1 /\ new[i] = doc[k]
            BY <1>7, <1>8, <2>3
        <3> QED
            BY <1>1, <1>2, <1>4, <2>1, <2>3, <3>1
    <2> QED
        BY <1>1, <2>1, <2>2, <2>3
<1>10. /\ st \in DOMAIN new /\ new[st] = "start"
       /\ st + 1 \in DOMAIN new /\ new[st + 1] \in Marks
    <2>1. st \in 1..(e - 1) /\ st + 1 \in 1..(e - 1)
        BY <1>1, <1>2
    <2> QED
        BY <1>2, <1>6, <1>8, <2>1
<1>11. OneSection(new)
    BY <1>8, <1>9, <1>10, SectionShape
<1> QED
    BY <1>8, <1>11 DEF new

\* A line of the user, or the note of a scan, at the end of the file.
LEMMA Appended ==
    ASSUME NEW doc \in Seq(Token), OneSection(doc), NEW t \in Lines \cup {"scan_note"},
           t \in Lines => ~Contains(doc, t)
    PROVE  /\ Append(doc, t) \in Seq(Token)
           /\ OneSection(Append(doc, t))
           /\ t = "scan_note" => UserLines(Append(doc, t)) = UserLines(doc)
           /\ t \in Lines =>
                  UserLines(Append(doc, t)) =
                      UserLines(doc) \cup ({p[1] : p \in UserLines(doc)} \cup {t}) \X {t}
<1> DEFINE new == Append(doc, t)
           n == Len(doc)
<1>1. n \in Nat /\ DOMAIN doc = 1..n
    OBVIOUS
<1>2. t \in Token /\ t # "start" /\ t # "end" /\ t \notin Marks /\ (t = "scan_note" => t \notin Lines)
    BY InstallationAssumption, Kinds DEF Token
<1>3. /\ new \in Seq(Token) /\ DOMAIN new = 1..(n + 1)
      /\ \A i \in 1..n : new[i] = doc[i]
      /\ new[n + 1] = t
    BY <1>1, <1>2
<1> HIDE DEF new
<1>4. \A i \in 1..(n + 1) : i = n + 1 \/ i \in 1..n
    BY <1>1
<1>5. \A i, j \in DOMAIN new : new[i] = new[j] /\ new[i] \in Lines => i = j
    BY <1>1, <1>3, <1>4 DEF OneSection, Contains
<1>6. OneSection(new)
    <2>1. CASE SectionStart(doc) = 0
        <3>1. \A i \in DOMAIN new : new[i] # "start" /\ new[i] # "end" /\ new[i] \notin Marks
            BY <1>1, <1>2, <1>3, <1>4, <2>1, MarksAre
        <3> QED
            BY <1>3, <1>5, <3>1, PlainText
    <2>2. CASE SectionStart(doc) # 0
        <3>1. PICK st \in 1..n : doc[st] = "start"
            BY <1>1, <2>2, StartIs
        <3>2. st + 1 \in 1..n /\ doc[st + 1] \in Marks
            BY <1>1, <3>1 DEF OneSection
        <3>3. \A i \in 1..n : /\ doc[i] = "start" => i = st
                              /\ doc[i] \in Marks => i = st + 1
                              /\ doc[i] = "end" => i = st + 2
            BY <1>1, <3>1, MarksAre
        <3>4. \A i \in DOMAIN new : /\ new[i] = "start" => i = st
                                    /\ new[i] \in Marks => i = st + 1
                                    /\ new[i] = "end" => i = st + 2
            BY <1>2, <1>3, <1>4, <3>3
        <3>5. /\ st \in DOMAIN new /\ new[st] = "start"
              /\ st + 1 \in DOMAIN new /\ new[st + 1] \in Marks
            BY <1>1, <1>3, <3>1, <3>2
        <3> QED
            BY <1>3, <1>5, <3>4, <3>5, SectionShape
    <2> QED
        BY <2>1, <2>2
<1>7. UserLines(doc) \subseteq UserLines(new)
    BY <1>1, <1>3, SamePlaces
<1>8. ASSUME t = "scan_note" PROVE UserLines(new) = UserLines(doc)
    <2>1. \A i \in DOMAIN new : new[i] \in Lines => i \in DOMAIN doc /\ doc[i] = new[i]
        BY <1>1, <1>2, <1>3, <1>4, <1>8
    <2>2. UserLines(new) \subseteq UserLines(doc)
        BY <1>3, <2>1, SamePlaces
    <2> QED
        BY <1>7, <2>2
<1>9. ASSUME t \in Lines
      PROVE  UserLines(new) = UserLines(doc) \cup ({p[1] : p \in UserLines(doc)} \cup {t}) \X {t}
    <2> DEFINE earlier == {p[1] : p \in UserLines(doc)}
    <2>1. \A i \in 1..n : doc[i] \in Lines => doc[i] \in earlier
        <3> SUFFICES ASSUME NEW i \in 1..n, doc[i] \in Lines PROVE doc[i] \in earlier
            OBVIOUS
        <3>1. << doc[i], doc[i] >> \in UserLines(doc)
            BY <1>1 DEF UserLines
        <3>2. << doc[i], doc[i] >>[1] = doc[i]
            OBVIOUS
        <3> QED
            BY <3>1, <3>2
    <2>2. \A x \in earlier : x \in Lines /\ \E i \in 1..n : doc[i] = x
        <3> SUFFICES ASSUME NEW p \in UserLines(doc) PROVE p[1] \in Lines /\ \E i \in 1..n : doc[i] = p[1]
            OBVIOUS
        <3> QED
            BY <1>1 DEF UserLines
    <2> HIDE DEF earlier
    <2>3. ASSUME NEW p \in UserLines(new) PROVE p \in UserLines(doc) \cup (earlier \cup {t}) \X {t}
        <3>1. p \in Lines \X Lines
            BY DEF UserLines
        <3>2. PICK i \in DOMAIN new, j \in DOMAIN new : i <= j /\ new[i] = p[1] /\ new[j] = p[2]
            BY DEF UserLines
        <3>3. CASE j = n + 1
            <4>1. p[2] = t
                BY <1>3, <3>2, <3>3
            <4>2. p[1] \in earlier \cup {t}
                BY <1>3, <1>4, <2>1, <3>1, <3>2
            <4>3. p = << p[1], p[2] >>
                BY <3>1
            <4> QED
                BY <4>1, <4>2, <4>3
        <3>4. CASE j \in 1..n
            <4>1. i \in 1..n
                BY <1>1, <1>3, <3>2, <3>4
            <4>2. doc[i] = p[1] /\ doc[j] = p[2]
                BY <1>3, <3>2, <3>4, <4>1
            <4> QED
                BY <1>1, <3>1, <3>2, <3>4, <4>1, <4>2 DEF UserLines
        <3> QED
            BY <1>3, <1>4, <3>2, <3>3, <3>4
    <2>4. ASSUME NEW x \in earlier \cup {t} PROVE << x, t >> \in UserLines(new)
        <3>1. x \in Lines /\ \E i \in 1..(n + 1) : new[i] = x /\ i <= n + 1
            BY <1>1, <1>3, <1>9, <2>2, <2>4
        <3>2. PICK i \in DOMAIN new : new[i] = x /\ i <= n + 1
            BY <1>3, <3>1
        <3>3. n + 1 \in DOMAIN new
            BY <1>1, <1>3
        <3> QED
            BY <1>3, <1>9, <3>1, <3>2, <3>3 DEF UserLines
    <2>5. UserLines(new) = UserLines(doc) \cup (earlier \cup {t}) \X {t}
        BY <1>7, <2>3, <2>4
    <2> QED
        BY <2>5 DEF earlier
<1> QED
    BY <1>3, <1>6, <1>8, <1>9 DEF new

----------------------------------------------------------------------------
\* The inductive invariant.

Commanded == {"install", "setup", "uninstall", "scan", "install_service", "uninstall_service"}
Steps == {"add", "config", "guide", "write", "hooks", "merge", "remove", "legacy", "scrub", "scan", "note",
          "write_note", "wiki", "plist", "bootstrap", "bootout", "unlink"}
Claims == Scopes \cup {"hooks", "service", "no_service", "clean"}
Ops == [cmd : Commanded, scope : Scopes, at : Steps, text : Seq(Token), claims : SUBSET Claims]

TypeInv ==
    /\ servers \in [Scopes -> Interpreters \cup {None}]
    /\ guide \in [Files -> Seq(Token)]
    /\ settings \in [text : {"json", "torn"}, legacy : BOOLEAN, hooks : [Hooks -> SUBSET {"ours", "users"}]]
    /\ interp \in Interpreters
    /\ version \in Marks
    /\ op \in Ops \cup {Idle}
    /\ said \in SUBSET Claims
    /\ mine \in [Files -> SUBSET (Lines \X Lines)]

\* The file a command has truncated and not yet filled again.
Writing(f) == op # Idle /\ ((op.at = "write" /\ FileOf(op.scope) = f) \/ (op.at = "write_note" /\ f = "cwd"))

\* What is in the file, or is about to be written into it.
Guarded(f) ==
    IF Writing(f) THEN guide[f] = << >> /\ OneSection(op.text) /\ UserLines(op.text) = mine[f]
    ELSE OneSection(guide[f]) /\ UserLines(guide[f]) = mine[f]

Current(doc) == VersionFound(doc, Marks) = version /\ Contains(doc, "end")

\* What a command may claim.
Holds(claims) ==
    /\ \A s \in claims \cap Scopes : servers[s] = interp /\ Current(guide[FileOf(s)])
    /\ "hooks" \in claims => settings.text = "json" /\ \A e \in Hooks : settings.hooks[e] # {}
    /\ "service" \in claims => job = interp /\ plist = interp
    /\ "no_service" \in claims => job = None /\ plist = None

\* How far an installation is: what it will claim in the end is true already.
Installing ==
    /\ op.claims \subseteq {op.scope, "hooks"} /\ Holds(op.claims)
    /\ op.at \notin {"wiki", "plist", "bootstrap"} => op.claims = {}
    /\ op.at \in {"config", "guide", "write", "hooks", "merge"} => servers[op.scope] = interp
    /\ op.at = "write" => Current(op.text)
    /\ op.at \in {"hooks", "merge"} => Current(guide[FileOf(op.scope)])
    /\ op.at = "bootstrap" => plist = interp

Removing == op.claims \subseteq {"no_service"} /\ ("no_service" \in op.claims => job = None)

Truthful ==
    /\ Holds(said)
    /\ op # Idle => said = {}
    /\ op # Idle /\ op.cmd \in {"install", "setup", "install_service"} => Installing
    /\ op # Idle /\ op.cmd = "uninstall_service" => Removing

Inv == TypeInv /\ (\A f \in Files : Guarded(f)) /\ Truthful

LEMMA Different ==
    /\ None \notin Interpreters /\ Scopes \subseteq {"user", "project", "local"} /\ "user" \in Scopes
    /\ Scopes \cap {"hooks", "service", "no_service", "clean"} = {}
    /\ \A s \in Scopes : FileOf(s) \in Files
BY InstallationAssumption DEF None, Interpreters, FileOf, Files

LEMMA Going ==
    ASSUME op \in Ops \cup {Idle}, op # Idle \/ op.cmd # "idle"
    PROVE  op \in Ops /\ op # Idle
BY DEF Ops, Idle, Commanded

LEMMA NoLines == UserLines(<< >>) = {} /\ OneSection(<< >>) /\ << >> \in Seq(Token)
BY DEF UserLines, OneSection

LEMMA HoldsNothing == Holds({}) /\ Holds({"clean"})
BY Different DEF Holds

LEMMA InitInv == Init => Inv
<1> SUFFICES ASSUME Init PROVE Inv
    OBVIOUS
<1>1. TypeInv
    <2>1. version \in Marks
        BY InstallationAssumption DEF Init, Marks, ToSet
    <2>2. guide \in [Files -> Seq(Token)]
        BY NoLines DEF Init
    <2>3. settings \in [text : {"json", "torn"}, legacy : BOOLEAN, hooks : [Hooks -> SUBSET {"ours", "users"}]]
        BY DEF Init
    <2> QED
        BY <2>1, <2>2, <2>3 DEF Init, TypeInv, Interpreters
<1>2. ASSUME NEW f \in Files PROVE Guarded(f)
    BY NoLines DEF Init, Guarded, Writing
<1>3. Truthful
    BY HoldsNothing DEF Init, Truthful
<1> QED
    BY <1>1, <1>2, <1>3 DEF Inv

\* A step that leaves the files alone and is not in the middle of writing one.
LEMMA FilesAlone ==
    ASSUME Inv, UNCHANGED << guide, mine >>,
           op = Idle \/ op.at \notin {"write", "write_note"},
           op' = Idle \/ op'.at \notin {"write", "write_note"}
    PROVE  \A f \in Files : Guarded(f)'
<1> SUFFICES ASSUME NEW f \in Files PROVE Guarded(f)'
    OBVIOUS
<1>1. ~Writing(f) /\ ~Writing(f)'
    BY DEF Writing
<1>2. Guarded(f)
    BY DEF Inv
<1> QED
    BY <1>1, <1>2 DEF Guarded

\* Steps of a command.
LEMMA GotoMeans ==
    ASSUME op \in Ops, NEW step \in Steps, Goto(step)
    PROVE  /\ op' \in Ops /\ op' # Idle /\ op'.cmd = op.cmd /\ op'.scope = op.scope /\ op'.at = step
           /\ op'.text = op.text /\ op'.claims = op.claims /\ said' = said
BY DEF Ops, Goto, Idle, Commanded

LEMMA LeaveMeans ==
    ASSUME op \in Ops, NEW step \in Steps, NEW claims \in SUBSET Claims, Leave(claims, step)
    PROVE  \/ /\ op.cmd = "setup" /\ op' \in Ops /\ op' # Idle /\ op'.cmd = op.cmd /\ op'.scope = op.scope
              /\ op'.at = step /\ op'.claims = op.claims \cup claims /\ said' = said
           \/ op.cmd # "setup" /\ op' = Idle /\ said' = claims
BY DEF Ops, Leave, Done, Idle, Commanded

LEMMA StartMeans ==
    ASSUME NEW cmd \in Commanded, NEW s \in Scopes, NEW step \in Steps, Start(cmd, s, step)
    PROVE  /\ op = Idle /\ op' \in Ops /\ op' # Idle /\ op'.cmd = cmd /\ op'.scope = s /\ op'.at = step
           /\ op'.claims = {} /\ said' = {}
<1>1. << >> \in Seq(Token)
    BY NoLines
<1> QED
    BY <1>1 DEF Ops, Start, Idle, Commanded

\* A command that ends without a claim.
LEMMA EndedSilently ==
    ASSUME op' = Idle, said' = {}
    PROVE  Truthful'
<1>1. Holds(said)'
    BY HoldsNothing DEF Holds
<1> QED
    BY <1>1 DEF Truthful

\* A command that goes on.
LEMMA Continues ==
    ASSUME op' # Idle, said' = {},
           op'.cmd \in {"install", "setup", "install_service"} => Installing',
           op'.cmd = "uninstall_service" => Removing'
    PROVE  Truthful'
<1>1. Holds(said)'
    BY HoldsNothing DEF Holds
<1> QED
    BY <1>1 DEF Truthful

LEMMA Running ==
    ASSUME Inv, op # Idle
    PROVE  /\ op \in Ops /\ op.cmd \in Commanded /\ op.scope \in Scopes /\ op.claims \in SUBSET Claims /\ said = {}
           /\ op.cmd \in {"install", "setup", "install_service"} => Installing
           /\ op.cmd = "uninstall_service" => Removing
           /\ TypeInv /\ FileOf(op.scope) \in Files
BY Different DEF Inv, TypeInv, Truthful, Ops

\* A step that leaves alone what an installation claims.
LEMMA StillInstalling ==
    ASSUME Installing, op.scope \in Scopes, op'.claims = op.claims, op'.scope = op.scope,
           op'.at \notin {"wiki", "plist", "bootstrap"} => op.claims = {},
           UNCHANGED << servers, guide, settings, interp, version >>,
           op'.at \in {"config", "guide", "write", "hooks", "merge"} => servers[op.scope] = interp,
           op'.at \notin {"write", "hooks", "merge"},
           op'.at = "bootstrap" => plist' = interp
    PROVE  Installing'
<1>1. Holds(op.claims) /\ op.claims \subseteq {op.scope, "hooks"}
    BY DEF Installing
<1>2. "service" \notin op.claims /\ "no_service" \notin op.claims
    BY <1>1, Different
<1>3. Holds(op.claims)'
    BY <1>1, <1>2 DEF Holds, Current
<1> QED
    BY <1>1, <1>3 DEF Installing

----------------------------------------------------------------------------
\* The steps of a command.

LEMMA AddServerKeeps ==
    ASSUME Inv, op # Idle, AddServer
    PROVE  Inv'
<1>1. /\ op \in Ops /\ op.cmd \in {"install", "setup"} /\ op.scope \in Scopes /\ said = {} /\ op.at = "add"
      /\ op.claims = {} /\ TypeInv /\ Installing
    BY Running DEF AddServer, Installing
<1>2. UNCHANGED << guide, config, project, timeline, settings, plist, job, cli, claude, interp, version, mine >>
    BY DEF AddServer, service, host
<1>3. PICK outcome \in {"ok", "error", "timeout"} :
          CASE outcome = "ok" -> /\ servers' = [servers EXCEPT ![op.scope] = interp]
                                 /\ Goto("config") /\ UNCHANGED upsets
            [] outcome = "error" -> Leave({}, "wiki") /\ UNCHANGED << servers, upsets >>
            [] outcome = "timeout" -> /\ servers' \in {servers, [servers EXCEPT ![op.scope] = interp]}
                                      /\ Done({}) /\ Upset
    BY DEF AddServer, AddOutcomes
<1>4. CASE outcome = "ok"
    <2>1. servers' = [servers EXCEPT ![op.scope] = interp] /\ Goto("config")
        BY <1>3, <1>4
    <2>2. /\ op' \in Ops /\ op' # Idle /\ op'.cmd = op.cmd /\ op'.scope = op.scope /\ op'.at = "config"
          /\ op'.claims = op.claims /\ said' = said
        BY <1>1, <2>1, GotoMeans DEF Steps
    <2>3. TypeInv'
        BY <1>1, <1>2, <2>1, <2>2 DEF TypeInv
    <2>4. servers'[op.scope] = interp
        BY <1>1, <2>1 DEF TypeInv
    <2>5. Installing'
        BY <1>1, <1>2, <2>2, <2>4, HoldsNothing DEF Installing, Holds
    <2>6. Truthful'
        BY <1>1, <2>2, <2>5, Continues
    <2>7. \A f \in Files : Guarded(f)'
        BY <1>1, <1>2, <2>2, FilesAlone
    <2> QED
        BY <2>3, <2>6, <2>7 DEF Inv
<1>5. CASE outcome = "error"
    <2>1. Leave({}, "wiki") /\ UNCHANGED servers
        BY <1>3, <1>5
    <2>2. \/ /\ op' \in Ops /\ op' # Idle /\ op'.cmd = op.cmd /\ op'.scope = op.scope /\ op'.at = "wiki"
             /\ op'.claims = op.claims /\ said' = said
          \/ op' = Idle /\ said' = {}
        BY <1>1, <2>1, LeaveMeans DEF Steps
    <2>3. TypeInv'
        BY <1>1, <1>2, <2>1, <2>2 DEF TypeInv
    <2>4. \A f \in Files : Guarded(f)'
        BY <1>1, <1>2, <2>2, FilesAlone
    <2>5. Truthful'
        <3>1. ASSUME op' # Idle PROVE Installing'
            BY <1>1, <1>2, <2>1, <2>2, <3>1, StillInstalling
        <3> QED
            BY <1>1, <2>2, <3>1, Continues, EndedSilently
    <2> QED
        BY <2>3, <2>4, <2>5 DEF Inv
<1>6. CASE outcome = "timeout"
    <2>1. servers' \in {servers, [servers EXCEPT ![op.scope] = interp]} /\ op' = Idle /\ said' = {}
        BY <1>3, <1>6 DEF Done
    <2>2. TypeInv'
        BY <1>1, <1>2, <2>1 DEF TypeInv
    <2>3. \A f \in Files : Guarded(f)'
        BY <1>1, <1>2, <2>1, FilesAlone
    <2> QED
        BY <2>1, <2>2, <2>3, EndedSilently DEF Inv
<1> QED
    BY <1>3, <1>4, <1>5, <1>6

LEMMA BootstrapConfigKeeps ==
    ASSUME Inv, op # Idle, BootstrapConfig
    PROVE  Inv'
<1>1. /\ op \in Ops /\ op.cmd \in {"install", "setup"} /\ op.scope \in Scopes /\ said = {} /\ op.at = "config"
      /\ op.claims = {} /\ TypeInv /\ Installing
    BY Running DEF BootstrapConfig, Installing
<1>2. UNCHANGED << servers, guide, settings, interp, version, mine >> /\ Goto("guide")
    BY DEF BootstrapConfig, service, host
<1>3. /\ op' \in Ops /\ op' # Idle /\ op'.cmd = op.cmd /\ op'.scope = op.scope /\ op'.at = "guide"
      /\ op'.claims = op.claims /\ said' = said
    BY <1>1, <1>2, GotoMeans DEF Steps
<1>4. TypeInv'
    BY <1>1, <1>2, <1>3 DEF TypeInv
<1>5. \A f \in Files : Guarded(f)'
    BY <1>1, <1>2, <1>3, FilesAlone
<1>6. Installing'
    <2>1. servers[op.scope] = interp
        BY <1>1 DEF Installing
    <2> QED
        BY <1>1, <1>2, <1>3, <2>1, StillInstalling
<1>7. Truthful'
    BY <1>1, <1>3, <1>6, Continues
<1> QED
    BY <1>4, <1>5, <1>7 DEF Inv

LEMMA LinesOf == ASSUME NEW doc PROVE UserLines(doc) \in SUBSET (Lines \X Lines)
BY DEF UserLines

LEMMA OpenGuideKeeps ==
    ASSUME Inv, op # Idle, OpenGuide
    PROVE  Inv'
<1> DEFINE f == FileOf(op.scope)
           new == IF op.cmd = "uninstall" THEN WithoutSection(guide[f]) ELSE WithSection(guide[f])
<1>1. /\ op \in Ops /\ op.cmd \in {"install", "setup", "uninstall"} /\ op.scope \in Scopes /\ said = {} /\ op.at = "guide"
      /\ TypeInv /\ f \in Files
      /\ op.cmd # "uninstall" => op.claims = {} /\ Installing
    BY Running DEF OpenGuide, Installing
<1>2. UNCHANGED << servers, settings, interp, version >>
    BY DEF OpenGuide, service, host
<1>3. CASE op.cmd = "uninstall" /\ SectionStart(guide[f]) = 0
    <2>1. Goto("legacy") /\ UNCHANGED << guide, mine >>
        BY <1>3 DEF OpenGuide
    <2>2. /\ op' \in Ops /\ op' # Idle /\ op'.cmd = op.cmd /\ op'.at = "legacy" /\ said' = said
        BY <1>1, <2>1, GotoMeans DEF Steps
    <2>3. TypeInv'
        BY <1>1, <1>2, <2>1, <2>2 DEF TypeInv
    <2>4. \A g \in Files : Guarded(g)'
        BY <1>1, <2>1, <2>2, FilesAlone
    <2>5. Truthful'
        BY <1>1, <1>3, <2>2, Continues
    <2> QED
        BY <2>3, <2>4, <2>5 DEF Inv
<1>4. CASE ~(op.cmd = "uninstall" /\ SectionStart(guide[f]) = 0)
    <2>1. /\ guide' = [guide EXCEPT ![f] = << >>]
          /\ mine' = [mine EXCEPT ![f] = UserLines(Kept(guide[f]))]
          /\ op' = [op EXCEPT !.at = "write", !.text = new] /\ said' = said
        BY <1>4 DEF OpenGuide, Kept
    <2>2. guide[f] \in Seq(Token) /\ OneSection(guide[f]) /\ version \in Marks
        <3>1. ~Writing(f)
            BY <1>1 DEF Writing
        <3>2. Guarded(f)
            BY <1>1 DEF Inv
        <3> QED
            BY <1>1, <3>1, <3>2 DEF Guarded, TypeInv
    <2>3. /\ new \in Seq(Token) /\ OneSection(new) /\ UserLines(new) = UserLines(Kept(guide[f]))
          /\ op.cmd # "uninstall" => VersionFound(new, Marks) = version /\ Contains(new, "end")
        <3>1. CASE op.cmd = "uninstall"
            <4>1. new = WithoutSection(guide[f])
                BY <3>1
            <4> HIDE DEF new, f
            <4> QED
                BY <1>4, <2>2, <3>1, <4>1, WithoutSectionIs
        <3>2. CASE op.cmd # "uninstall"
            <4>1. new = WithSection(guide[f])
                BY <3>2
            <4> HIDE DEF new, f
            <4> QED
                BY <2>2, <3>2, <4>1, WithSectionIs
        <3> QED
            BY <3>1, <3>2
    <2> HIDE DEF new
    <2>4. /\ op' \in Ops /\ op' # Idle /\ op'.cmd = op.cmd /\ op'.scope = op.scope /\ op'.at = "write"
          /\ op'.text = new /\ op'.claims = op.claims
        BY <1>1, <2>1, <2>3 DEF Ops, Steps, Idle
    <2>5. TypeInv'
        <3>1. guide' \in [Files -> Seq(Token)]
            BY <1>1, <2>1, NoLines DEF TypeInv
        <3>2. mine' \in [Files -> SUBSET (Lines \X Lines)]
            BY <1>1, <2>1, LinesOf DEF TypeInv
        <3> QED
            BY <1>1, <1>2, <2>1, <2>4, <3>1, <3>2 DEF TypeInv
    <2>6. ASSUME NEW g \in Files PROVE Guarded(g)'
        <3>1. CASE g = f
            <4>1. Writing(g)'
                BY <2>4, <3>1 DEF Writing
            <4>2. guide'[g] = << >> /\ mine'[g] = UserLines(Kept(guide[f]))
                BY <1>1, <2>1, <3>1 DEF TypeInv
            <4> QED
                BY <2>3, <2>4, <4>1, <4>2 DEF Guarded
        <3>2. CASE g # f
            <4>1. ~Writing(g) /\ ~Writing(g)'
                BY <1>1, <2>4, <3>2 DEF Writing
            <4>2. guide'[g] = guide[g] /\ mine'[g] = mine[g]
                BY <1>1, <2>1, <3>2 DEF TypeInv
            <4>3. Guarded(g)
                BY DEF Inv
            <4> QED
                BY <4>1, <4>2, <4>3 DEF Guarded
        <3> QED
            BY <3>1, <3>2
    <2>7. Truthful'
        <3>1. ASSUME op.cmd # "uninstall" PROVE Installing'
            <4>1. op'.claims = {} /\ servers'[op'.scope] = interp'
                BY <1>1, <1>2, <2>4, <3>1 DEF Installing
            <4>2. Current(op.text)'
                BY <1>2, <2>3, <2>4, <3>1 DEF Current
            <4>3. Holds(op.claims)'
                BY <4>1 DEF Holds
            <4> QED
                BY <2>4, <4>1, <4>2, <4>3 DEF Installing
        <3>2. op'.cmd # "uninstall_service"
            BY <1>1, <2>4
        <3> QED
            BY <1>1, <2>1, <2>4, <3>1, <3>2, Continues
    <2> QED
        BY <2>5, <2>6, <2>7 DEF Inv
<1> QED
    BY <1>3, <1>4

LEMMA WriteGuideKeeps ==
    ASSUME Inv, op # Idle, WriteGuide
    PROVE  Inv'
<1> DEFINE f == FileOf(op.scope)
<1>1. /\ op \in Ops /\ op.cmd \in {"install", "setup", "uninstall"} /\ op.scope \in Scopes /\ said = {} /\ op.at = "write"
      /\ TypeInv /\ f \in Files
      /\ op.cmd # "uninstall" => op.claims = {} /\ Installing
    BY Running DEF WriteGuide, Installing
<1>2. UNCHANGED << servers, settings, interp, version, mine >>
    BY DEF WriteGuide, service, host
<1>3. /\ guide' = [guide EXCEPT ![f] = op.text] /\ said' = said
      /\ op' = [op EXCEPT !.at = IF op.cmd = "uninstall" THEN "legacy" ELSE "hooks", !.text = << >>]
    BY DEF WriteGuide
<1>4. /\ op' \in Ops /\ op' # Idle /\ op'.cmd = op.cmd /\ op'.scope = op.scope /\ op'.claims = op.claims
      /\ op'.at = IF op.cmd = "uninstall" THEN "legacy" ELSE "hooks"
    BY <1>1, <1>3, NoLines DEF Ops, Steps, Idle
<1>5. /\ op.text \in Seq(Token) /\ OneSection(op.text) /\ UserLines(op.text) = mine[f]
    <2>1. Writing(f) /\ Guarded(f)
        BY <1>1 DEF Inv, Writing
    <2> QED
        BY <1>1, <2>1 DEF Guarded, Ops
<1>6. TypeInv'
    <2>1. guide' \in [Files -> Seq(Token)]
        BY <1>1, <1>3, <1>5 DEF TypeInv
    <2> QED
        BY <1>1, <1>2, <1>3, <1>4, <2>1 DEF TypeInv
<1>7. ASSUME NEW g \in Files PROVE Guarded(g)'
    <2>1. ~Writing(g)'
        BY <1>4 DEF Writing
    <2>2. CASE g = f
        <3>1. guide'[g] = op.text
            BY <1>1, <1>3, <2>2 DEF TypeInv
        <3> QED
            BY <1>2, <1>5, <2>1, <2>2, <3>1 DEF Guarded
    <2>3. CASE g # f
        <3>1. ~Writing(g) /\ Guarded(g)
            BY <1>1, <2>3 DEF Inv, Writing
        <3>2. guide'[g] = guide[g]
            BY <1>1, <1>3, <2>3 DEF TypeInv
        <3> QED
            BY <1>2, <2>1, <3>1, <3>2 DEF Guarded
    <2> QED
        BY <2>2, <2>3
<1>8. Truthful'
    <2>1. ASSUME op.cmd # "uninstall" PROVE Installing'
        <3>1. op'.claims = {} /\ servers'[op'.scope] = interp' /\ op'.at = "hooks"
            BY <1>1, <1>2, <1>4, <2>1 DEF Installing
        <3>2. guide'[f] = op.text /\ Current(op.text)
            BY <1>1, <1>3, <2>1 DEF TypeInv, Installing
        <3>3. Current(guide[FileOf(op.scope)])'
            BY <1>2, <1>4, <3>2 DEF Current
        <3>4. Holds(op.claims)'
            BY <3>1 DEF Holds
        <3> QED
            BY <3>1, <3>3, <3>4 DEF Installing
    <2>2. op'.cmd # "uninstall_service"
        BY <1>1, <1>4
    <2> QED
        BY <1>1, <1>3, <1>4, <2>1, <2>2, Continues
<1> QED
    BY <1>6, <1>7, <1>8 DEF Inv

LEMMA OpenSettingsKeeps ==
    ASSUME Inv, op # Idle, OpenSettings
    PROVE  Inv'
<1>1. /\ op \in Ops /\ op.cmd \in {"install", "setup"} /\ op.scope \in Scopes /\ said = {} /\ op.at = "hooks"
      /\ op.claims = {} /\ TypeInv /\ Installing
    BY Running DEF OpenSettings, Installing
<1>2. UNCHANGED << servers, guide, plist, interp, version, mine >>
    BY DEF OpenSettings, service, host
<1>3. CASE settings.text = "torn"
    <2>1. op' = Idle /\ said' = {} /\ settings' = settings
        BY <1>3 DEF OpenSettings, Done
    <2>2. TypeInv'
        BY <1>1, <1>2, <2>1 DEF TypeInv
    <2>3. \A f \in Files : Guarded(f)'
        BY <1>1, <1>2, <2>1, FilesAlone
    <2> QED
        BY <2>1, <2>2, <2>3, EndedSilently DEF Inv
<1>4. CASE settings.text # "torn"
    <2>1. settings' = [settings EXCEPT !.text = "torn"] /\ Goto("merge")
        BY <1>4 DEF OpenSettings
    <2>2. /\ op' \in Ops /\ op' # Idle /\ op'.cmd = op.cmd /\ op'.scope = op.scope /\ op'.at = "merge"
          /\ op'.claims = op.claims /\ said' = said
        BY <1>1, <2>1, GotoMeans DEF Steps
    <2>3. TypeInv'
        BY <1>1, <1>2, <2>1, <2>2 DEF TypeInv
    <2>4. \A f \in Files : Guarded(f)'
        BY <1>1, <1>2, <2>2, FilesAlone
    <2>5. Installing'
        <3>1. Holds(op.claims)'
            BY <1>1, <2>2 DEF Holds
        <3> QED
            BY <1>1, <1>2, <2>2, <3>1 DEF Installing, Current
    <2>6. Truthful'
        BY <1>1, <2>2, <2>5, Continues
    <2> QED
        BY <2>3, <2>4, <2>6 DEF Inv
<1> QED
    BY <1>3, <1>4

LEMMA MergeHooksKeeps ==
    ASSUME Inv, op # Idle, MergeHooks
    PROVE  Inv'
<1>1. /\ op \in Ops /\ op.cmd \in {"install", "setup"} /\ op.scope \in Scopes /\ said = {} /\ op.at = "merge"
      /\ op.claims = {} /\ TypeInv /\ Installing
    BY Running DEF MergeHooks, Installing
<1>2. UNCHANGED << servers, guide, plist, interp, version, mine >>
    BY DEF MergeHooks, service, host
<1>3. settings' = [settings EXCEPT !.text = "json", !.hooks = MergedHooks] /\ Leave({op.scope, "hooks"}, "wiki")
    BY DEF MergeHooks
<1>4. \/ /\ op.cmd = "setup" /\ op' \in Ops /\ op' # Idle /\ op'.cmd = op.cmd /\ op'.scope = op.scope
         /\ op'.at = "wiki" /\ op'.claims = {op.scope, "hooks"} /\ said' = {}
      \/ op' = Idle /\ said' = {op.scope, "hooks"}
    <2>1. {op.scope, "hooks"} \in SUBSET Claims
        BY <1>1 DEF Claims
    <2> QED
        BY <1>1, <1>3, <2>1, LeaveMeans DEF Steps
<1>5. /\ settings'.text = "json" /\ settings'.hooks \in [Hooks -> SUBSET {"ours", "users"}]
      /\ \A e \in Hooks : settings'.hooks[e] # {}
    <2>1. MergedHooks \in [Hooks -> SUBSET {"ours", "users"}] /\ \A e \in Hooks : MergedHooks[e] # {}
        BY <1>1 DEF MergedHooks, TypeInv
    <2> QED
        BY <1>1, <1>3, <2>1 DEF TypeInv
<1>6. TypeInv'
    <2>1. settings' \in [text : {"json", "torn"}, legacy : BOOLEAN, hooks : [Hooks -> SUBSET {"ours", "users"}]]
        BY <1>1, <1>3, <1>5 DEF TypeInv
    <2>2. said' \in SUBSET Claims
        BY <1>1, <1>4 DEF Claims
    <2> QED
        BY <1>1, <1>2, <1>4, <2>1, <2>2 DEF TypeInv
<1>7. \A f \in Files : Guarded(f)'
    BY <1>1, <1>2, <1>4, FilesAlone
<1>8. servers'[op.scope] = interp' /\ Current(guide[FileOf(op.scope)])
    BY <1>1, <1>2 DEF Installing
<1>9. CASE op' = Idle /\ said' = {op.scope, "hooks"}
    <2>1. said' \cap Scopes = {op.scope} /\ "service" \notin said' /\ "no_service" \notin said'
        BY <1>1, <1>9, Different
    <2>2. Holds(said)'
        BY <1>2, <1>5, <1>8, <2>1 DEF Holds, Current
    <2>3. Truthful'
        BY <1>9, <2>2 DEF Truthful
    <2> QED
        BY <1>6, <1>7, <2>3 DEF Inv
<1>10. CASE /\ op.cmd = "setup" /\ op' # Idle /\ op'.cmd = op.cmd /\ op'.scope = op.scope
            /\ op'.at = "wiki" /\ op'.claims = {op.scope, "hooks"} /\ said' = {}
    <2>1. op'.claims \cap Scopes = {op.scope} /\ "service" \notin op'.claims /\ "no_service" \notin op'.claims
        BY <1>1, <1>10, Different
    <2>2. Holds(op.claims)'
        BY <1>2, <1>5, <1>8, <2>1 DEF Holds, Current
    <2>3. Installing'
        BY <1>10, <2>2 DEF Installing
    <2>4. Truthful'
        BY <1>10, <2>3, Continues
    <2> QED
        BY <1>6, <1>7, <2>4 DEF Inv
<1> QED
    BY <1>4, <1>9, <1>10

LEMMA RemoveServerKeeps ==
    ASSUME Inv, op # Idle, RemoveServer
    PROVE  Inv'
<1>1. /\ op \in Ops /\ op.cmd = "uninstall" /\ op.scope \in Scopes /\ said = {} /\ op.at = "remove" /\ TypeInv
    BY Running DEF RemoveServer
<1>2. UNCHANGED << guide, settings, interp, version, mine >> /\ Goto("guide")
    BY DEF RemoveServer, host
<1>3. servers' \in {servers, [servers EXCEPT ![op.scope] = None]}
    BY DEF RemoveServer
<1>4. op' \in Ops /\ op' # Idle /\ op'.cmd = op.cmd /\ op'.at = "guide" /\ said' = said
    BY <1>1, <1>2, GotoMeans DEF Steps
<1>5. TypeInv'
    BY <1>1, <1>2, <1>3, <1>4 DEF TypeInv
<1>6. \A f \in Files : Guarded(f)'
    BY <1>1, <1>2, <1>4, FilesAlone
<1>7. Truthful'
    BY <1>1, <1>4, Continues
<1> QED
    BY <1>5, <1>6, <1>7 DEF Inv

LEMMA CleanLegacyKeeps ==
    ASSUME Inv, op # Idle, CleanLegacy
    PROVE  Inv'
<1>1. /\ op \in Ops /\ op.cmd = "uninstall" /\ op.scope \in Scopes /\ said = {} /\ op.at = "legacy" /\ TypeInv
    BY Running DEF CleanLegacy
<1>2. UNCHANGED << servers, guide, interp, version, mine >>
    BY DEF CleanLegacy, host
<1>3. CASE settings.text = "json" /\ settings.legacy /\ op.claims = {"clean"}
    <2>1. settings' = [settings EXCEPT !.text = "torn"] /\ Goto("scrub")
        BY <1>3 DEF CleanLegacy
    <2>2. op' \in Ops /\ op' # Idle /\ op'.cmd = op.cmd /\ op'.at = "scrub" /\ said' = said
        BY <1>1, <2>1, GotoMeans DEF Steps
    <2>3. TypeInv'
        BY <1>1, <1>2, <2>1, <2>2 DEF TypeInv
    <2>4. \A f \in Files : Guarded(f)'
        BY <1>1, <1>2, <2>2, FilesAlone
    <2>5. Truthful'
        BY <1>1, <2>2, Continues
    <2> QED
        BY <2>3, <2>4, <2>5 DEF Inv
<1>4. CASE ~(settings.text = "json" /\ settings.legacy /\ op.claims = {"clean"})
    <2>1. op' = Idle /\ said' = {} /\ settings' = settings
        BY <1>4 DEF CleanLegacy, Done
    <2>2. TypeInv'
        BY <1>1, <1>2, <2>1 DEF TypeInv
    <2>3. \A f \in Files : Guarded(f)'
        BY <1>1, <1>2, <2>1, FilesAlone
    <2> QED
        BY <2>1, <2>2, <2>3, EndedSilently DEF Inv
<1> QED
    BY <1>3, <1>4

LEMMA ScrubLegacyKeeps ==
    ASSUME Inv, op # Idle, ScrubLegacy
    PROVE  Inv'
<1>1. op \in Ops /\ op.at = "scrub" /\ TypeInv
    BY Running DEF ScrubLegacy
<1>2. /\ UNCHANGED << servers, guide, interp, version, mine >>
      /\ settings' = [settings EXCEPT !.text = "json", !.legacy = FALSE] /\ op' = Idle /\ said' = {}
    BY DEF ScrubLegacy, host, Done
<1>3. TypeInv'
    BY <1>1, <1>2 DEF TypeInv
<1>4. \A f \in Files : Guarded(f)'
    BY <1>1, <1>2, FilesAlone
<1> QED
    BY <1>2, <1>3, <1>4, EndedSilently DEF Inv

LEMMA ScanKeeps ==
    ASSUME Inv, op # Idle, Scan
    PROVE  Inv'
<1>1. /\ op \in Ops /\ op.cmd \in {"scan", "setup"} /\ op.scope \in Scopes /\ said = {} /\ op.at = "scan" /\ TypeInv
      /\ op.cmd = "setup" => op.claims = {} /\ Installing
    BY Running DEF Scan, Installing
<1>2. UNCHANGED << servers, guide, settings, interp, version, mine >>
    BY DEF Scan, host
<1>3. CASE project.gone
    <2>1. op' = Idle /\ said' = {}
        BY <1>3 DEF Scan, Done
    <2>2. TypeInv'
        BY <1>1, <1>2, <2>1 DEF TypeInv
    <2>3. \A f \in Files : Guarded(f)'
        BY <1>1, <1>2, <2>1, FilesAlone
    <2> QED
        BY <2>1, <2>2, <2>3, EndedSilently DEF Inv
<1>4. CASE ~project.gone
    <2>1. /\ op' \in Ops /\ op' # Idle /\ op'.cmd = op.cmd /\ op'.scope = op.scope /\ op'.at = "note"
          /\ op'.claims = op.claims /\ said' = said
        BY <1>1, <1>4, GotoMeans DEF Scan, Steps
    <2>2. TypeInv'
        BY <1>1, <1>2, <2>1 DEF TypeInv
    <2>3. \A f \in Files : Guarded(f)'
        BY <1>1, <1>2, <2>1, FilesAlone
    <2>4. op.cmd = "setup" => Installing'
        BY <1>1, <1>2, <2>1, StillInstalling
    <2>5. Truthful'
        BY <1>1, <2>1, <2>4, Continues
    <2> QED
        BY <2>2, <2>3, <2>5 DEF Inv
<1> QED
    BY <1>3, <1>4

LEMMA OpenNoteKeeps ==
    ASSUME Inv, op # Idle, OpenNote
    PROVE  Inv'
<1>1. /\ op \in Ops /\ op.cmd \in {"scan", "setup"} /\ op.scope \in Scopes /\ said = {} /\ op.at = "note" /\ TypeInv
      /\ op.cmd = "setup" => op.claims = {} /\ Installing
    BY Running DEF OpenNote, Installing
<1>2. UNCHANGED << servers, settings, interp, version, mine >>
    BY DEF OpenNote, host
<1>3. CASE Contains(guide["cwd"], "scan_note")
    <2>1. PICK next \in {"add", "wiki"} : Leave({}, next) /\ guide' = guide
        BY <1>3 DEF OpenNote
    <2>2. \/ /\ op.cmd = "setup" /\ op' \in Ops /\ op' # Idle /\ op'.cmd = op.cmd /\ op'.scope = op.scope
             /\ op'.at = next /\ op'.claims = op.claims /\ said' = said
          \/ op' = Idle /\ said' = {}
        BY <1>1, <2>1, LeaveMeans DEF Steps
    <2>3. TypeInv'
        BY <1>1, <1>2, <2>1, <2>2 DEF TypeInv
    <2>4. \A f \in Files : Guarded(f)'
        BY <1>1, <1>2, <2>1, <2>2, FilesAlone
    <2>5. Truthful'
        <3>1. ASSUME op' # Idle PROVE Installing'
            BY <1>1, <1>2, <2>1, <2>2, <3>1, StillInstalling
        <3> QED
            BY <1>1, <2>2, <3>1, Continues, EndedSilently
    <2> QED
        BY <2>3, <2>4, <2>5 DEF Inv
<1>4. CASE ~Contains(guide["cwd"], "scan_note")
    <2> DEFINE new == Append(guide["cwd"], "scan_note")
    <2>1. /\ guide' = [guide EXCEPT !["cwd"] = << >>] /\ said' = said
          /\ op' = [op EXCEPT !.at = "write_note", !.text = new]
        BY <1>4 DEF OpenNote, WithScanNote
    <2>2. guide["cwd"] \in Seq(Token) /\ OneSection(guide["cwd"]) /\ UserLines(guide["cwd"]) = mine["cwd"]
        <3>1. "cwd" \in Files /\ ~Writing("cwd")
            BY <1>1 DEF Writing, Files
        <3>2. Guarded("cwd")
            BY <3>1 DEF Inv
        <3> QED
            BY <1>1, <3>1, <3>2 DEF Guarded, TypeInv
    <2>3. new \in Seq(Token) /\ OneSection(new) /\ UserLines(new) = mine["cwd"]
        <3>1. "scan_note" \in Lines \cup {"scan_note"} /\ "scan_note" \notin Lines
            BY Kinds
        <3> QED
            BY <2>2, <3>1, Appended
    <2> HIDE DEF new
    <2>4. /\ op' \in Ops /\ op' # Idle /\ op'.cmd = op.cmd /\ op'.scope = op.scope /\ op'.at = "write_note"
          /\ op'.text = new /\ op'.claims = op.claims
        BY <1>1, <2>1, <2>3 DEF Ops, Steps, Idle
    <2>5. TypeInv'
        <3>1. guide' \in [Files -> Seq(Token)]
            BY <1>1, <2>1, NoLines DEF TypeInv
        <3> QED
            BY <1>1, <1>2, <2>1, <2>4, <3>1 DEF TypeInv
    <2>6. ASSUME NEW f \in Files PROVE Guarded(f)'
        <3>1. CASE f = "cwd"
            <4>1. Writing(f)'
                BY <2>4, <3>1 DEF Writing
            <4>2. guide'[f] = << >> /\ mine'[f] = mine["cwd"]
                BY <1>1, <1>2, <2>1, <3>1 DEF TypeInv
            <4> QED
                BY <2>3, <2>4, <4>1, <4>2 DEF Guarded
        <3>2. CASE f # "cwd"
            <4>1. ~Writing(f) /\ ~Writing(f)'
                BY <1>1, <2>4, <3>2 DEF Writing
            <4>2. guide'[f] = guide[f] /\ Guarded(f)
                BY <1>1, <2>1, <3>2 DEF TypeInv, Inv
            <4> QED
                BY <1>2, <4>1, <4>2 DEF Guarded
        <3> QED
            BY <3>1, <3>2
    <2>7. Truthful'
        <3>1. ASSUME op.cmd = "setup" PROVE Installing'
            <4>1. op'.claims = {}
                BY <1>1, <2>4, <3>1
            <4>2. Holds(op.claims)'
                BY <4>1 DEF Holds
            <4> QED
                BY <2>4, <4>1, <4>2 DEF Installing
        <3> QED
            BY <1>1, <2>1, <2>4, <3>1, Continues
    <2> QED
        BY <2>5, <2>6, <2>7 DEF Inv
<1> QED
    BY <1>3, <1>4

LEMMA WriteNoteKeeps ==
    ASSUME Inv, op # Idle, WriteNote
    PROVE  Inv'
<1>1. /\ op \in Ops /\ op.cmd \in {"scan", "setup"} /\ op.scope \in Scopes /\ said = {} /\ op.at = "write_note"
      /\ TypeInv /\ "cwd" \in Files
      /\ op.cmd = "setup" => op.claims = {} /\ Installing
    BY Running DEF WriteNote, Installing, Files
<1>2. /\ UNCHANGED << servers, settings, interp, version, mine >>
      /\ guide' = [guide EXCEPT !["cwd"] = op.text]
    BY DEF WriteNote, host
<1>3. \/ /\ op.cmd = "setup" /\ op' \in Ops /\ op' # Idle /\ op'.cmd = op.cmd /\ op'.scope = op.scope
         /\ op'.at \in {"add", "wiki"} /\ op'.claims = op.claims /\ said' = said
      \/ op' = Idle /\ said' = {}
    <2>1. CASE op.cmd = "setup"
        <3>1. op' = [op EXCEPT !.at = IF cli THEN "add" ELSE "wiki", !.text = << >>] /\ said' = said
            BY <2>1 DEF WriteNote
        <3> QED
            BY <1>1, <2>1, <3>1, NoLines DEF Ops, Steps, Idle
    <2>2. CASE op.cmd # "setup"
        BY <2>2 DEF WriteNote, Done
    <2> QED
        BY <2>1, <2>2
<1>4. op.text \in Seq(Token) /\ OneSection(op.text) /\ UserLines(op.text) = mine["cwd"]
    <2>1. Writing("cwd") /\ Guarded("cwd")
        BY <1>1 DEF Inv, Writing
    <2> QED
        BY <1>1, <2>1 DEF Guarded, Ops
<1>5. TypeInv'
    <2>1. guide' \in [Files -> Seq(Token)]
        BY <1>1, <1>2, <1>4 DEF TypeInv
    <2> QED
        BY <1>1, <1>2, <1>3, <2>1 DEF TypeInv
<1>6. ASSUME NEW f \in Files PROVE Guarded(f)'
    <2>1. ~Writing(f)'
        BY <1>3 DEF Writing
    <2>2. CASE f = "cwd"
        <3>1. guide'[f] = op.text
            BY <1>1, <1>2, <2>2 DEF TypeInv
        <3> QED
            BY <1>2, <1>4, <2>1, <2>2, <3>1 DEF Guarded
    <2>3. CASE f # "cwd"
        <3>1. ~Writing(f) /\ Guarded(f) /\ guide'[f] = guide[f]
            BY <1>1, <1>2, <2>3 DEF Inv, Writing, TypeInv
        <3> QED
            BY <1>2, <2>1, <3>1 DEF Guarded
    <2> QED
        BY <2>2, <2>3
<1>7. Truthful'
    <2>1. ASSUME op' # Idle PROVE Installing'
        <3>1. op'.claims = {} /\ op'.at \in {"add", "wiki"}
            BY <1>1, <1>3, <2>1
        <3>2. Holds(op.claims)'
            BY <3>1 DEF Holds
        <3> QED
            BY <3>1, <3>2 DEF Installing
    <2> QED
        BY <1>1, <1>3, <2>1, Continues, EndedSilently
<1> QED
    BY <1>5, <1>6, <1>7 DEF Inv

LEMMA EnableWikiKeeps ==
    ASSUME Inv, op # Idle, EnableWiki
    PROVE  Inv'
<1>1. /\ op \in Ops /\ op.cmd = "setup" /\ op.scope \in Scopes /\ said = {} /\ op.at = "wiki" /\ TypeInv /\ Installing
    BY Running DEF EnableWiki
<1>2. UNCHANGED << servers, guide, settings, interp, version, mine >>
    BY DEF EnableWiki, host
<1>3. \/ op' = Idle /\ said' = {}
      \/ Goto("plist")
    BY DEF EnableWiki, Done
<1>4. CASE op' = Idle /\ said' = {}
    <2>1. TypeInv'
        BY <1>1, <1>2, <1>4 DEF TypeInv
    <2>2. \A f \in Files : Guarded(f)'
        BY <1>1, <1>2, <1>4, FilesAlone
    <2> QED
        BY <1>4, <2>1, <2>2, EndedSilently DEF Inv
<1>5. CASE Goto("plist")
    <2>1. /\ op' \in Ops /\ op' # Idle /\ op'.cmd = op.cmd /\ op'.scope = op.scope /\ op'.at = "plist"
          /\ op'.claims = op.claims /\ said' = said
        BY <1>1, <1>5, GotoMeans DEF Steps
    <2>2. TypeInv'
        BY <1>1, <1>2, <2>1 DEF TypeInv
    <2>3. \A f \in Files : Guarded(f)'
        BY <1>1, <1>2, <2>1, FilesAlone
    <2>4. Installing'
        BY <1>1, <1>2, <2>1, StillInstalling
    <2>5. Truthful'
        BY <1>1, <2>1, <2>4, Continues
    <2> QED
        BY <2>2, <2>3, <2>5 DEF Inv
<1> QED
    BY <1>3, <1>4, <1>5

LEMMA WritePlistKeeps ==
    ASSUME Inv, op # Idle, WritePlist
    PROVE  Inv'
<1>1. /\ op \in Ops /\ op.cmd \in {"install_service", "setup"} /\ op.scope \in Scopes /\ said = {} /\ op.at = "plist"
      /\ TypeInv /\ Installing
    BY Running DEF WritePlist
<1>2. UNCHANGED << servers, guide, settings, interp, version, mine >> /\ plist' = interp /\ Goto("bootstrap")
    BY DEF WritePlist, host
<1>3. /\ op' \in Ops /\ op' # Idle /\ op'.cmd = op.cmd /\ op'.scope = op.scope /\ op'.at = "bootstrap"
      /\ op'.claims = op.claims /\ said' = said
    BY <1>1, <1>2, GotoMeans DEF Steps
<1>4. TypeInv'
    BY <1>1, <1>2, <1>3 DEF TypeInv
<1>5. \A f \in Files : Guarded(f)'
    BY <1>1, <1>2, <1>3, FilesAlone
<1>6. Installing'
    BY <1>1, <1>2, <1>3, StillInstalling
<1>7. Truthful'
    BY <1>1, <1>3, <1>6, Continues
<1> QED
    BY <1>4, <1>5, <1>7 DEF Inv

LEMMA BootstrapKeeps ==
    ASSUME Inv, op # Idle, Bootstrap
    PROVE  Inv'
<1>1. /\ op \in Ops /\ op.cmd \in {"install_service", "setup"} /\ op.scope \in Scopes /\ said = {} /\ op.at = "bootstrap"
      /\ op.claims \in SUBSET Claims /\ TypeInv /\ Installing
    BY Running DEF Bootstrap
<1>2. UNCHANGED << servers, guide, settings, plist, interp, version, mine >>
    BY DEF Bootstrap, host
<1>3. /\ op' = Idle
      /\ \/ job' = plist /\ said' = op.claims \cup {"service"}
         \/ said' = op.claims
    BY DEF Bootstrap, Done
<1>4. TypeInv'
    BY <1>1, <1>2, <1>3 DEF TypeInv, Claims
<1>5. \A f \in Files : Guarded(f)'
    BY <1>1, <1>2, <1>3, FilesAlone
<1>6. Holds(said)'
    <2>1. Holds(op.claims) /\ plist = interp /\ op.claims \subseteq {op.scope, "hooks"}
        BY <1>1 DEF Installing
    <2>2. "service" \notin op.claims /\ "no_service" \notin said'
        BY <1>1, <1>3, <2>1, Different
    <2>3. said' \cap Scopes = op.claims \cap Scopes /\ ("hooks" \in said' => "hooks" \in op.claims)
        BY <1>3, Different
    <2>4. "service" \in said' => job' = interp' /\ plist' = interp'
        BY <1>2, <1>3, <2>1, <2>2
    <2> QED
        BY <1>2, <2>1, <2>2, <2>3, <2>4 DEF Holds, Current
<1>7. Truthful'
    BY <1>3, <1>6 DEF Truthful
<1> QED
    BY <1>4, <1>5, <1>7 DEF Inv

LEMMA BootoutKeeps ==
    ASSUME Inv, op # Idle, Bootout
    PROVE  Inv'
<1>1. /\ op \in Ops /\ op.cmd = "uninstall_service" /\ op.scope \in Scopes /\ said = {} /\ op.at = "bootout"
      /\ TypeInv /\ Removing
    BY Running DEF Bootout
<1>2. UNCHANGED << servers, guide, settings, interp, version, mine, said >>
    BY DEF Bootout, host
<1>3. \/ job' = None /\ op' = [op EXCEPT !.at = "unlink", !.claims = {"no_service"}]
      \/ job' = job /\ op' = [op EXCEPT !.at = "unlink"]
    BY DEF Bootout
<1>4. /\ op' \in Ops /\ op' # Idle /\ op'.cmd = "uninstall_service" /\ op'.at = "unlink"
      /\ \/ job' = None /\ op'.claims = {"no_service"}
         \/ job' = job /\ op'.claims = op.claims
    <2>1. {"no_service"} \in SUBSET Claims
        BY DEF Claims
    <2> QED
        BY <1>1, <1>3, <2>1 DEF Ops, Steps, Idle
<1>5. TypeInv'
    BY <1>1, <1>2, <1>4 DEF TypeInv
<1>6. \A f \in Files : Guarded(f)'
    BY <1>1, <1>2, <1>4, FilesAlone
<1>7. Removing'
    BY <1>1, <1>4 DEF Removing
<1>8. Truthful'
    BY <1>1, <1>2, <1>4, <1>7, Continues
<1> QED
    BY <1>5, <1>6, <1>8 DEF Inv

LEMMA UnlinkKeeps ==
    ASSUME Inv, op # Idle, Unlink
    PROVE  Inv'
<1>1. /\ op \in Ops /\ op.cmd = "uninstall_service" /\ op.at = "unlink" /\ op.claims \in SUBSET Claims
      /\ TypeInv /\ Removing
    BY Running DEF Unlink
<1>2. /\ UNCHANGED << servers, guide, settings, job, interp, version, mine >>
      /\ plist' = None /\ op' = Idle /\ said' = op.claims
    BY DEF Unlink, host, Done
<1>3. TypeInv'
    BY <1>1, <1>2 DEF TypeInv
<1>4. \A f \in Files : Guarded(f)'
    BY <1>1, <1>2, FilesAlone
<1>5. Holds(said)'
    <2>1. said' \cap Scopes = {} /\ "hooks" \notin said' /\ "service" \notin said'
        BY <1>1, <1>2, Different DEF Removing
    <2> QED
        BY <1>1, <1>2, <2>1 DEF Holds, Removing
<1>6. Truthful'
    BY <1>2, <1>5 DEF Truthful
<1> QED
    BY <1>3, <1>4, <1>6 DEF Inv

----------------------------------------------------------------------------
\* What happens from outside.

\* A command begins.
LEMMA Started ==
    ASSUME Inv, op = Idle, op' \in Ops, op' # Idle, said' = {}, UNCHANGED << guide, mine >>,
           op'.at \in {"add", "scan", "plist", "bootout", "remove"},
           op'.cmd # "uninstall" => op'.claims = {}
    PROVE  (\A f \in Files : Guarded(f)') /\ Truthful'
<1>1. \A f \in Files : Guarded(f)'
    BY FilesAlone
<1>2. ASSUME op'.cmd # "uninstall" PROVE Installing' /\ Removing'
    <2>1. op'.claims = {}
        BY <1>2
    <2>2. Holds(op.claims)'
        BY <2>1 DEF Holds
    <2> QED
        BY <2>1, <2>2 DEF Installing, Removing
<1>3. Truthful'
    BY <1>2, Continues
<1> QED
    BY <1>1, <1>3

\* A step of somebody else while no command runs, which ends the hold of what was said.
LEMMA Meanwhile ==
    ASSUME Inv, op = Idle, op' = Idle, said' = {}, UNCHANGED << guide, mine >>
    PROVE  (\A f \in Files : Guarded(f)') /\ Truthful'
BY FilesAlone, EndedSilently

LEMMA CommandsKeep ==
    ASSUME Inv, Commands
    PROVE  Inv'
<1>1. UNCHANGED << servers, guide, settings, interp, version, mine >> /\ TypeInv
    BY DEF Commands, host, Inv
<1>2. /\ op = Idle /\ op' \in Ops /\ op' # Idle /\ said' = {}
      /\ op'.at \in {"add", "scan", "plist", "bootout", "remove"}
      /\ op'.cmd # "uninstall" => op'.claims = {}
    <2>1. CASE RunInstall
        <3>1. PICK s \in Scopes : Start("install", s, "add")
            BY <2>1 DEF RunInstall
        <3> QED
            BY <3>1, StartMeans DEF Commanded, Steps
    <2>2. CASE RunSetup
        <3>1. PICK s \in Scopes : Start("setup", s, "scan")
            BY <2>2 DEF RunSetup
        <3> QED
            BY <3>1, StartMeans DEF Commanded, Steps
    <2>3. CASE RunUninstall
        <3>1. PICK s \in Scopes, clean \in SUBSET {"clean"} :
                  /\ op = Idle /\ said' = {}
                  /\ op' = [cmd |-> "uninstall", scope |-> s, at |-> "remove", text |-> << >>, claims |-> clean]
            BY <2>3 DEF RunUninstall
        <3>2. clean \in SUBSET Claims
            BY DEF Claims
        <3> QED
            BY <3>1, <3>2, NoLines DEF Ops, Commanded, Steps, Idle
    <2>4. CASE RunScan
        BY <2>4, StartMeans, Different DEF RunScan, Commanded, Steps
    <2>5. CASE RunService
        <3>1. CASE Start("install_service", "user", "plist")
            BY <3>1, StartMeans, Different DEF Commanded, Steps
        <3>2. CASE Start("uninstall_service", "user", "bootout")
            BY <3>2, StartMeans, Different DEF Commanded, Steps
        <3> QED
            BY <2>5, <3>1, <3>2 DEF RunService
    <2> QED
        BY <2>1, <2>2, <2>3, <2>4, <2>5 DEF Commands
<1>3. TypeInv'
    BY <1>1, <1>2 DEF TypeInv
<1> QED
    BY <1>1, <1>2, <1>3, Started DEF Inv

\* Edits of the configuration, the list of projects and the timeline say nothing of what is modelled in Inv.
LEMMA ConfigurationKeeps ==
    ASSUME Inv, WatchAdd \/ EditConfig
    PROVE  Inv'
<1>1. UNCHANGED << servers, guide, settings, interp, version, mine >> /\ TypeInv /\ op = Idle /\ op' = Idle /\ said' = {}
    BY DEF WatchAdd, EditConfig, host, Inv
<1>2. TypeInv'
    BY <1>1 DEF TypeInv
<1> QED
    BY <1>1, <1>2, Meanwhile DEF Inv

LEMMA WriteLineKeeps ==
    ASSUME Inv, WriteLine
    PROVE  Inv'
<1>1. /\ op = Idle /\ op' = Idle /\ said' = {} /\ TypeInv
      /\ UNCHANGED << servers, settings, interp, version >>
    BY DEF WriteLine, host, Inv
<1>2. PICK f \in Files, line \in Lines :
          /\ ~Contains(guide[f], line)
          /\ guide' = [guide EXCEPT ![f] = Append(guide[f], line)]
          /\ mine' = [mine EXCEPT ![f] = mine[f] \cup ({p[1] : p \in mine[f]} \cup {line}) \X {line}]
    BY DEF WriteLine
<1>3. \A g \in Files : OneSection(guide[g]) /\ UserLines(guide[g]) = mine[g] /\ guide[g] \in Seq(Token)
    BY <1>1 DEF Inv, Guarded, Writing, TypeInv
<1> DEFINE new == Append(guide[f], line)
           now == mine[f] \cup ({p[1] : p \in mine[f]} \cup {line}) \X {line}
<1>4. new \in Seq(Token) /\ OneSection(new) /\ UserLines(new) = now
    <2>1. line \in Lines \cup {"scan_note"}
        OBVIOUS
    <2>2. OneSection(guide[f]) /\ guide[f] \in Seq(Token) /\ UserLines(guide[f]) = mine[f]
        BY <1>3
    <2> QED
        BY <1>2, <2>1, <2>2, Appended
<1> HIDE DEF new, now
<1>5. guide' = [guide EXCEPT ![f] = new] /\ mine' = [mine EXCEPT ![f] = now]
    BY <1>2 DEF new, now
<1>6. guide'[f] = new /\ mine'[f] = now /\ \A g \in Files \ {f} : guide'[g] = guide[g] /\ mine'[g] = mine[g]
    BY <1>1, <1>5 DEF TypeInv
<1>7. TypeInv'
    <2>1. now \in SUBSET (Lines \X Lines)
        BY <1>4, LinesOf
    <2> QED
        BY <1>1, <1>4, <1>5, <2>1 DEF TypeInv
<1>8. ASSUME NEW g \in Files PROVE Guarded(g)'
    <2>1. ~Writing(g)'
        BY <1>1 DEF Writing
    <2>2. OneSection(guide'[g]) /\ UserLines(guide'[g]) = mine'[g]
        BY <1>3, <1>4, <1>6
    <2> QED
        BY <2>1, <2>2 DEF Guarded
<1> QED
    BY <1>1, <1>7, <1>8, EndedSilently DEF Inv

LEMMA LoseEndKeeps ==
    ASSUME Inv, LoseEnd
    PROVE  Inv'
<1>1. /\ op = Idle /\ op' = Idle /\ said' = {} /\ TypeInv
      /\ UNCHANGED << servers, settings, interp, version, mine >>
    BY DEF LoseEnd, host, Inv
<1>2. PICK f \in Files :
          \E i \in DOMAIN guide[f] : guide[f][i] = "end" /\ guide' = [guide EXCEPT ![f] = RemoveAt(guide[f], i)]
    BY DEF LoseEnd
<1>3. PICK i \in DOMAIN guide[f] : guide[f][i] = "end" /\ guide' = [guide EXCEPT ![f] = RemoveAt(guide[f], i)]
    BY <1>2
<1>4. \A g \in Files : OneSection(guide[g]) /\ UserLines(guide[g]) = mine[g] /\ guide[g] \in Seq(Token)
    BY <1>1 DEF Inv, Guarded, Writing, TypeInv
<1> DEFINE new == RemoveAt(guide[f], i)
<1>5. new \in Seq(Token) /\ OneSection(new) /\ UserLines(new) = mine[f]
    BY <1>3, <1>4, EndLost
<1> HIDE DEF new
<1>6. guide' = [guide EXCEPT ![f] = new]
    BY <1>3 DEF new
<1>7. guide'[f] = new /\ \A g \in Files \ {f} : guide'[g] = guide[g]
    BY <1>1, <1>6 DEF TypeInv
<1>8. TypeInv'
    BY <1>1, <1>5, <1>6 DEF TypeInv
<1>9. ASSUME NEW g \in Files PROVE Guarded(g)'
    <2>1. ~Writing(g)'
        BY <1>1 DEF Writing
    <2>2. OneSection(guide'[g]) /\ UserLines(guide'[g]) = mine'[g]
        BY <1>1, <1>4, <1>5, <1>7
    <2> QED
        BY <2>1, <2>2 DEF Guarded
<1> QED
    BY <1>1, <1>8, <1>9, EndedSilently DEF Inv

LEMMA UpgradeKeeps ==
    ASSUME Inv, Upgrade
    PROVE  Inv'
<1>1. /\ UNCHANGED << servers, guide, settings, mine >> /\ TypeInv
      /\ op = Idle /\ op' = Idle /\ said' = {}
    BY DEF Upgrade, Inv
<1>2. interp' \in Interpreters /\ version' \in Marks
    <2>1. Versions[2] \in Marks
        BY InstallationAssumption DEF Marks, ToSet
    <2> QED
        BY <1>1, <2>1 DEF Upgrade, TypeInv, Interpreters
<1>3. TypeInv'
    BY <1>1, <1>2 DEF TypeInv
<1> QED
    BY <1>1, <1>3, Meanwhile DEF Inv

\* What time, and others, do to the timeline, the project and the job, without a word from anybody.
LEMMA WorldKeeps ==
    ASSUME Inv, WeekPasses \/ ProjectVanishes \/ Login
    PROVE  Inv'
<1>1. /\ UNCHANGED << servers, guide, settings, interp, version, mine, said, plist >> /\ TypeInv
      /\ op = Idle /\ op' = Idle /\ (job' = job \/ job # plist)
    BY DEF WeekPasses, ProjectVanishes, Login, host, service, Inv
<1>2. TypeInv'
    BY <1>1 DEF TypeInv
<1>3. \A f \in Files : Guarded(f)'
    BY <1>1, FilesAlone
<1>4. Holds(said)'
    <2>1. Holds(said)
        BY DEF Inv, Truthful
    <2>2. job' = job \/ ("service" \notin said /\ "no_service" \notin said)
        BY <1>1, <2>1 DEF Holds
    <2> QED
        BY <1>1, <2>1, <2>2 DEF Holds, Current
<1>5. Truthful'
    BY <1>1, <1>4 DEF Truthful
<1> QED
    BY <1>2, <1>3, <1>5 DEF Inv

LEMMA KillKeeps ==
    ASSUME Inv, Kill
    PROVE  Inv'
<1>1. /\ op # Idle /\ op' = Idle /\ said' = {} /\ TypeInv /\ op \in Ops /\ FileOf(op.scope) \in Files
      /\ UNCHANGED << servers, guide, settings, interp, version >>
    BY Running DEF Kill, host
<1>2. mine' = CASE op.at = "write" -> [mine EXCEPT ![FileOf(op.scope)] = {}]
                [] op.at = "write_note" -> [mine EXCEPT !["cwd"] = {}]
                [] OTHER -> mine
    BY DEF Kill
<1>3. /\ mine' \in [Files -> SUBSET (Lines \X Lines)]
      /\ \A f \in Files : mine'[f] = IF Writing(f) THEN {} ELSE mine[f]
    <2>1. CASE op.at = "write"
        BY <1>1, <1>2, <2>1 DEF TypeInv, Writing
    <2>2. CASE op.at = "write_note"
        BY <1>1, <1>2, <2>2 DEF TypeInv, Writing, Files
    <2>3. CASE op.at \notin {"write", "write_note"}
        BY <1>1, <1>2, <2>3 DEF TypeInv, Writing
    <2> QED
        BY <2>1, <2>2, <2>3
<1>4. TypeInv'
    BY <1>1, <1>3 DEF TypeInv
<1>5. ASSUME NEW f \in Files PROVE Guarded(f)'
    <2>1. ~Writing(f)'
        BY <1>1 DEF Writing
    <2>2. OneSection(guide[f]) /\ UserLines(guide[f]) = mine'[f]
        <3>1. Guarded(f)
            BY DEF Inv
        <3> QED
            BY <1>3, <3>1, NoLines DEF Guarded
    <2> QED
        BY <1>1, <2>1, <2>2 DEF Guarded
<1> QED
    BY <1>1, <1>4, <1>5, EndedSilently DEF Inv

LEMMA FollowHintKeeps ==
    ASSUME Inv, FollowHint
    PROVE  Inv'
<1>1. UNCHANGED << servers, guide, settings, interp, version, mine >> /\ op = Idle /\ TypeInv
    BY DEF FollowHint, Inv
<1>2. \/ op' = Idle /\ said' = {}
      \/ Start("install", "user", "add")
      \/ Start("scan", "user", "scan")
      \/ /\ said' = {}
         /\ op' = [cmd |-> "uninstall", scope |-> "user", at |-> "remove", text |-> << >>, claims |-> {"clean"}]
    BY <1>1 DEF FollowHint, WatchRemove
<1>3. CASE op' = Idle /\ said' = {}
    <2>1. TypeInv'
        BY <1>1, <1>3 DEF TypeInv
    <2> QED
        BY <1>1, <1>3, <2>1, Meanwhile DEF Inv
<1>4. ASSUME \/ Start("install", "user", "add")
             \/ Start("scan", "user", "scan")
             \/ /\ said' = {}
                /\ op' = [cmd |-> "uninstall", scope |-> "user", at |-> "remove", text |-> << >>, claims |-> {"clean"}]
      PROVE  Inv'
    <2>1. /\ op' \in Ops /\ op' # Idle /\ said' = {} /\ op'.at \in {"add", "scan", "remove"}
          /\ op'.cmd # "uninstall" => op'.claims = {}
        <3>1. CASE Start("install", "user", "add")
            BY <3>1, StartMeans, Different DEF Commanded, Steps
        <3>2. CASE Start("scan", "user", "scan")
            BY <3>2, StartMeans, Different DEF Commanded, Steps
        <3>3. CASE /\ said' = {}
                   /\ op' = [cmd |-> "uninstall", scope |-> "user", at |-> "remove", text |-> << >>,
                             claims |-> {"clean"}]
            BY <3>3, NoLines, Different DEF Ops, Commanded, Steps, Claims, Idle
        <3> QED
            BY <1>4, <3>1, <3>2, <3>3
    <2>2. TypeInv'
        BY <1>1, <2>1 DEF TypeInv
    <2> QED
        BY <1>1, <2>1, <2>2, Started DEF Inv
<1> QED
    BY <1>2, <1>3, <1>4

LEMMA StutterKeeps ==
    ASSUME Inv, UNCHANGED vars
    PROVE  Inv'
BY DEF vars, Inv, TypeInv, Guarded, Writing, Truthful, Holds, Current, Installing, Removing

LEMMA NextKeeps == Inv /\ [Next]_vars => Inv'
<1> SUFFICES ASSUME Inv, [Next]_vars PROVE Inv'
    OBVIOUS
<1>1. CASE Step
    BY <1>1, AddServerKeeps, BootstrapConfigKeeps, OpenGuideKeeps, WriteGuideKeeps, OpenSettingsKeeps,
       MergeHooksKeeps, RemoveServerKeeps, CleanLegacyKeeps, ScrubLegacyKeeps, ScanKeeps, OpenNoteKeeps,
       WriteNoteKeeps, EnableWikiKeeps, WritePlistKeeps, BootstrapKeeps, BootoutKeeps, UnlinkKeeps
    DEF Step
<1>2. CASE Next /\ ~Step
    BY <1>2, CommandsKeep, ConfigurationKeeps, WriteLineKeeps, LoseEndKeeps, UpgradeKeeps, WorldKeeps,
       KillKeeps, FollowHintKeeps
    DEF Next
<1>3. CASE UNCHANGED vars
    BY <1>3, StutterKeeps
<1> QED
    BY <1>1, <1>2, <1>3

LEMMA Always == Spec => []Inv
BY InitInv, NextKeeps, PTL DEF Spec

----------------------------------------------------------------------------
\* The theorems.

LEMMA InvGuide == Inv => GuideKept
<1> SUFFICES ASSUME Inv, NEW f \in Files,
                    ~(op # Idle /\ ((op.at = "write" /\ FileOf(op.scope) = f) \/ (op.at = "write_note" /\ f = "cwd")))
             PROVE  /\ UserLines(guide[f]) = mine[f]
                    /\ \A i, j \in DOMAIN guide[f] :
                          guide[f][i] = guide[f][j] /\ guide[f][i] \in Lines \cup {"start"} => i = j
    BY DEF GuideKept
<1>1. Guarded(f) /\ ~Writing(f)
    BY DEF Inv, Writing
<1> QED
    BY <1>1 DEF Guarded, OneSection

\* Whatever installs, updates, scans and uninstalls of whatever scopes do to a CLAUDE.md, in whatever order and
\* killed wherever: between writes it holds the user's lines, once and in their order, and one managed section at
\* most (libs/mcp_ops/install.py, uninstall.py, commands/scan.py).  Lost are only the lines of a file that a kill
\* caught truncated, and the lines behind a section whose end marker an edit had removed.
THEOREM TheGuideIsKept == Spec => []GuideKept
BY Always, InvGuide, PTL

\* What install, setup, install-service and uninstall-service report as done is so when they report it and stays so
\* until the operator, an edit or another command changes it: for every set of scopes, any versions, any number of
\* kills, edits and refused calls (libs/mcp_ops/install.py, commands/setup.py,
\* commands/watch_cmd.py).
THEOREM WhatIsSaidIsSo == Spec => []WhatIsSaidHolds
<1>1. Inv => WhatIsSaidHolds
    BY DEF Inv, Truthful, Holds, Current, Marks, WhatIsSaidHolds
<1> QED
    BY <1>1, Always, PTL
=============================================================================
