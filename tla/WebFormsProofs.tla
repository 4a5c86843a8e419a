--------------------------- MODULE WebFormsProofs ----------------------------
(***************************************************************************)
(* Theorems about records on their way through forms, files and the        *)
(* collection, for any schema, any records and any texts.                  *)
(***************************************************************************)
EXTENDS WebForms, Basics

----------------------------------------------------------------------------
(* Texts and their words *)

LEMMA BlankIsText == Blank \in Text /\ \A w \in Words : <<w>> \in Text
BY WordsAssumption DEF Blank, Text

LEMMA FlatWords ==
    ASSUME NEW texts \in Seq(Text)
    PROVE  /\ FlattenSeq(texts) \in Seq(Words)
           /\ ToSet(FlattenSeq(texts)) = UNION {ToSet(texts[i]) : i \in DOMAIN texts}
<1>1. texts \in Seq(Seq(Words))
  <2> DEFINE S == Seq(Words)
  <2>1. Text \subseteq S
    BY DEF Text
  <2> HIDE DEF S
  <2>2. texts \in Seq(S)
    BY <2>1
  <2> QED
    BY <2>2 DEF S
<1> QED
  BY <1>1, JoinedSet

LEMMA FlatText ==
    ASSUME NEW texts \in Seq(Text), texts # <<>>
    PROVE  FlattenSeq(texts) \in Text
<1>2. /\ FlattenSeq(texts) \in Seq(Words)
      /\ ToSet(FlattenSeq(texts)) = UNION {ToSet(texts[i]) : i \in DOMAIN texts}
  BY FlatWords
<1>3. 1 \in DOMAIN texts /\ texts[1] \in Text
  OBVIOUS
<1>4. ToSet(texts[1]) # {}
  <2>1. texts[1] \in Seq(Words) /\ texts[1] # <<>>
    BY <1>3 DEF Text
  <2>2. 1 \in DOMAIN texts[1]
    BY <2>1
  <2> QED
    BY <2>2 DEF ToSet
<1>5. ToSet(FlattenSeq(texts)) # {}
  BY <1>2, <1>3, <1>4
<1>6. FlattenSeq(texts) # <<>>
  <2>1. ToSet(<<>>) = {}
    BY DEF ToSet
  <2> QED
    BY <1>5, <2>1
<1> QED
  BY <1>2, <1>6 DEF Text

\* the recursive function of the fold of Unique
IsUnique(seq, g) ==
    g = [s \in SUBSET DOMAIN seq |->
            IF s = {} THEN <<>>
            ELSE IF Contains(g[s \ {Max(s)}], seq[Max(s)]) THEN g[s \ {Max(s)}]
                 ELSE Append(g[s \ {Max(s)}], seq[Max(s)])]

LEMMA UniqueExists ==
    ASSUME NEW E, NEW seq \in Seq(E)
    PROVE  \E g \in [SUBSET DOMAIN seq -> Seq(E)] : IsUnique(seq, g)
<1> DEFINE F == [p \in Seq(E) \X E |-> IF Contains(p[1], p[2]) THEN p[1] ELSE Append(p[1], p[2])]
<1>1. F \in [Seq(E) \X E -> Seq(E)]
  OBVIOUS
<1>2. ASSUME NEW a \in Seq(E), NEW e \in E
      PROVE  F[a, e] = IF Contains(a, e) THEN a ELSE Append(a, e)
  OBVIOUS
<1> HIDE DEF F
<1>3. PICK h \in [SUBSET DOMAIN seq -> Seq(E)] : IsIter(F, <<>>, seq, h)
  <2> DEFINE A == Seq(E)
  <2>1. <<>> \in A
    OBVIOUS
  <2> HIDE DEF A
  <2>2. F \in [A \X E -> A]
    BY <1>1 DEF A
  <2>3. \E g \in [SUBSET DOMAIN seq -> A] : IsIter(F, <<>>, seq, g)
    BY <2>1, <2>2, IterExists
  <2> QED
    BY <2>3 DEF A
<1>4. ASSUME NEW s \in SUBSET DOMAIN seq, s # {}, NEW g \in [SUBSET DOMAIN seq -> Seq(E)]
      PROVE  F[g[s \ {Max(s)}], seq[Max(s)]] =
                IF Contains(g[s \ {Max(s)}], seq[Max(s)]) THEN g[s \ {Max(s)}]
                ELSE Append(g[s \ {Max(s)}], seq[Max(s)])
  <2>1. Max(s) \in s
    <3>1. Len(seq) \in Nat /\ s \in SUBSET (1..Len(seq))
      OBVIOUS
    <3> QED
      BY <1>4, <3>1, MaxOfRest
  <2>2. g[s \ {Max(s)}] \in Seq(E) /\ seq[Max(s)] \in E
    BY <2>1
  <2> QED
    BY <1>2, <2>2
<1> QED
  BY <1>3, <1>4 DEF IsUnique, IsIter

LEMMA UniqueSeq ==
    ASSUME NEW E, NEW seq \in Seq(E)
    PROVE  Unique(seq) \in Seq(E)
<1> DEFINE g == CHOOSE g : IsUnique(seq, g)
<1>1. Unique(seq) = g[DOMAIN seq]
  BY Zenon DEF Unique, FoldLeft, MapThenFoldSet, IsUnique
<1>2. IsUnique(seq, g)
  BY UniqueExists
<1> HIDE DEF g
<1> DEFINE A == Seq(E)
<1>3. g[{}] \in A
  <2>1. g[{}] = <<>>
    BY <1>2 DEF IsUnique
  <2> QED
    BY <2>1
<1>4. ASSUME NEW n \in Nat, n < Len(seq), g[1..n] \in A PROVE g[1..n + 1] \in A
  <2> DEFINE s == 1..n + 1
  <2>1. s \in SUBSET DOMAIN seq /\ n + 1 \in DOMAIN seq
    BY <1>4
  <2>2. s # {} /\ Max(s) = n + 1 /\ s \ {n + 1} = 1..n
    BY LastOfFirst
  <2> HIDE DEF s
  <2>3. g[s] = IF Contains(g[1..n], seq[n + 1]) THEN g[1..n] ELSE Append(g[1..n], seq[n + 1])
    BY <1>2, <2>1, <2>2 DEF IsUnique
  <2>4. seq[n + 1] \in E
    BY <2>1
  <2>5. Append(g[1..n], seq[n + 1]) \in A
    BY <1>4, <2>4
  <2> QED
    BY <1>4, <2>3, <2>5 DEF s
<1> HIDE DEF A
<1>5. g[DOMAIN seq] \in A
  BY <1>3, <1>4, FoldInduction
<1> QED
  BY <1>1, <1>5 DEF A

\* the recursive function of the fold of WithCommas
IsCommas(base, seq, g) ==
    g = [s \in SUBSET DOMAIN seq |->
            IF s = {} THEN base ELSE g[s \ {Max(s)}] \o <<Comma>> \o seq[Max(s)]]

LEMMA CommasExist ==
    ASSUME NEW base \in Text, NEW seq \in Seq(Text)
    PROVE  \E g \in [SUBSET DOMAIN seq -> Text] : IsCommas(base, seq, g)
<1>1. ASSUME NEW a \in Text, NEW t \in Text PROVE a \o <<Comma>> \o t \in Text
  <2>1. Comma \in Words
    BY WordsAssumption
  <2> QED
    BY <1>1, <2>1 DEF Text
<1> DEFINE F == [p \in Text \X Text |-> p[1] \o <<Comma>> \o p[2]]
<1>2. F \in [Text \X Text -> Text]
  BY <1>1
<1>3. ASSUME NEW a \in Text, NEW t \in Text PROVE F[a, t] = a \o <<Comma>> \o t
  OBVIOUS
<1> HIDE DEF F
<1>4. PICK g \in [SUBSET DOMAIN seq -> Text] : IsIter(F, base, seq, g)
  BY <1>2, IterExists
<1>5. ASSUME NEW s \in SUBSET DOMAIN seq, s # {}
      PROVE  F[g[s \ {Max(s)}], seq[Max(s)]] = g[s \ {Max(s)}] \o <<Comma>> \o seq[Max(s)]
  <2>1. Max(s) \in s
    <3>1. Len(seq) \in Nat /\ s \in SUBSET (1..Len(seq))
      OBVIOUS
    <3> QED
      BY <1>5, <3>1, MaxOfRest
  <2>2. g[s \ {Max(s)}] \in Text /\ seq[Max(s)] \in Text
    BY <2>1
  <2> QED
    BY <1>3, <2>2
<1> QED
  BY <1>4, <1>5 DEF IsCommas, IsIter

LEMMA CommasText ==
    ASSUME NEW texts \in Seq(Text)
    PROVE  WithCommas(texts) \in Text
<1>1. CASE texts = <<>>
  BY <1>1, BlankIsText DEF WithCommas
<1>2. CASE texts # <<>>
  <2> DEFINE base == Head(texts)
             seq == Tail(texts)
             g == CHOOSE g : IsCommas(base, seq, g)
  <2>1. base \in Text /\ seq \in Seq(Text)
    BY <1>2
  <2>2. WithCommas(texts) = g[DOMAIN seq]
    BY <1>2, Zenon DEF WithCommas, FoldLeft, MapThenFoldSet, IsCommas
  <2> HIDE DEF base, seq
  <2>3. IsCommas(base, seq, g)
    BY <2>1, CommasExist
  <2> HIDE DEF g
  <2>4. g[{}] \in Text
    <3>1. g[{}] = base
      BY <2>3 DEF IsCommas
    <3> QED
      BY <2>1, <3>1
  <2>5. ASSUME NEW n \in Nat, n < Len(seq), g[1..n] \in Text PROVE g[1..n + 1] \in Text
    <3> DEFINE s == 1..n + 1
    <3>1. s \in SUBSET DOMAIN seq /\ n + 1 \in DOMAIN seq
      BY <2>1, <2>5
    <3>2. s # {} /\ Max(s) = n + 1 /\ s \ {n + 1} = 1..n
      BY LastOfFirst
    <3> HIDE DEF s
    <3>3. g[s] = g[1..n] \o <<Comma>> \o seq[n + 1]
      BY <2>3, <3>1, <3>2 DEF IsCommas
    <3>4. seq[n + 1] \in Text /\ Comma \in Words
      BY <2>1, <3>1, WordsAssumption
    <3>5. g[1..n] \o <<Comma>> \o seq[n + 1] \in Text
      BY <2>5, <3>4 DEF Text
    <3> QED
      BY <3>3, <3>5 DEF s
  <2> QED
    BY <2>1, <2>2, <2>4, <2>5, FoldInduction
<1> QED
  BY <1>1, <1>2
\* Stripping brackets keeps the words in their places, and those without any
\* as they are.
LEMMA StrippedWords ==
    ASSUME NEW t \in Text
    PROVE  /\ Stripped(t) \in Text
           /\ (\A i \in DOMAIN t : Strip[t[i]] = t[i]) => Stripped(t) = t
<1> DEFINE n == Len(t)
           u == Stripped(t)
<1>1. t \in Seq(Words) /\ n \in Nat \ {0} /\ DOMAIN t = 1..n /\ t = [i \in 1..n |-> t[i]]
  BY DEF Text
<1>2. \A i \in 1..n : t[i] \in Words /\ Strip[t[i]] \in Words
  BY <1>1, WordsAssumption
<1>3. u = [i \in 1..n |-> Strip[t[i]]]
  BY <1>1 DEF Stripped
<1>4. u \in Seq(Words) /\ Len(u) = n
  BY <1>1, <1>2, <1>3
<1>5. (\A i \in DOMAIN t : Strip[t[i]] = t[i]) => u = t
  BY <1>1, <1>3
<1> HIDE DEF u
<1>6. u # <<>>
  BY <1>1, <1>4
<1> QED
  BY <1>4, <1>5, <1>6 DEF Text, u

----------------------------------------------------------------------------
(* What a form shows *)

\* what a form can be filled from
Source(from) == from = None \/ JsonRecord(from)

LEMMA DefaultText ==
    ASSUME NEW k \in Keys, NEW rec, JsonRecord(rec)
    PROVE  Default(rec, k) \in Text
<1>1. CASE k \notin DOMAIN rec
  BY <1>1, BlankIsText DEF Default
<1>2. CASE k \in DOMAIN rec
  <2> DEFINE val == rec[k]
  <2>1. IsJson(val)
    BY <1>2 DEF JsonRecord
  <2>2. Default(rec, k) = CASE val.type \in Lists /\ val.v = <<>> -> Blank
                            [] val.type \in Lists /\ val.v # <<>> -> Stripped(FlattenSeq(val.v))
                            [] val.type = "string"  -> Stripped(val.v)
                            [] OTHER                -> <<val.v>>
    BY <1>2 DEF Default
  <2> HIDE DEF val
  <2>3. CASE val.type = "string"
    <3>1. val.v \in Text /\ Default(rec, k) = Stripped(val.v)
      BY <2>1, <2>2, <2>3 DEF IsJson, Lists
    <3> QED
      BY <3>1, StrippedWords
  <2>4. CASE val.type \in {"bool", "float64"}
    <3>1. val.v \in Words
      BY <2>1, <2>4, WordsAssumption DEF IsJson
    <3>2. Default(rec, k) = <<val.v>>
      BY <2>2, <2>4 DEF Lists
    <3> QED
      BY <3>1, <3>2, BlankIsText
  <2>5. CASE val.type = "[]any"
    <3>1. val.v \in Seq(Text)
      BY <2>1, <2>5 DEF IsJson
    <3>2. val.type \in Lists
      BY <2>5 DEF Lists
    <3>3. CASE val.v = <<>>
      BY <2>2, <2>5, <3>2, <3>3, BlankIsText
    <3>4. CASE val.v # <<>>
      <4>1. Default(rec, k) = Stripped(FlattenSeq(val.v))
        BY <2>2, <2>5, <3>2, <3>4
      <4> QED
        BY <3>1, <3>4, <4>1, FlatText, StrippedWords
    <3> QED
      BY <3>3, <3>4
  <2> QED
    BY <2>1, <2>3, <2>4, <2>5 DEF IsJson
<1> QED
  BY <1>1, <1>2

\* what is shown is a choice the user has, or nothing, and all of it is text
Fits(w) == w.choices \subseteq Seq(Text) /\ w.items \in w.choices \cup {<<>>}

LEMMA InputFits ==
    ASSUME NEW k \in Keys, NEW t \in Text
    PROVE  Fits([items |-> <<t>>, choices |-> {<<u>> : u \in Typed[k] \cup {t}}])
<1>1. Typed[k] \subseteq Text
  BY DefAssumption
<1>2. ASSUME NEW u \in Text PROVE <<u>> \in Seq(Text)
  <2> DEFINE S == Text
  <2> HIDE DEF S
  <2>1. u \in S => <<u>> \in Seq(S)
    OBVIOUS
  <2> QED
    BY <2>1 DEF S
<1> QED
  BY <1>1, <1>2 DEF Fits

\* the list of the one element it begins with
LEMMA KeepHead ==
    ASSUME NEW E, NEW seq \in Seq(E), seq # <<>>, \A i \in 2..Len(seq) : seq[i] # seq[1]
    PROVE  Keep(seq, {seq[1]}) = <<seq[1]>>
<1> USE DEF IsKept
<1> DEFINE S == {seq[1]}
<1>1. PICK r \in [0..Len(seq) -> Seq(E)] : IsKept(seq, S, r)
  <2> HIDE DEF IsKept, S
  <2> QED
    BY KeepSteps
<1>2. Len(seq) \in Nat \ {0}
  OBVIOUS
<1> DEFINE T == {n \in Nat : n # 0 /\ n <= Len(seq) => r[n] = <<seq[1]>>}
<1>3. 0 \in T
  OBVIOUS
<1>4. ASSUME NEW n \in Nat, n \in T PROVE n + 1 \in T
  <2>1. SUFFICES ASSUME n + 1 <= Len(seq) PROVE r[n + 1] = <<seq[1]>>
    OBVIOUS
  <2>2. n < Len(seq)
    BY <2>1
  <2>3. r[n + 1] = IF seq[n + 1] \in S THEN Append(r[n], seq[n + 1]) ELSE r[n]
    BY <1>1, <2>2
  <2>4. CASE n = 0
    <3>1. r[n] = <<>> /\ n + 1 = 1
      BY <1>1, <2>4
    <3> QED
      BY <2>3, <3>1
  <2>5. CASE n # 0
    <3>1. r[n] = <<seq[1]>> /\ n + 1 \in 2..Len(seq)
      BY <1>4, <2>1, <2>2, <2>5
    <3> QED
      BY <2>3, <3>1
  <2> QED
    BY <2>4, <2>5
<1>5. Nat \subseteq T
  <2> HIDE DEF T
  <2> QED
    BY <1>3, <1>4, Counting
<1>6. r[Len(seq)] = <<seq[1]>>
  BY <1>2, <1>5
<1>7. Keep(seq, S) = r[Len(seq)]
  BY <1>1
<1> QED
  BY <1>6, <1>7

LEMMA OnlyFirst ==
    ASSUME NEW E, NEW seq \in Seq(E), seq # <<>>
    PROVE  SubSeq(seq, 1, 1) = <<seq[1]>> /\ 1 \in DOMAIN seq
<1> DEFINE s == SubSeq(seq, 1, 1)
<1>1. 1 \in DOMAIN seq /\ Len(seq) \in Nat /\ 1 <= Len(seq)
  OBVIOUS
<1>2. s \in Seq(E) /\ Len(s) = 1 /\ s[1] = seq[1]
  BY <1>1
<1> HIDE DEF s
<1>3. s = <<seq[1]>>
  BY <1>2
<1> QED
  BY <1>1, <1>3 DEF s

LEMMA SelectFits ==
    ASSUME NEW options \in Seq(Text), NEW selected, NEW multiple \in BOOLEAN,
           \/ selected = <<>>
           \/ /\ options # <<>> /\ selected = <<options[1]>>
              /\ \A i \in 2..Len(options) : options[i] # options[1]
    PROVE  Fits(Select(selected, options, multiple))
<1> DEFINE w == Select(selected, options, multiple)
           Chosen == {Keep(options, S) : S \in SUBSET ToSet(options)}
           Single == {<<options[i]>> : i \in DOMAIN options}
<1>1. /\ w.choices = IF multiple THEN Chosen ELSE Single
      /\ w.items = IF selected # <<>> \/ multiple THEN selected ELSE SubSeq(options, 1, 1)
  BY DEF Select
<1>2. Chosen \subseteq Seq(Text)
  BY KeepSet
<1>3. Single \subseteq Seq(Text)
  <2> DEFINE E == Text
  <2>1. options \in Seq(E)
    OBVIOUS
  <2> HIDE DEF E
  <2>2. \A i \in DOMAIN options : <<options[i]>> \in Seq(E)
    BY <2>1
  <2> QED
    BY <2>2 DEF E
<1>4. CASE multiple /\ selected # <<>>
  <2> DEFINE o == options[1]
  <2>1. Keep(options, {o}) = <<o>>
    BY <1>4, KeepHead
  <2>2. {o} \in SUBSET ToSet(options)
    <3>1. 1 \in DOMAIN options
      BY <1>4
    <3> QED
      BY <3>1 DEF ToSet
  <2>3. <<o>> \in Chosen
    BY <2>1, <2>2
  <2> QED
    BY <1>1, <1>2, <1>4, <2>3 DEF Fits
<1>5. CASE multiple /\ selected = <<>>
  BY <1>1, <1>2, <1>5 DEF Fits
<1>6. CASE ~multiple /\ selected # <<>>
  <2>1. 1 \in DOMAIN options /\ selected = <<options[1]>>
    BY <1>6
  <2> QED
    BY <1>1, <1>3, <1>6, <2>1 DEF Fits
<1>7. CASE ~multiple /\ selected = <<>>
  <2>1. w.items = SubSeq(options, 1, 1)
    BY <1>1, <1>7
  <2>2. CASE options = <<>>
    <3>1. SubSeq(options, 1, 1) = <<>>
      BY <2>2
    <3> QED
      BY <1>1, <1>3, <1>7, <3>1 DEF Fits
  <2>3. CASE options # <<>>
    <3>1. 1 \in DOMAIN options /\ SubSeq(options, 1, 1) = <<options[1]>>
      BY <2>3, OnlyFirst
    <3> QED
      BY <1>1, <1>3, <1>7, <3>1 DEF Fits
  <2> QED
    BY <2>2, <2>3
<1> QED
  BY <1>4, <1>5, <1>6, <1>7

LEMMA OptionsFit ==
    ASSUME NEW k \in Keys, Def[k].values # None, NEW default \in Text
    PROVE  LET vals == Keep(Unique(Def[k].values), ToSet(Def[k].values) \ {Blank, default})
           IN  Fits(Select(NonBlank(default), NonBlank(default) \o vals, Def[k].multiple))
<1> DEFINE S == ToSet(Def[k].values) \ {Blank, default}
           vals == Keep(Unique(Def[k].values), S)
           options == NonBlank(default) \o vals
<1>1. Def[k].values \in Seq(Text) /\ Def[k].multiple \in BOOLEAN
  BY DefAssumption
<1>2. Unique(Def[k].values) \in Seq(Text)
  BY <1>1, UniqueSeq
<1>3. vals \in Seq(Text) /\ ToSet(vals) \subseteq S
  BY <1>2, KeepSet
<1>4. \A i \in DOMAIN vals : vals[i] # default
  BY <1>3 DEF ToSet
<1> HIDE DEF S, vals
<1>5. CASE default = Blank
  <2>1. NonBlank(default) = <<>> /\ options = vals
    BY <1>3, <1>5 DEF NonBlank
  <2> HIDE DEF options
  <2>2. Fits(Select(<<>>, options, Def[k].multiple))
    BY <1>1, <1>3, <2>1, SelectFits
  <2> QED
    BY <2>1, <2>2 DEF options, vals, S
<1>6. CASE default # Blank
  <2>1. NonBlank(default) = <<default>>
    BY <1>6 DEF NonBlank
  <2>2. /\ options \in Seq(Text) /\ options # <<>> /\ options[1] = default
        /\ \A i \in 2..Len(options) : options[i] # options[1]
    <3> DEFINE E == Text
               o == <<default>> \o vals
    <3>1. options = o /\ default \in E /\ vals \in Seq(E)
      BY <1>3, <2>1
    <3> HIDE DEF E, options
    <3>2. o \in Seq(E) /\ o # <<>> /\ o[1] = default /\ Len(o) = Len(vals) + 1
      BY <3>1
    <3>3. \A i \in 2..Len(o) : o[i] = vals[i - 1] /\ i - 1 \in DOMAIN vals
      BY <3>1, <3>2
    <3>4. \A i \in 2..Len(o) : o[i] # o[1]
      BY <1>4, <3>2, <3>3
    <3> QED
      BY <3>1, <3>2, <3>4 DEF E
  <2> HIDE DEF options
  <2>3. Fits(Select(<<default>>, options, Def[k].multiple))
    BY <1>1, <2>2, SelectFits
  <2> QED
    BY <2>1, <2>3 DEF options, vals, S
<1> QED
  BY <1>5, <1>6

LEMMA WidgetFits ==
    ASSUME NEW k \in Keys, NEW default \in Text
    PROVE  Fits(Widget(k, default))
<1> DEFINE def == Def[k]
           Input(t) == [items |-> <<t>>, choices |-> {<<u>> : u \in Typed[k] \cup {t}}]
<1>1. def.multiple \in BOOLEAN /\ def.type \in {"string", "bool", "int64", "float64", "list_str", "list_float"}
  BY DefAssumption
<1>2. CASE def.type = "list_str" /\ def.values = None
  <2>1. Fits(Select(<<>>, <<>>, def.multiple))
    <3>1. <<>> \in Seq(Text)
      OBVIOUS
    <3> QED
      BY <1>1, <3>1, SelectFits
  <2>2. Widget(k, default) = Select(<<>>, <<>>, def.multiple)
    BY <1>2 DEF Widget
  <2> QED
    BY <2>1, <2>2
<1>3. CASE def.type = "list_str" /\ def.values # None
  <2> DEFINE vals == Keep(Unique(def.values), ToSet(def.values) \ {Blank, default})
  <2>1. Widget(k, default) = Select(NonBlank(default), NonBlank(default) \o vals, def.multiple)
    BY <1>3 DEF Widget
  <2> QED
    BY <1>3, <2>1, OptionsFit
<1>4. CASE def.type = "bool"
  <2> DEFINE no == <<"false">>
             yes == <<"true">>
             blank == <<Blank, no, yes>>
             two == IF default = yes THEN <<yes, no>> ELSE <<no, yes>>
  <2>1. no \in Text /\ yes \in Text /\ Blank \in Text
    <3>1. "true" \in Words /\ "false" \in Words
      BY WordsAssumption
    <3> QED
      BY <3>1, BlankIsText
  <2>2. Widget(k, default) = IF default = Blank THEN Select(<<>>, blank, def.multiple)
                             ELSE Select(<<>>, two, def.multiple)
    BY <1>4 DEF Widget
  <2>3. blank \in Seq(Text) /\ two \in Seq(Text)
    <3> DEFINE E == Text
    <3>1. \A a, b, c \in E : <<a, b, c>> \in Seq(E) /\ <<a, b>> \in Seq(E)
      <4> HIDE DEF E
      <4> QED
        OBVIOUS
    <3> HIDE DEF no, yes, E
    <3> QED
      BY <2>1, <3>1 DEF E
  <2> HIDE DEF blank, two
  <2> QED
    BY <1>1, <2>2, <2>3, SelectFits
<1>5. CASE def.type \notin {"list_str", "bool"}
  <2>1. \E t \in Text : Widget(k, default) = Input(t)
    <3> DEFINE all == WithCommas(Unique(NonBlank(default) \o def.values))
    <3>1. Widget(k, default) = IF def.values # None THEN Input(all)
                               ELSE IF default = Blank /\ def.single # None THEN Input(def.single)
                               ELSE Input(default)
      BY <1>5 DEF Widget
    <3>2. def.single # None => def.single \in Text
      BY DefAssumption
    <3>3. ASSUME def.values # None PROVE all \in Text
      <4>1. def.values \in Seq(Text)
        BY <3>3, DefAssumption
      <4>2. NonBlank(default) \in Seq(Text)
        <5> DEFINE E == Text
        <5>1. <<>> \in Seq(E) /\ \A t \in E : <<t>> \in Seq(E)
          <6> HIDE DEF E
          <6> QED
            OBVIOUS
        <5> HIDE DEF E
        <5> QED
          BY <5>1 DEF NonBlank, E
      <4> DEFINE both == NonBlank(default) \o def.values
      <4>3. both \in Seq(Text)
        <5> HIDE DEF def
        <5> QED
          BY <4>1, <4>2
      <4> HIDE DEF both
      <4>4. WithCommas(Unique(both)) \in Text
        BY <4>3, UniqueSeq, CommasText
      <4> QED
        BY <4>4 DEF both
    <3> HIDE DEF all, Input
    <3> QED
      BY <3>1, <3>2, <3>3
  <2> QED
    BY <2>1, InputFits
<1> QED
  BY <1>2, <1>3, <1>4, <1>5

LEMMA EntryFits ==
    ASSUME NEW k \in Keys, NEW from, Source(from)
    PROVE  Fits(Entry(k, from))
<1> DEFINE rec == IF from = None THEN Empty ELSE from
<1>1. JsonRecord(rec)
  BY DEF Source, JsonRecord, Empty
<1> HIDE DEF rec
<1>2. Fits(Widget(k, Default(rec, k)))
  BY <1>1, DefaultText, WidgetFits
<1> QED
  BY <1>2 DEF Entry, rec

----------------------------------------------------------------------------
(* The Go values of records *)

GoValue(val) ==
    /\ val = Val(val.type, val.v)
    /\ CASE val.type = "string"  -> val.v \in Text
         [] val.type = "bool"    -> val.v \in {"true", "false"}
         [] val.type = "int"     -> val.v = "0"
         [] val.type = "int64"   -> val.v \in Ints
         [] val.type = "float64" -> val.v \in Floats /\ Sprint[val.v] = val.v
         [] val.type \in Lists   -> val.v \in Seq(Text)
         [] OTHER                -> FALSE

\* parseValue returns the int 0 for an int64 only
Made(k, val) == GoValue(val) /\ (val.type = "int" => Def[k].type = "int64")
GoRecord(rec) == DOMAIN rec \subseteq Keys /\ \A k \in DOMAIN rec : Made(k, rec[k])

LEMMA GoTypes ==
    ASSUME NEW val, GoValue(val)
    PROVE  /\ val.type \in {"string", "bool", "int", "int64", "float64"} \cup Lists
           /\ val.type = "float64" => val.v \in Floats
           /\ val.type = "int64" => val.v \in Ints
           /\ val.type = "int" => val.v = "0"
           /\ val.type \in Lists => val.v \in Seq(Text)
BY DEF GoValue, Lists

\* the types that ValidType admits
LEMMA ValidTypes ==
    ASSUME NEW type, NEW val, ValidType(type, val)
    PROVE  /\ type \in {"string", "bool"} => val.type = type
           /\ type = "float64" => val.type \in {"float64", "int"}
           /\ type = "int64" => val.type = "int64" \/ Zero(val) \/ (val.type = "float64" /\ val.v \notin Dotted)
           /\ type = "list_float" => val.type \in Lists \cup {"list_float"} \/ Zero(val)
           /\ type = "list_str" => val.type \in {"[]string", "[]any", "list_str"}
<1>1. type \in {"string", "bool"} => val.type = type
  BY DEF ValidType
<1>2. type = "float64" => val.type \in {"float64", "int"}
  BY DEF ValidType, Zero
<1>3. type = "int64" => val.type = "int64" \/ Zero(val) \/ (val.type = "float64" /\ val.v \notin Dotted)
  BY DEF ValidType
<1>4. type = "list_float" => val.type \in Lists \cup {"list_float"} \/ Zero(val)
  BY DEF ValidType, Lists
<1>5. type = "list_str" => val.type \in {"[]string", "[]any", "list_str"}
  BY DEF ValidType
<1> QED
  BY <1>1, <1>2, <1>3, <1>4, <1>5

LEMMA JsonIsGo ==
    ASSUME NEW rec, JsonRecord(rec)
    PROVE  GoRecord(rec)
<1>1. ASSUME NEW val, IsJson(val) PROVE GoValue(val) /\ val.type # "int"
  BY <1>1 DEF IsJson, GoValue, Lists
<1> QED
  BY <1>1 DEF JsonRecord, GoRecord, Made

LEMMA AsJsonIsJson ==
    ASSUME NEW rec, GoRecord(rec)
    PROVE  /\ JsonRecord(AsJson(rec)) /\ DOMAIN AsJson(rec) = DOMAIN rec
           /\ \A k \in DOMAIN rec :
                 AsJson(rec)[k] = IF rec[k].type \in Lists THEN Val("[]any", rec[k].v)
                                  ELSE IF rec[k].type \in {"int", "int64"} THEN Val("float64", Sprint[rec[k].v])
                                  ELSE rec[k]
<1> DEFINE json == AsJson(rec)
<1>1. DOMAIN json = DOMAIN rec
  BY DEF AsJson
<1>2. ASSUME NEW k \in DOMAIN rec
      PROVE  /\ json[k] = IF rec[k].type \in Lists THEN Val("[]any", rec[k].v)
                          ELSE IF rec[k].type \in {"int", "int64"} THEN Val("float64", Sprint[rec[k].v])
                          ELSE rec[k]
             /\ IsJson(json[k])
  <2> DEFINE val == rec[k]
  <2>1. GoValue(val)
    BY DEF GoRecord, Made
  <2>2. json[k] = CASE val.type \in Lists -> Val("[]any", val.v)
                    [] val.type \in {"int", "int64"} -> Val("float64", Sprint[val.v])
                    [] OTHER -> val
    BY DEF AsJson
  <2> HIDE DEF val, json
  <2>3. CASE val.type \in Lists
    <3>1. val.type \notin {"int", "int64", "string", "bool", "float64"}
      BY <2>3 DEF Lists
    <3>2. json[k] = Val("[]any", val.v) /\ val.v \in Seq(Text)
      BY <2>1, <2>2, <2>3, <3>1 DEF GoValue
    <3> QED
      BY <2>3, <3>2 DEF val, IsJson, Val
  <2>4. CASE val.type \in {"int", "int64"}
    <3>1. val.type \notin Lists
      BY <2>4 DEF Lists
    <3>2. json[k] = Val("float64", Sprint[val.v]) /\ val.v \in Floats
      BY <2>1, <2>2, <2>4, <3>1, WordsAssumption DEF GoValue
    <3>3. Sprint[val.v] \in Floats /\ Sprint[Sprint[val.v]] = Sprint[val.v]
      BY <3>2, WordsAssumption
    <3> QED
      BY <2>4, <3>1, <3>2, <3>3 DEF val, IsJson, Val
  <2>5. CASE val.type \notin Lists /\ val.type \notin {"int", "int64"}
    <3>1. json[k] = val
      BY <2>2, <2>5
    <3>2. IsJson(val)
      BY <2>1, <2>5 DEF GoValue, IsJson
    <3> QED
      BY <2>5, <3>1, <3>2 DEF val
  <2> QED
    BY <2>3, <2>4, <2>5
<1>3. JsonRecord(json)
  BY <1>1, <1>2 DEF JsonRecord, GoRecord
<1> QED
  BY <1>1, <1>2, <1>3

LEMMA ParsedIsMade ==
    ASSUME NEW k \in Keys, NEW items \in Seq(Text), items # <<>>
    PROVE  Made(k, ParseValue(Def[k].type, items).val)
<1> DEFINE type == Def[k].type
           first == items[1]
           IsWord(S) == Len(first) = 1 /\ first[1] \in S
           words == FlattenSeq(items)
           numbers == [i \in DOMAIN words |-> <<Near[words[i]]>>]
           result == ParseValue(type, items)
<1>1. type \in {"string", "bool", "int64", "float64", "list_str", "list_float"}
  BY DefAssumption
<1>2. first \in Text
  OBVIOUS
<1>3. words \in Seq(Words)
  <2>1. words \in Text
    BY FlatText
  <2> QED
    BY <2>1 DEF Text
<1>4. CASE type = "list_str"
  <2>1. result.val = Val("[]string", items)
    BY <1>4 DEF ParseValue, Parsed
  <2> HIDE DEF result
  <2> QED
    BY <1>4, <2>1 DEF Made, GoValue, Val, Lists, result
<1>5. CASE type = "list_float"
  <2>1. CASE ToSet(words) \subseteq Floats
    <3>1. result.val = Val("[]float64", numbers)
      BY <1>5, <2>1 DEF ParseValue, Parsed
    <3>2. numbers \in Seq(Text)
      <4>1. ASSUME NEW i \in DOMAIN words PROVE <<Near[words[i]]>> \in Text
        <5>1. words[i] \in Floats
          BY <2>1 DEF ToSet
        <5>2. Near[words[i]] \in Words
          BY <5>1, WordsAssumption
        <5> QED
          BY <5>2, BlankIsText
      <4> DEFINE n == Len(words)
      <4>2. n \in Nat /\ DOMAIN words = 1..n
        BY <1>3
      <4> HIDE DEF words, n
      <4>3. numbers = [i \in 1..n |-> numbers[i]] /\ \A i \in 1..n : numbers[i] \in Text
        BY <4>1, <4>2
      <4> HIDE DEF numbers
      <4> QED
        BY <4>2, <4>3, Beginning
    <3> HIDE DEF result, numbers
    <3> QED
      BY <3>1, <3>2 DEF Made, GoValue, Val, Lists, result
  <2>2. CASE ~(ToSet(words) \subseteq Floats)
    <3>1. result.val = Val("[]string", items)
      BY <1>5, <2>2 DEF ParseValue, Failed
    <3> HIDE DEF result
    <3> QED
      BY <3>1 DEF Made, GoValue, Val, Lists, result
  <2> QED
    BY <2>1, <2>2
<1>6. CASE type = "string"
  <2>1. result.val = Val("string", first)
    BY <1>6 DEF ParseValue, Parsed
  <2> HIDE DEF result
  <2> QED
    BY <1>2, <1>6, <2>1 DEF Made, GoValue, Val, Lists, result
<1>7. CASE type = "bool"
  <2>1. result.val = Val("bool", "true") \/ result.val = Val("bool", "false")
    <3> HIDE DEF first, words, numbers
    <3>1. result = IF IsWord(Truths) THEN Parsed(Val("bool", "true"))
                   ELSE IF IsWord(Falsehoods) THEN Parsed(Val("bool", "false"))
                   ELSE Failed(Val("bool", "false"))
      BY <1>7 DEF ParseValue, first
    <3> HIDE DEF result
    <3> QED
      BY <3>1 DEF Parsed, Failed
  <2> HIDE DEF result
  <2> QED
    BY <1>7, <2>1 DEF Made, GoValue, Val, Lists, result
<1>8. CASE type = "int64"
  <2>1. result.val = IF IsWord(Ints) THEN Val("int64", first[1]) ELSE Val("int", "0")
    BY <1>8 DEF ParseValue, Parsed, Failed
  <2> HIDE DEF result
  <2> QED
    BY <1>8, <2>1 DEF Made, GoValue, Val, Lists, result
<1>9. CASE type = "float64"
  <2>1. result.val = IF IsWord(Floats) THEN Val("float64", Sprint[first[1]]) ELSE Val("float64", "0")
    BY <1>9 DEF ParseValue, Parsed, Failed
  <2> HIDE DEF result
  <2> QED
    BY <1>9, <2>1, WordsAssumption DEF Made, GoValue, Val, Lists, result
<1> QED
  BY <1>1, <1>4, <1>5, <1>6, <1>7, <1>8, <1>9

\* what processForm makes of a form
LEMMA Processed ==
    ASSUME NEW items, DOMAIN items = Keys, \A k \in Keys : items[k] \in Seq(Text)
    PROVE  LET result == ProcessForm(Posted(items))
               posted == {k \in Keys : items[k] # <<>>}
           IN  /\ GoRecord(result.rec) /\ DOMAIN result.rec = posted
               /\ \A k \in posted : result.rec[k] = ParseValue(Def[k].type, items[k]).val
               /\ result.ok = \A k \in posted : ParseValue(Def[k].type, items[k]).ok \/ Def[k].optional
<1> DEFINE fields == Posted(items)
           posted == {k \in Keys : items[k] # <<>>}
           value == [k \in DOMAIN fields \cap Keys |-> ParseValue(Def[k].type, fields[k])]
           result == ProcessForm(fields)
<1>1. DOMAIN fields = posted /\ \A k \in posted : fields[k] = items[k]
  BY DEF Posted
<1>2. /\ result.ok = (DOMAIN fields \subseteq Keys /\ \A k \in DOMAIN value : value[k].ok \/ Def[k].optional)
      /\ result.rec = [k \in DOMAIN value |-> value[k].val]
  BY DEF ProcessForm
<1>3. DOMAIN value = posted /\ \A k \in posted : value[k] = ParseValue(Def[k].type, items[k])
  BY <1>1
<1> HIDE DEF fields, value, result
<1>4. DOMAIN fields \subseteq Keys /\ posted \subseteq Keys
  BY <1>1
<1>5. DOMAIN result.rec = posted /\ \A k \in posted : result.rec[k] = ParseValue(Def[k].type, items[k]).val
  BY <1>2, <1>3
<1>6. GoRecord(result.rec)
  BY <1>5, ParsedIsMade DEF GoRecord
<1>7. result.ok = \A k \in posted : ParseValue(Def[k].type, items[k]).ok \/ Def[k].optional
  BY <1>2, <1>3, <1>4
<1> QED
  BY <1>5, <1>6, <1>7 DEF result, fields

----------------------------------------------------------------------------
(* Validation *)

\* Where each listed value is listed once, there are as many matches as
\* pieces exactly when every piece is listed.
Matches(pieces, values) == {m \in (DOMAIN pieces) \X (DOMAIN values) : pieces[m[1]] = values[m[2]]}

LEMMA MatchesCount ==
    ASSUME NEW E, NEW pieces \in Seq(E), NEW values \in Seq(E), IsInjective(values)
    PROVE  (Cardinality(Matches(pieces, values)) = Len(pieces)) <=> \A i \in DOMAIN pieces : pieces[i] \in ToSet(values)
<1> DEFINE n == Len(pieces)
           I == 1..n
           M == Matches(pieces, values)
           f == [m \in M |-> m[1]]
<1>1. n \in Nat /\ DOMAIN pieces = I
  OBVIOUS
<1>2. \A m \in M : m = <<m[1], m[2]>> /\ m[1] \in I /\ m[2] \in DOMAIN values /\ pieces[m[1]] = values[m[2]]
  BY <1>1 DEF Matches
<1>3. \A i \in I, j \in DOMAIN values : pieces[i] = values[j] => <<i, j>> \in M
  BY <1>1 DEF Matches
<1> HIDE DEF M
<1>4. f \in Injection(M, I)
  <2>1. ASSUME NEW a \in M, NEW b \in M, f[a] = f[b] PROVE a = b
    <3>1. a[1] = b[1]
      BY <2>1
    <3>2. a[2] = b[2]
      BY <1>2, <3>1 DEF IsInjective
    <3> QED
      BY <1>2, <3>1, <3>2
  <2>2. f \in [M -> I]
    BY <1>2
  <2>3. IsInjective(f)
    BY <2>1 DEF IsInjective
  <2> HIDE DEF f
  <2> QED
    BY <2>2, <2>3 DEF Injection
<1>5. IsFiniteSet(I) /\ Cardinality(I) = n
  <2> HIDE DEF n
  <2>1. IsFiniteSet(1..n) /\ Cardinality(1..n) = IF 1 > n THEN 0 ELSE n - 1 + 1
    BY <1>1, FS_Interval
  <2> QED
    BY <1>1, <2>1
<1>6. f \in Surjection(M, I) <=> \A i \in DOMAIN pieces : pieces[i] \in ToSet(values)
  <2>1. f \in [M -> I]
    BY <1>2
  <2>2. f \in Surjection(M, I) <=> \A i \in I : \E m \in M : m[1] = i
    BY <2>1 DEF Surjection
  <2>3. ASSUME NEW i \in I PROVE (\E m \in M : m[1] = i) <=> pieces[i] \in ToSet(values)
    <3>1. ASSUME NEW m \in M, m[1] = i PROVE pieces[i] \in ToSet(values)
      BY <1>2, <3>1 DEF ToSet
    <3>2. ASSUME pieces[i] \in ToSet(values) PROVE \E m \in M : m[1] = i
      <4>1. PICK j \in DOMAIN values : pieces[i] = values[j]
        BY <3>2 DEF ToSet
      <4>2. <<i, j>> \in M /\ <<i, j>>[1] = i
        BY <1>3, <4>1
      <4> QED
        BY <4>2
    <3> QED
      BY <3>1, <3>2
  <2> HIDE DEF f
  <2> QED
    BY <1>1, <2>2, <2>3
<1> HIDE DEF I, f
<1>7. Cardinality(M) = Cardinality(I) <=> f \in Surjection(M, I)
  BY <1>4, <1>5, FS_Injection
<1> QED
  BY <1>5, <1>6, <1>7 DEF M

\* Schemas that list each value once
ListedOnce == \A k \in Keys : Def[k].type = "list_str" /\ Def[k].values # None => IsInjective(Def[k].values)

\* the elements that ValidValue compares are listed
PiecesListed(def, val) == \A i \in DOMAIN Pieces(val) : Pieces(val)[i] \in ToSet(def.values)

LEMMA PiecesTexts ==
    ASSUME NEW val, val.type \in {"[]string", "[]any"}, val.v \in Seq(Text)
    PROVE  Pieces(val) \in Seq(Text)
<1>1. CASE val.type = "[]any"
  BY <1>1 DEF Pieces
<1>2. CASE val.type = "[]string"
  <2> DEFINE words == FlattenSeq(val.v)
             split == [i \in DOMAIN words |-> <<words[i]>>]
  <2>1. words \in Seq(Words)
    BY FlatWords
  <2>2. \A i \in DOMAIN words : <<words[i]>> \in Text
    BY <2>1, BlankIsText
  <2> DEFINE n == Len(words)
  <2>3. n \in Nat /\ DOMAIN words = 1..n
    BY <2>1
  <2> HIDE DEF words, n
  <2>4. split = [i \in 1..n |-> split[i]] /\ \A i \in 1..n : split[i] \in Text
    BY <2>2, <2>3
  <2>5. Pieces(val) = split
    BY <1>2 DEF Pieces, words
  <2> HIDE DEF split
  <2>6. split \in Seq(Text)
    BY <2>3, <2>4, Beginning
  <2> QED
    BY <2>5, <2>6
<1> QED
  BY <1>1, <1>2

LEMMA ValidIsListed ==
    ASSUME ListedOnce, NEW k \in Keys, Def[k].type = "list_str", Def[k].values # None,
           NEW val, val.type \in {"[]string", "[]any"}, val.v \in Seq(Text)
    PROVE  ValidValue(Def[k], val) <=> PiecesListed(Def[k], val)
<1>1. Def[k].values \in Seq(Text) /\ IsInjective(Def[k].values)
  BY DefAssumption DEF ListedOnce
<1> DEFINE pieces == Pieces(val)
<1>2. pieces \in Seq(Text)
  BY PiecesTexts
<1>3. ValidValue(Def[k], val) <=> Cardinality(Matches(pieces, Def[k].values)) = Len(pieces)
  BY DEF ValidValue, Matches
<1> HIDE DEF pieces
<1>4. Cardinality(Matches(pieces, Def[k].values)) = Len(pieces)
         <=> \A i \in DOMAIN pieces : pieces[i] \in ToSet(Def[k].values)
  BY <1>1, <1>2, MatchesCount
<1> QED
  BY <1>3, <1>4 DEF PiecesListed, pieces

\* Each word of a value that came from a form is a piece of its own.
LEMMA WordsArePieces ==
    ASSUME NEW val, val.type = "[]string", val.v \in Seq(Text), NEW i \in DOMAIN val.v, NEW j \in DOMAIN val.v[i]
    PROVE  \E m \in DOMAIN Pieces(val) : Pieces(val)[m] = <<val.v[i][j]>>
<1> DEFINE words == FlattenSeq(val.v)
<1>2. ToSet(words) = UNION {ToSet(val.v[n]) : n \in DOMAIN val.v}
  BY FlatWords
<1>3. val.v[i][j] \in ToSet(words)
  <2>1. val.v[i][j] \in ToSet(val.v[i])
    BY DEF ToSet
  <2> QED
    BY <1>2, <2>1
<1>4. PICK m \in DOMAIN words : words[m] = val.v[i][j]
  BY <1>3 DEF ToSet
<1>5. Pieces(val) = [n \in DOMAIN words |-> <<words[n]>>]
  BY DEF Pieces
<1> QED
  BY <1>4, <1>5

LEMMA ValidConforms ==
    ASSUME ListedOnce, NEW rec, GoRecord(rec), Valid(rec)
    PROVE  Conforms(rec)
<1> DEFINE Fine(k) ==
              LET def == Def[k] IN
              CASE def.type \in {"string", "bool"} -> rec[k].type = def.type
                [] def.type = "float64" -> rec[k].type = "float64" /\ rec[k].v \in Floats
                [] def.type = "int64" -> rec[k].type \in {"int64", "int", "float64"} /\ rec[k].v \in Floats \ Dotted
                [] def.type = "list_float" -> rec[k].type \in Lists \/ Zero(rec[k])
                [] def.type = "list_str" ->
                     /\ rec[k].type \in {"[]string", "[]any"}
                     /\ def.values # None => \A i \in DOMAIN rec[k].v : Listed(rec[k].v[i], def.values)
<1>1. ASSUME NEW k \in DOMAIN rec PROVE Fine(k)
  <2> DEFINE val == rec[k]
             type == Def[k].type
  <2>1. GoValue(val) /\ (val.type = "int" => type = "int64") /\ k \in Keys
    BY DEF GoRecord, Made
  <2>2. ValidType(type, val) /\ ValidValue(Def[k], val)
    BY DEF Valid
  <2>3. type \in {"string", "bool", "int64", "float64", "list_str", "list_float"}
    BY <2>1, DefAssumption
  <2>4. CASE type \in {"string", "bool"}
    <3>1. val.type = type
      BY <2>2, <2>4 DEF ValidType, Zero
    <3> QED
      BY <2>4, <3>1
  <2>5. CASE type = "float64"
    <3>1. val.type = "float64" /\ val.v \in Floats
      BY <2>1, <2>2, <2>5, ValidTypes, GoTypes
    <3> QED
      BY <2>5, <3>1
  <2>6. CASE type = "int64"
    <3>1. val.type \in {"int64", "int", "float64"} /\ val.v \in Floats \ Dotted
      <4>1. "0" \in Ints /\ Ints \subseteq Floats \ Dotted
        BY WordsAssumption
      <4> QED
        BY <2>1, <2>2, <2>6, <4>1, ValidTypes, GoTypes DEF Zero
    <3> QED
      BY <2>6, <3>1
  <2>7. CASE type = "list_float"
    <3>1. val.type \in Lists \/ Zero(val)
      <4>1. val.type # "list_float"
        BY <2>1, GoTypes DEF Lists
      <4> QED
        BY <2>2, <2>7, <4>1, ValidTypes
    <3> QED
      BY <2>7, <3>1
  <2>8. CASE type = "list_str"
    <3>1. val.type \in {"[]string", "[]any"}
      <4>1. val.type # "list_str"
        BY <2>1, GoTypes DEF Lists
      <4> QED
        BY <2>2, <2>8, <4>1, ValidTypes
    <3>2. val.v \in Seq(Text)
      BY <2>1, <3>1, GoTypes DEF Lists
    <3>3. ASSUME Def[k].values # None, NEW i \in DOMAIN val.v PROVE Listed(val.v[i], Def[k].values)
      <4>1. PiecesListed(Def[k], val)
        BY <2>1, <2>2, <2>8, <3>1, <3>2, <3>3, ValidIsListed
      <4>2. CASE val.type = "[]any"
        <5>1. Pieces(val) = val.v
          BY <4>2 DEF Pieces
        <5> QED
          BY <4>1, <5>1 DEF PiecesListed, Listed
      <4>3. CASE val.type = "[]string"
        <5>1. ASSUME NEW j \in DOMAIN val.v[i] PROVE <<val.v[i][j]>> \in ToSet(Def[k].values)
          <6>1. PICK m \in DOMAIN Pieces(val) : Pieces(val)[m] = <<val.v[i][j]>>
            BY <3>2, <3>3, <4>3, <5>1, WordsArePieces
          <6> QED
            BY <4>1, <6>1 DEF PiecesListed
        <5> QED
          BY <5>1 DEF Listed
      <4> QED
        BY <3>1, <4>2, <4>3
    <3> QED
      BY <2>8, <3>1, <3>3
  <2> QED
    BY <2>3, <2>4, <2>5, <2>6, <2>7, <2>8
<1>2. Mandatory \subseteq DOMAIN rec
  BY DEF Valid
<1> QED
  BY <1>1, <1>2 DEF Conforms

----------------------------------------------------------------------------
(* The inductive invariant *)

\* A record in the collection is made of values of its keys, under its name.
DocsInv ==
    /\ DOMAIN docs = Names
    /\ \A n \in Names : docs[n] # None => /\ GoRecord(docs[n]) /\ NameKey \in DOMAIN docs[n]
                                         /\ docs[n][NameKey].v = n

\* The browser shows what formEntry made of the source, or what the user
\* chose; nothing but the former as long as the form is not edited.
FormInv(p) ==
    /\ p = [kind |-> "form", from |-> p.from, edited |-> p.edited, items |-> p.items]
    /\ Source(p.from) /\ DOMAIN p.items = Keys
    /\ \A k \in Keys : /\ p.items[k] \in Entry(k, p.from).choices \cup {<<>>}
                       /\ ~p.edited => p.items[k] = Entry(k, p.from).items

\* The record a user may save from a page is made of values of its keys.
ShownInv(p) ==
    /\ p.answer \in {"inserted", "invalid", "failed"} => GoRecord(p.rec)
    /\ p.kind = "update" => "_id" \in DOMAIN p.fields

PageInv == page.kind \in {"form", "update", "confirm"} /\ IF page.kind = "form" THEN FormInv(page) ELSE ShownInv(page)

WInv == DocsInv /\ PageInv

\* what the browser posts of a form
LEMMA FormResult ==
    ASSUME FormInv(page)
    PROVE  LET result == ProcessForm(Posted(page.items))
               posted == {k \in Keys : page.items[k] # <<>>}
           IN  /\ GoRecord(result.rec) /\ DOMAIN result.rec = posted
               /\ \A k \in posted : result.rec[k] = ParseValue(Def[k].type, page.items[k]).val
               /\ result.ok = \A k \in posted : ParseValue(Def[k].type, page.items[k]).ok \/ Def[k].optional
<1>1. ASSUME NEW k \in Keys PROVE page.items[k] \in Seq(Text)
  <2>1. Fits(Entry(k, page.from))
    BY EntryFits DEF FormInv
  <2>2. <<>> \in Seq(Text)
    OBVIOUS
  <2> QED
    BY <2>1, <2>2 DEF Fits, FormInv
<1> QED
  BY <1>1, Processed DEF FormInv

\* The update page always posts _id, which processForm does not know.
LEMMA UpdatesFail ==
    ASSUME NEW fields, "_id" \in DOMAIN fields
    PROVE  ProcessForm(fields).ok = FALSE
BY NameAssumption DEF ProcessForm

LEMMA NamedIfValid ==
    ASSUME NEW rec, Valid(rec)
    PROVE  NameKey \in DOMAIN rec
BY NameAssumption DEF Valid

\* What is written is a valid record made of values of its keys.
LEMMA DocsStep ==
    ASSUME PageInv, [Next]_vars
    PROVE  UNCHANGED docs \/ \E rec : GoRecord(rec) /\ Valid(rec) /\ docs' = Upsert(rec)
<1>1. CASE \E late \in BOOLEAN : SubmitForm(late)
  <2>1. PICK late \in BOOLEAN : SubmitForm(late)
    BY <1>1
  <2> DEFINE result == ProcessForm(Posted(page.items))
  <2>2. GoRecord(result.rec)
    BY <2>1, FormResult DEF SubmitForm, PageInv
  <2>3. docs' = IF result.ok /\ Valid(result.rec) /\ ~late THEN Upsert(result.rec) ELSE docs
    BY <2>1 DEF SubmitForm
  <2> HIDE DEF result
  <2> QED
    BY <2>2, <2>3
<1>2. CASE SubmitUpdate
  <2>1. ProcessForm(page.fields).ok = FALSE
    BY <1>2, UpdatesFail DEF SubmitUpdate, PageInv, ShownInv
  <2> QED
    BY <1>2, <2>1 DEF SubmitUpdate
<1>3. CASE \E rec \in JsonRecords : ApiSubmit(rec)
  <2>1. PICK rec \in JsonRecords : ApiSubmit(rec)
    BY <1>3
  <2>2. GoRecord(rec)
    BY NameAssumption, JsonIsGo
  <2> QED
    BY <2>1, <2>2 DEF ApiSubmit
<1>4. CASE UNCHANGED docs
  BY <1>4
<1>5. UNCHANGED docs \/ (\E late \in BOOLEAN : SubmitForm(late)) \/ SubmitUpdate \/ \E rec \in JsonRecords : ApiSubmit(rec)
  BY DEF Next, vars, OpenForm, UploadJson, UploadSaved, FillIn, OpenRecord
<1> QED
  BY <1>1, <1>2, <1>3, <1>4, <1>5

\* $set merges the record into the document of its dataset.
Merged(old, rec, new) ==
    /\ DOMAIN new = (IF old = None THEN {} ELSE DOMAIN old) \cup DOMAIN rec
    /\ \A k \in DOMAIN new : new[k] = IF k \in DOMAIN rec THEN rec[k] ELSE old[k]

LEMMA Upserted ==
    ASSUME DocsInv, NEW rec, NameKey \in DOMAIN rec, docs' = Upsert(rec)
    PROVE  /\ DOMAIN docs' = Names
           /\ \A n \in Names : docs'[n] = docs[n] \/ (n = rec[NameKey].v /\ Merged(docs[n], rec, docs'[n]))
<1> DEFINE name == rec[NameKey].v
           old == docs[name]
           kept == IF old = None THEN {} ELSE DOMAIN old
           new == [k \in kept \cup DOMAIN rec |-> IF k \in DOMAIN rec THEN rec[k] ELSE old[k]]
<1>1. docs' = [docs EXCEPT ![name] = new]
  BY DEF Upsert
<1>2. Merged(old, rec, new)
  BY DEF Merged
<1> HIDE DEF new
<1> QED
  BY <1>1, <1>2 DEF DocsInv

LEMMA DocsKept ==
    ASSUME DocsInv, PageInv, [Next]_vars
    PROVE  DocsInv'
<1>1. CASE UNCHANGED docs
  BY <1>1 DEF DocsInv
<1>2. CASE ~UNCHANGED docs
  <2>1. PICK rec : GoRecord(rec) /\ Valid(rec) /\ docs' = Upsert(rec)
    BY <1>2, DocsStep
  <2>2. NameKey \in DOMAIN rec
    BY <2>1, NamedIfValid
  <2>3. /\ DOMAIN docs' = Names
        /\ \A n \in Names : docs'[n] = docs[n] \/ (n = rec[NameKey].v /\ Merged(docs[n], rec, docs'[n]))
    BY <2>1, <2>2, Upserted
  <2>4. ASSUME NEW n \in Names, docs'[n] # None
        PROVE  GoRecord(docs'[n]) /\ NameKey \in DOMAIN docs'[n] /\ docs'[n][NameKey].v = n
    <3>1. CASE docs'[n] = docs[n]
      BY <2>4, <3>1 DEF DocsInv
    <3>2. CASE docs'[n] # docs[n]
      <4>1. PICK new : new = docs'[n]
        OBVIOUS
      <4>2. PICK old : old = docs[n]
        OBVIOUS
      <4>3. n = rec[NameKey].v /\ Merged(old, rec, new)
        BY <2>3, <3>2, <4>1, <4>2
      <4>4. old # None => GoRecord(old)
        BY <4>2 DEF DocsInv
      <4>5. GoRecord(new) /\ NameKey \in DOMAIN new /\ new[NameKey].v = n
        BY <2>1, <2>2, <4>3, <4>4 DEF Merged, GoRecord
      <4> QED
        BY <4>1, <4>5
    <3> QED
      BY <3>1, <3>2
  <2> QED
    BY <2>3, <2>4 DEF DocsInv
<1> QED
  BY <1>1, <1>2

LEMMA NewForm ==
    ASSUME NEW from, Source(from)
    PROVE  FormInv(Form(from)) /\ Form(from).kind = "form"
<1> DEFINE p == Form(from)
<1>1. /\ p.kind = "form" /\ p.from = from /\ DOMAIN p.items = Keys
      /\ p = [kind |-> "form", from |-> p.from, edited |-> p.edited, items |-> p.items]
      /\ \A k \in Keys : p.items[k] = Entry(k, from).items
  BY DEF Form
<1> HIDE DEF p
<1>2. ASSUME NEW k \in Keys PROVE p.items[k] \in Entry(k, from).choices \cup {<<>>}
  <2>1. Fits(Entry(k, from))
    BY EntryFits
  <2> QED
    BY <1>1, <2>1 DEF Fits
<1>3. FormInv(p)
  BY <1>1, <1>2 DEF FormInv
<1> QED
  BY <1>1, <1>3 DEF p

LEMMA PageStep ==
    ASSUME PageInv, DocsInv, [Next]_vars
    PROVE  PageInv'
<1>1. CASE page' = page
  BY <1>1 DEF PageInv, FormInv, ShownInv
<1>2. ASSUME NEW from, Source(from), page' = Form(from) PROVE PageInv'
  <2>1. PICK p : p = Form(from)
    OBVIOUS
  <2>2. FormInv(p) /\ p.kind = "form"
    BY <1>2, <2>1, NewForm
  <2> QED
    BY <1>2, <2>1, <2>2 DEF PageInv
<1>3. CASE OpenForm
  BY <1>2, <1>3 DEF OpenForm, Source
<1>4. ASSUME NEW rec \in JsonRecords, UploadJson(rec) PROVE PageInv'
  <2>1. Source(rec)
    BY NameAssumption DEF Source
  <2> QED
    BY <1>2, <1>4, <2>1 DEF UploadJson
<1>5. CASE UploadSaved
  <2>1. GoRecord(page.rec)
    BY <1>5 DEF UploadSaved, PageInv, ShownInv
  <2>2. Source(AsJson(page.rec))
    BY <2>1, AsJsonIsJson DEF Source
  <2> QED
    BY <1>2, <1>5, <2>2 DEF UploadSaved
<1>6. ASSUME NEW k \in Keys, NEW items \in Entry(k, page.from).choices, FillIn(k, items) PROVE PageInv'
  <2>1. PICK old, new : old = page /\ new = page'
    OBVIOUS
  <2>2. new = [old EXCEPT !.items[k] = items, !.edited = TRUE] /\ FormInv(old) /\ old.kind = "form"
    BY <1>6, <2>1 DEF FillIn, PageInv
  <2> DEFINE newItems == [old.items EXCEPT ![k] = items]
  <2>3. new = [kind |-> "form", from |-> old.from, edited |-> TRUE, items |-> newItems]
    BY <2>2 DEF FormInv
  <2>4. /\ DOMAIN newItems = Keys
        /\ \A j \in Keys : newItems[j] = IF j = k THEN items ELSE old.items[j]
    BY <2>2 DEF FormInv
  <2> HIDE DEF newItems
  <2>5. new.kind = "form" /\ new.from = old.from /\ new.edited = TRUE /\ new.items = newItems
    BY <2>3
  <2>6. \A j \in Keys : new.items[j] \in Entry(j, new.from).choices \cup {<<>>}
    BY <1>6, <2>1, <2>2, <2>4, <2>5 DEF FormInv
  <2>7. FormInv(new)
    BY <2>2, <2>3, <2>4, <2>5, <2>6 DEF FormInv
  <2> QED
    BY <2>1, <2>5, <2>7 DEF PageInv
<1>7. ASSUME NEW late \in BOOLEAN, SubmitForm(late) PROVE PageInv'
  <2> DEFINE result == ProcessForm(Posted(page.items))
  <2>1. PICK new : new = page'
    OBVIOUS
  <2>2. GoRecord(result.rec)
    BY <1>7, FormResult DEF SubmitForm, PageInv
  <2>3. \/ \E answer \in {"unparsed", "inserted"} : new = Confirm(result.rec, answer, page.from, page.edited)
        \/ \E answer \in {"invalid", "failed"} : \E stamps :
              new = UpdatePage(result.rec, stamps, None, answer, page.from, page.edited)
    BY <1>7, <2>1, Zenon DEF SubmitForm
  <2> HIDE DEF result
  <2>4. new.rec = result.rec /\ new.kind \in {"update", "confirm"} /\ (new.kind = "update" => "_id" \in DOMAIN new.fields)
    <3>1. ASSUME NEW answer, new = Confirm(result.rec, answer, page.from, page.edited)
          PROVE  new.rec = result.rec /\ new.kind = "confirm"
      BY <3>1 DEF Confirm
    <3>2. ASSUME NEW answer, NEW stamps, new = UpdatePage(result.rec, stamps, None, answer, page.from, page.edited)
          PROVE  new.rec = result.rec /\ new.kind = "update" /\ "_id" \in DOMAIN new.fields
      BY <3>2 DEF UpdatePage
    <3> QED
      BY <2>3, <3>1, <3>2
  <2> QED
    BY <2>1, <2>2, <2>4 DEF PageInv, ShownInv
<1>8. ASSUME NEW n \in Names, OpenRecord(n) PROVE PageInv'
  <2>1. page' = UpdatePage(docs[n], Stamps, n, "none", None, FALSE)
    BY <1>8 DEF OpenRecord
  <2>2. page'.kind = "update" /\ page'.answer = "none" /\ "_id" \in DOMAIN page'.fields
    BY <2>1 DEF UpdatePage
  <2> QED
    BY <2>2 DEF PageInv, ShownInv
<1>9. CASE SubmitUpdate
  <2>1. ProcessForm(page.fields).ok = FALSE
    BY <1>9, UpdatesFail DEF SubmitUpdate, PageInv, ShownInv
  <2>2. page' = Confirm(ProcessForm(page.fields).rec, "unparsed", None, TRUE)
    BY <1>9, <2>1 DEF SubmitUpdate
  <2>3. page'.kind = "confirm" /\ page'.answer = "unparsed"
    BY <2>2 DEF Confirm
  <2> QED
    BY <2>3 DEF PageInv, ShownInv
<1> QED
  BY <1>1, <1>3, <1>4, <1>5, <1>6, <1>7, <1>8, <1>9 DEF Next, ApiSubmit, vars

LEMMA WInvariant == Spec => []WInv
<1>1. Init => WInv
  <2>1. ASSUME Init PROVE DocsInv /\ page = Confirm(Empty, "none", None, FALSE)
    BY <2>1 DEF Init, DocsInv
  <2>2. ASSUME page = Confirm(Empty, "none", None, FALSE) PROVE PageInv
    BY <2>2 DEF PageInv, ShownInv, Confirm
  <2> QED
    BY <2>1, <2>2 DEF WInv
<1>2. WInv /\ [Next]_vars => WInv'
  BY PageStep, DocsKept DEF WInv
<1> QED
  BY <1>1, <1>2, PTL DEF Spec

\* The state stays in its types: what a form has selected is one of the
\* options formEntry gave it, and a stored record is one of its dataset, for
\* every schema, all records and all texts.
THEOREM FormTypes == Spec => []WTypeOK
<1>1. WInv => WTypeOK
  <2> SUFFICES ASSUME WInv PROVE WTypeOK
    OBVIOUS
  <2>1. /\ DOMAIN docs = Names
        /\ \A n \in Names : docs[n] # None => DOMAIN docs[n] \subseteq Keys /\ docs[n][NameKey].v = n
    BY DEF WInv, DocsInv, GoRecord
  <2>2. page.kind = "form" => \A k \in Keys : page.items[k] \in Entry(k, page.from).choices \cup {<<>>}
    BY DEF WInv, PageInv, FormInv
  <2> QED
    BY <2>1, <2>2 DEF WTypeOK, WInv, PageInv, ShownInv
<1> QED
  BY <1>1, WInvariant, PTL
----------------------------------------------------------------------------
(* What is stored *)

\* A record that conforms has at each key what the schema allows there.
LEMMA MergeConforms ==
    ASSUME NEW old, NEW rec, NEW new, Merged(old, rec, new), Conforms(rec), old # None => Conforms(old)
    PROVE  Conforms(new)
BY DEF Conforms, Merged

\* Whatever way the records of a dataset came, and in whatever order, the
\* document they leave together has every mandatory key; its texts, truth
\* values and numbers have the declared types, an int64 being any number that
\* is printed without a point and a list of numbers any list or a zero; and
\* where the schema lists values for a list, it has only listed ones.  For
\* every schema that lists each value once, all records and all texts.
THEOREM StoredConform ==
    ASSUME ListedOnce
    PROVE  Spec => []StoredConforms
<1>1. Init => StoredConforms
  BY DEF Init, StoredConforms
<1>2. WInv /\ StoredConforms /\ [Next]_vars => StoredConforms'
  <2> SUFFICES ASSUME WInv, StoredConforms, [Next]_vars PROVE StoredConforms'
    OBVIOUS
  <2>1. CASE UNCHANGED docs
    BY <2>1 DEF StoredConforms
  <2>2. CASE ~UNCHANGED docs
    <3>1. PICK rec : GoRecord(rec) /\ Valid(rec) /\ docs' = Upsert(rec)
      BY <2>2, DocsStep DEF WInv
    <3>2. Conforms(rec)
      BY <3>1, ValidConforms
    <3>3. \A n \in Names : docs'[n] = docs[n] \/ (n = rec[NameKey].v /\ Merged(docs[n], rec, docs'[n]))
      BY <3>1, NamedIfValid, Upserted DEF WInv
    <3>4. ASSUME NEW n \in Names, docs'[n] # None PROVE Conforms(docs'[n])
      <4>1. PICK old, new : old = docs[n] /\ new = docs'[n]
        OBVIOUS
      <4>2. old # None => Conforms(old)
        BY <4>1 DEF StoredConforms
      <4>3. CASE new = old
        BY <3>4, <4>1, <4>2, <4>3
      <4>4. CASE Merged(old, rec, new)
        BY <3>2, <4>1, <4>2, <4>4, MergeConforms
      <4> QED
        BY <3>3, <4>1, <4>3, <4>4
    <3> QED
      BY <3>4 DEF StoredConforms
  <2> QED
    BY <2>1, <2>2
<1> QED
  BY <1>1, <1>2, WInvariant, PTL DEF Spec

----------------------------------------------------------------------------
(* What a form returns that is submitted as it was filled *)

\* Schemas whose listed values are single words, and which list none for texts
PlainSchema ==
    \A k \in Keys :
       /\ Def[k].type = "list_str" /\ Def[k].values # None => \A i \in DOMAIN Def[k].values : Len(Def[k].values[i]) = 1
       /\ Def[k].type = "string" => Def[k].values = None

\* the record of a file that the API would take, and one of the keys
Uploaded(k, from) ==
    /\ k \in Keys /\ from # None /\ JsonRecord(from) /\ Fillable(from) /\ Short(from)
    /\ k \in DOMAIN from \/ Def[k].optional
    /\ k \in DOMAIN from => ValidType(Def[k].type, from[k]) /\ ValidValue(Def[k], from[k])

\* What is posted of the key is accepted, and says what the file said.
Accepted(k, result) ==
    /\ result.ok \/ Def[k].optional
    /\ ValidType(Def[k].type, result.val) /\ ValidValue(Def[k], result.val)
Returned(k, from) ==
    LET items == Entry(k, from).items
        result == ParseValue(Def[k].type, items)
    IN  /\ k \in DOMAIN from => items # <<>> /\ Meaning(result.val) = Meaning(from[k])
        /\ items # <<>> => Accepted(k, result)

LEMMA UploadedEntry ==
    ASSUME NEW k, NEW from, Uploaded(k, from)
    PROVE  /\ Entry(k, from) = Widget(k, Default(from, k)) /\ Default(from, k) \in Text
           /\ k \notin DOMAIN from => Default(from, k) = Blank
           /\ k \in DOMAIN from => IsJson(from[k])
<1>1. Default(from, k) \in Text
  BY DefaultText DEF Uploaded
<1>2. Entry(k, from) = Widget(k, Default(from, k))
  BY DEF Uploaded, Entry
<1>3. k \notin DOMAIN from => Default(from, k) = Blank
  BY DEF Default
<1> QED
  BY <1>1, <1>2, <1>3 DEF Uploaded, JsonRecord

\* texts with neither listed values nor a default value in their place
LEMMA InputEntry ==
    ASSUME NEW k \in Keys, Def[k].type \notin {"list_str", "bool"}, Def[k].values = None, NEW default
    PROVE  Widget(k, default).items = IF default = Blank /\ Def[k].single # None THEN <<Def[k].single>> ELSE <<default>>
BY DEF Widget

LEMMA ListDefault ==
    ASSUME NEW from, NEW k \in DOMAIN from, from[k].type = "[]any", from[k].v # <<>>
    PROVE  Default(from, k) = Stripped(FlattenSeq(from[k].v))
<1> DEFINE val == from[k]
<1>1. Default(from, k) = CASE val.type \in Lists /\ val.v = <<>> -> Blank
                          [] val.type \in Lists /\ val.v # <<>> -> Stripped(FlattenSeq(val.v))
                          [] val.type = "string"  -> Stripped(val.v)
                          [] OTHER                -> <<val.v>>
  BY DEF Default
<1>2. val.type \in Lists /\ val.type # "string" /\ val.v # <<>>
  BY DEF Lists
<1> HIDE DEF val
<1>3. Default(from, k) = Stripped(FlattenSeq(val.v))
  BY <1>1, <1>2
<1> QED
  BY <1>3 DEF val

LEMMA TextReturns ==
    ASSUME PlainSchema, NEW k, NEW from, Uploaded(k, from), Def[k].type = "string"
    PROVE  Returned(k, from)
<1> DEFINE default == Default(from, k)
           items == Entry(k, from).items
           result == ParseValue("string", items)
<1>1. k \in Keys /\ Def[k].values = None
  BY DEF PlainSchema, Uploaded
<1>2. items = IF default = Blank /\ Def[k].single # None THEN <<Def[k].single>> ELSE <<default>>
  BY <1>1, UploadedEntry, InputEntry
<1>3. items # <<>>
  BY <1>2
<1>4. result.ok = TRUE /\ result.val = Val("string", items[1])
  BY DEF ParseValue, Parsed
<1> HIDE DEF items, result
<1>5. Accepted(k, result)
  BY <1>4 DEF Accepted, ValidType, ValidValue, Val
<1>6. ASSUME k \in DOMAIN from PROVE Meaning(result.val) = Meaning(from[k])
  <2>1. IsJson(from[k]) /\ from[k].type = "string"
    BY <1>6, UploadedEntry, ValidTypes DEF Uploaded
  <2>2. default = from[k].v
    <3>1. from[k].type \notin Lists
      BY <2>1 DEF Lists
    <3>2. Stripped(from[k].v) = from[k].v
      BY <1>6 DEF Uploaded, Fillable
    <3> QED
      BY <1>6, <2>1, <3>1, <3>2 DEF Default
  <2>3. from[k].v # Blank \/ Def[k].single = None
    BY <1>6 DEF Uploaded, Fillable
  <2>4. items[1] = from[k].v
    BY <1>2, <2>2, <2>3
  <2>5. result.val = from[k]
    BY <1>4, <2>1, <2>4 DEF IsJson
  <2> QED
    BY <2>5
<1> QED
  BY <1>3, <1>5, <1>6 DEF Returned, items, result

LEMMA NumberReturns ==
    ASSUME NEW k, NEW from, Uploaded(k, from), Def[k].type \in {"int64", "float64"}
    PROVE  Returned(k, from)
<1> DEFINE type == Def[k].type
           default == Default(from, k)
           items == Entry(k, from).items
           result == ParseValue(type, items)
           Read == IF type = "int64" THEN Ints ELSE Floats
<1>1. k \in Keys /\ Def[k].values = None /\ Def[k].single = None
  BY DefAssumption DEF Uploaded
<1>2. items = <<default>>
  BY <1>1, UploadedEntry, InputEntry
<1>3. NoWord \notin Floats /\ Ints \subseteq Floats /\ "0" \in Ints
  BY WordsAssumption
<1> HIDE DEF items
<1>4. result = IF Len(default) = 1 /\ default[1] \in Read
               THEN Parsed(Val(type, IF type = "int64" THEN default[1] ELSE Sprint[default[1]]))
               ELSE Failed(IF type = "int64" THEN Val("int", "0") ELSE Val("float64", "0"))
  <2>1. items[1] = default
    BY <1>2
  <2> HIDE DEF default
  <2>2. CASE type = "int64"
    BY <2>1, <2>2 DEF ParseValue
  <2>3. CASE type = "float64"
    BY <2>1, <2>3 DEF ParseValue
  <2> QED
    BY <2>2, <2>3
<1> HIDE DEF result, default
<1>5. CASE k \in DOMAIN from
  <2> DEFINE w == from[k].v
  <2>1. IsJson(from[k]) /\ ValidType(type, from[k])
    BY <1>5, UploadedEntry DEF Uploaded
  <2>2. from[k].type = "float64" /\ from[k] = Val("float64", w) /\ w \in Read /\ Sprint[w] = w
    <3>1. from[k].type \notin {"int", "int64"}
      BY <2>1 DEF IsJson, Lists
    <3>2. from[k].type = "float64"
      BY <2>1, <3>1, ValidTypes DEF Zero
    <3>3. type = "int64" => w \in Ints
      BY <1>5 DEF Uploaded, Short
    <3>4. w \in Floats /\ Sprint[w] = w /\ from[k] = Val("float64", w)
      BY <2>1, <3>2 DEF IsJson
    <3> QED
      BY <3>2, <3>3, <3>4
  <2>3. default = <<w>>
    <3>1. from[k].type \notin Lists
      BY <2>2 DEF Lists
    <3> QED
      BY <1>5, <2>2, <3>1 DEF default, Default
  <2> HIDE DEF w
  <2>4. result = Parsed(Val(type, w))
    BY <1>4, <2>2, <2>3
  <2>5. Accepted(k, result) /\ Meaning(result.val) = Meaning(Val("float64", w))
    <3>1. result.ok = TRUE /\ result.val = Val(type, w)
      BY <2>4 DEF Parsed
    <3> HIDE DEF result
    <3>2. Accepted(k, result)
      BY <3>1 DEF Accepted, ValidType, ValidValue, Val
    <3>3. Meaning(result.val) = Val("number", w)
      BY <2>2, <3>1 DEF Meaning, Val, Lists
    <3>4. Meaning(Val("float64", w)) = Val("number", w)
      BY <2>2 DEF Meaning, Val, Lists
    <3> QED
      BY <3>2, <3>3, <3>4
  <2>6. items # <<>>
    BY <1>2
  <2> QED
    BY <1>5, <2>2, <2>5, <2>6 DEF Returned, result, items
<1>6. CASE k \notin DOMAIN from
  <2>1. default = Blank /\ Def[k].optional
    BY <1>6, UploadedEntry DEF default, Uploaded
  <2>2. result = Failed(IF type = "int64" THEN Val("int", "0") ELSE Val("float64", "0"))
    <3>1. default[1] = NoWord
      BY <2>1 DEF Blank
    <3> QED
      BY <1>3, <1>4, <3>1
  <2>3. Accepted(k, result)
    BY <2>1, <2>2 DEF Accepted, Failed, ValidType, ValidValue, Val, Zero
  <2> QED
    BY <1>6, <2>3 DEF Returned, result, items
<1> QED
  BY <1>5, <1>6

LEMMA TruthReturns ==
    ASSUME NEW k, NEW from, Uploaded(k, from), Def[k].type = "bool"
    PROVE  Returned(k, from)
<1> DEFINE default == Default(from, k)
           items == Entry(k, from).items
           result == ParseValue("bool", items)
           Read(t) == IF Len(t) = 1 /\ t[1] \in Truths THEN Parsed(Val("bool", "true"))
                      ELSE IF Len(t) = 1 /\ t[1] \in Falsehoods THEN Parsed(Val("bool", "false"))
                      ELSE Failed(Val("bool", "false"))
           no == <<"false">>
           yes == <<"true">>
           three == <<Blank, no, yes>>
           two == IF default = yes THEN <<yes, no>> ELSE <<no, yes>>
<1>1. k \in Keys /\ Def[k].multiple = FALSE
  BY DefAssumption DEF Uploaded
<1>2. items = IF default \in {Blank, yes} THEN <<default>> ELSE <<no>>
  <2>1. Entry(k, from) = Widget(k, default)
    BY UploadedEntry
  <2>2. Widget(k, default) = IF default = Blank THEN Select(<<>>, three, FALSE) ELSE Select(<<>>, two, FALSE)
    BY <1>1 DEF Widget
  <2>3. SubSeq(three, 1, 1) = <<Blank>> /\ SubSeq(two, 1, 1) = IF default = yes THEN <<yes>> ELSE <<no>>
    <3>1. ASSUME NEW a, NEW b PROVE SubSeq(<<a, b>>, 1, 1) = <<a>>
      <4> DEFINE E == {a, b}
                 seq == <<a, b>>
      <4>1. seq \in Seq(E) /\ seq # <<>> /\ seq[1] = a
        OBVIOUS
      <4> HIDE DEF E, seq
      <4>2. SubSeq(seq, 1, 1) = <<seq[1]>>
        BY <4>1, OnlyFirst
      <4> QED
        BY <4>1, <4>2 DEF seq
    <3>2. ASSUME NEW a, NEW b, NEW c PROVE SubSeq(<<a, b, c>>, 1, 1) = <<a>>
      <4> DEFINE E == {a, b, c}
                 seq == <<a, b, c>>
      <4>1. seq \in Seq(E) /\ seq # <<>> /\ seq[1] = a
        OBVIOUS
      <4> HIDE DEF E, seq
      <4>2. SubSeq(seq, 1, 1) = <<seq[1]>>
        BY <4>1, OnlyFirst
      <4> QED
        BY <4>1, <4>2 DEF seq
    <3> QED
      BY <3>1, <3>2
  <2>4. \A options : Select(<<>>, options, FALSE).items = SubSeq(options, 1, 1)
    BY DEF Select
  <2> HIDE DEF two, three, default
  <2>5. items = IF default = Blank THEN SubSeq(three, 1, 1) ELSE SubSeq(two, 1, 1)
    BY <2>1, <2>2, <2>4
  <2> HIDE DEF yes, no, items
  <2>6. CASE default = Blank
    BY <2>3, <2>5, <2>6
  <2>7. CASE default # Blank /\ default = yes
    BY <2>3, <2>5, <2>7
  <2>8. CASE default \notin {Blank, yes}
    BY <2>3, <2>5, <2>8
  <2> QED
    BY <2>6, <2>7, <2>8
<1> HIDE DEF items
<1>3. Read(yes) = Parsed(Val("bool", "true")) /\ Read(no) = Parsed(Val("bool", "false"))
  <2>1. Len(yes) = 1 /\ yes[1] = "true" /\ Len(no) = 1 /\ no[1] = "false"
    OBVIOUS
  <2>2. "true" \in Truths /\ "false" \notin Truths /\ "false" \in Falsehoods
    BY DEF Truths, Falsehoods
  <2> HIDE DEF yes, no
  <2> QED
    BY <2>1, <2>2
<1>4. result = Read(items[1])
  BY DEF ParseValue
<1> HIDE DEF default, Read
<1>5. CASE k \in DOMAIN from
  <2> DEFINE w == from[k].v
  <2>1. IsJson(from[k]) /\ from[k].type = "bool"
    BY <1>5, UploadedEntry, ValidTypes DEF Uploaded
  <2>2. from[k] = Val("bool", w) /\ w \in {"true", "false"}
    BY <2>1 DEF IsJson
  <2>3. default = <<w>>
    <3>1. from[k].type \notin Lists
      BY <2>1 DEF Lists
    <3> QED
      BY <1>5, <2>1, <3>1 DEF default, Default
  <2> HIDE DEF w
  <2>4. items[1] = <<w>>
    BY <1>2, <2>2, <2>3
  <2>5. result = Parsed(Val("bool", w))
    BY <1>3, <1>4, <2>2, <2>4
  <2>6. result.ok = TRUE /\ result.val = from[k]
    BY <2>2, <2>5 DEF Parsed
  <2>7. Accepted(k, result)
    BY <2>1, <2>6 DEF Accepted, ValidType, ValidValue
  <2>8. items # <<>>
    BY <1>2
  <2> QED
    BY <1>5, <2>6, <2>7, <2>8 DEF Returned, result, items
<1>6. CASE k \notin DOMAIN from
  <2>1. Def[k].optional = TRUE
    BY <1>6, DefAssumption DEF Uploaded
  <2>2. result.val.type = "bool"
    <3> DEFINE t == items[1]
    <3> HIDE DEF result, t
    <3>1. \E w \in {"true", "false"} : Read(t) \in {Parsed(Val("bool", w)), Failed(Val("bool", w))}
      BY DEF Read
    <3> QED
      BY <1>4, <3>1 DEF Parsed, Failed, Val, t
  <2> HIDE DEF result
  <2>3. Accepted(k, result)
    BY <2>1, <2>2 DEF Accepted, ValidType, ValidValue
  <2> QED
    BY <1>6, <2>3 DEF Returned, result, items
<1> QED
  BY <1>5, <1>6

LEMMA ListedAccepted ==
    ASSUME PlainSchema, ListedOnce, NEW k \in Keys, Def[k].type = "list_str", Def[k].values # None,
           NEW t \in ToSet(Def[k].values)
    PROVE  /\ t \in Text /\ FlattenSeq(<<t>>) = t
           /\ Accepted(k, ParseValue("list_str", <<t>>))
<1> DEFINE result == ParseValue("list_str", <<t>>)
           val == Val("[]string", <<t>>)
<1>1. t \in Text /\ Len(t) = 1
  <2>1. Def[k].values \in Seq(Text) /\ \A i \in DOMAIN Def[k].values : Len(Def[k].values[i]) = 1
    BY DefAssumption DEF PlainSchema
  <2> QED
    BY <2>1 DEF ToSet
<1>2. t \in Seq(Words)
  BY <1>1 DEF Text
<1>3. FlattenSeq(<<t>>) = t
  BY <1>2, JoinedOne
<1>4. result.ok = TRUE /\ result.val = val
  BY DEF ParseValue, Parsed
<1>5. val.type = "[]string" /\ val.v = <<t>>
  BY DEF Val
<1> HIDE DEF result, val
<1>6. Pieces(val) = [i \in DOMAIN t |-> <<t[i]>>]
  BY <1>3, <1>5 DEF Pieces
<1>7. PiecesListed(Def[k], val)
  <2>1. DOMAIN t = {1} /\ <<t[1]>> = t
    BY <1>1, <1>2
  <2> QED
    BY <1>6, <2>1 DEF PiecesListed
<1>8. val.v \in Seq(Text)
  <2> DEFINE E == Text
  <2> HIDE DEF E
  <2>1. t \in E => <<t>> \in Seq(E)
    OBVIOUS
  <2> QED
    BY <1>1, <1>5, <2>1 DEF E
<1>9. ValidValue(Def[k], val)
  <2>1. val.type \in {"[]string", "[]any"}
    BY <1>5
  <2>2. ValidValue(Def[k], val) <=> PiecesListed(Def[k], val)
    BY <1>8, <2>1, ValidIsListed
  <2> QED
    BY <1>7, <2>2
<1>10. ValidType(Def[k].type, val)
  BY <1>5 DEF ValidType
<1> QED
  BY <1>1, <1>3, <1>4, <1>9, <1>10 DEF Accepted, result

LEMMA ListReturns ==
    ASSUME PlainSchema, ListedOnce, NEW k, NEW from, Uploaded(k, from), Def[k].type = "list_str"
    PROVE  Returned(k, from)
<1> DEFINE def == Def[k]
           default == Default(from, k)
           items == Entry(k, from).items
           result == ParseValue("list_str", items)
           S == ToSet(def.values) \ {Blank, default}
           vals == Keep(Unique(def.values), S)
           selected == NonBlank(default)
           options == selected \o vals
<1>1. k \in Keys /\ def.multiple \in BOOLEAN /\ default \in Text
  BY DefAssumption, UploadedEntry DEF Uploaded
<1>2. items = IF def.values = None THEN Select(<<>>, <<>>, def.multiple).items
              ELSE Select(selected, options, def.multiple).items
  <2>1. Entry(k, from) = Widget(k, default)
    BY UploadedEntry
  <2> QED
    BY <2>1 DEF Widget
<1> HIDE DEF items, result
<1>3. CASE k \in DOMAIN from
  <2> DEFINE v == from[k].v
             t == v[1]
  <2>1. def.values # None /\ Len(v) = 1 /\ v # <<Blank>>
    BY <1>3 DEF Uploaded, Fillable
  <2>2. from[k] = Val("[]any", v) /\ v \in Seq(Text) /\ ValidValue(def, from[k])
    <3>1. IsJson(from[k]) /\ ValidType("list_str", from[k]) /\ ValidValue(def, from[k])
      BY <1>3, UploadedEntry DEF Uploaded
    <3>2. from[k].type = "[]any"
      BY <3>1, ValidTypes DEF IsJson
    <3> QED
      BY <3>1, <3>2 DEF IsJson
  <2>3. from[k].type = "[]any"
    BY <2>2 DEF Val
  <2>4. t \in ToSet(def.values)
    <3>1. PiecesListed(def, from[k])
      BY <1>1, <2>1, <2>2, <2>3, ValidIsListed
    <3>2. Pieces(from[k]) = v
      BY <2>3 DEF Pieces
    <3> QED
      BY <2>1, <2>2, <3>1, <3>2 DEF PiecesListed
  <2> HIDE DEF v
  <2>5. v = <<t>>
    BY <2>1, <2>2
  <2> HIDE DEF t
  <2>6. t \in Text /\ FlattenSeq(<<t>>) = t /\ Accepted(k, ParseValue("list_str", <<t>>))
    BY <1>1, <2>1, <2>4, ListedAccepted
  <2>7. default = t /\ t # Blank
    <3>1. default = Stripped(FlattenSeq(v))
      <4>1. from[k].v # <<>>
        BY <2>5 DEF v
      <4> QED
        BY <1>3, <2>3, <4>1, ListDefault DEF v
    <3>2. Stripped(t) = t
      BY <1>3 DEF Uploaded, Fillable, t, v
    <3> QED
      BY <2>1, <2>5, <2>6, <3>1, <3>2
  <2> HIDE DEF options, default
  <2>8. items = <<t>>
    <3>1. selected = <<t>>
      BY <2>7 DEF NonBlank
    <3> QED
      BY <1>2, <2>1, <3>1 DEF Select
  <2>9. Meaning(result.val) = Meaning(from[k])
    <3>1. result.val = Val("[]string", <<t>>)
      BY <2>8 DEF result, ParseValue, Parsed
    <3>2. result.val.type = "[]string" /\ result.val.v = v
      BY <2>5, <3>1 DEF Val
    <3> QED
      BY <2>3, <3>2 DEF Meaning, Lists, v
  <2> QED
    BY <1>3, <2>6, <2>8, <2>9 DEF Returned, items, result
<1>4. CASE k \notin DOMAIN from
  <2>1. default = Blank /\ selected = <<>>
    BY <1>4, UploadedEntry DEF NonBlank
  <2>2. ASSUME items # <<>> PROVE Accepted(k, result)
    <3> DEFINE t == vals[1]
    <3>1. def.values # None
      <4>1. SubSeq(<<>>, 1, 1) = <<>>
        OBVIOUS
      <4> QED
        BY <1>2, <2>2, <4>1 DEF Select
    <3>2. vals \in Seq(Text) /\ ToSet(vals) \subseteq S
      <4>1. def.values \in Seq(Text)
        BY <1>1, <3>1, DefAssumption
      <4> QED
        BY <4>1, UniqueSeq, KeepSet
    <3>3. options = vals
      <4> HIDE DEF vals
      <4> QED
        BY <2>1, <3>2
    <3> HIDE DEF vals, options, S
    <3>4. items = SubSeq(vals, 1, 1) /\ vals # <<>>
      <4>1. items = SubSeq(vals, 1, 1)
        BY <1>2, <2>1, <2>2, <3>1, <3>3 DEF Select
      <4>2. vals = <<>> => SubSeq(vals, 1, 1) = <<>>
        OBVIOUS
      <4> QED
        BY <2>2, <4>1, <4>2
    <3>5. items = <<t>> /\ t \in ToSet(vals)
      <4>1. SubSeq(vals, 1, 1) = <<t>> /\ 1 \in DOMAIN vals
        BY <3>2, <3>4, OnlyFirst
      <4> QED
        BY <3>4, <4>1 DEF ToSet
    <3>6. t \in ToSet(def.values)
      BY <3>2, <3>5 DEF S
    <3> HIDE DEF t
    <3>7. Accepted(k, ParseValue("list_str", <<t>>))
      BY <1>1, <3>1, <3>6, ListedAccepted
    <3> QED
      BY <3>5, <3>7 DEF result
  <2> QED
    BY <1>4, <2>2 DEF Returned, items, result
<1> QED
  BY <1>3, <1>4

LEMMA NumbersReturn ==
    ASSUME NEW k, NEW from, Uploaded(k, from), Def[k].type = "list_float"
    PROVE  Returned(k, from)
<1> DEFINE default == Default(from, k)
           items == Entry(k, from).items
           result == ParseValue("list_float", items)
           numbers == [i \in DOMAIN default |-> <<Near[default[i]]>>]
<1>1. k \in Keys /\ Def[k].values = None /\ Def[k].single = None
  BY DefAssumption DEF Uploaded
<1>2. items = <<default>> /\ default \in Seq(Words)
  <2>1. default \in Text /\ Entry(k, from) = Widget(k, default)
    BY UploadedEntry
  <2>2. Widget(k, default).items = <<default>>
    BY <1>1, InputEntry
  <2> QED
    BY <2>1, <2>2 DEF Text
<1>3. NoWord \notin Floats
  BY WordsAssumption
<1> HIDE DEF items
<1>4. result = IF ToSet(default) \subseteq Floats THEN Parsed(Val("[]float64", numbers))
               ELSE Failed(Val("[]string", <<default>>))
  <2>1. FlattenSeq(items) = default
    BY <1>2, JoinedOne
  <2> QED
    BY <1>2, <2>1 DEF ParseValue
<1> HIDE DEF result
<1>5. ASSUME default = Blank, Def[k].optional
      PROVE  Accepted(k, result) /\ result.val.type = "[]string" /\ result.val.v = <<Blank>>
  <2>1. ~(ToSet(default) \subseteq Floats)
    BY <1>3, <1>5 DEF ToSet, Blank
  <2>2. result.val = Val("[]string", <<Blank>>)
    BY <1>4, <1>5, <2>1 DEF Failed
  <2>3. result.val.type = "[]string" /\ result.val.v = <<Blank>>
    BY <2>2 DEF Val
  <2> QED
    BY <1>5, <2>3 DEF Accepted, ValidType, ValidValue
<1>6. CASE k \notin DOMAIN from
  <2>1. default = Blank /\ Def[k].optional
    BY <1>6, UploadedEntry DEF Uploaded
  <2> QED
    BY <1>5, <1>6, <2>1 DEF Returned, result, items
<1>7. CASE k \in DOMAIN from
  <2> DEFINE v == from[k].v
  <2>1. /\ from[k].type \in Lists
        /\ \/ v = <<Blank>> /\ Def[k].optional
           \/ v # <<>> /\ \A i \in DOMAIN v : \E w \in Floats : v[i] = <<w>> /\ Near[w] = w
    BY <1>7 DEF Uploaded, Fillable
  <2>2. from[k].type = "[]any" /\ v \in Seq(Text)
    <3>1. IsJson(from[k])
      BY <1>7, UploadedEntry
    <3> QED
      BY <2>1, <3>1 DEF IsJson, Lists
  <2>3. default = FlattenSeq(v)
    <3>1. v # <<>>
      <4>1. <<Blank>> # <<>>
        <5>1. Len(<<Blank>>) = 1 /\ Len(<<>>) = 0
          OBVIOUS
        <5> QED
          BY <5>1
      <4> HIDE DEF v
      <4> QED
        BY <2>1, <4>1
    <3>2. default = Stripped(FlattenSeq(v))
      BY <1>7, <2>2, <3>1, ListDefault
    <3> HIDE DEF v, default
    <3> DEFINE flat == FlattenSeq(v)
    <3>3. flat \in Text /\ ToSet(flat) = UNION {ToSet(v[i]) : i \in DOMAIN v}
      BY <2>2, <3>1, FlatText, FlatWords
    <3>4. ASSUME NEW i \in DOMAIN v PROVE ToSet(v[i]) \subseteq Floats \cup {NoWord}
      <4>1. \E w \in Floats \cup {NoWord} : v[i] = <<w>>
        BY <2>1, <3>4 DEF Blank
      <4>2. \A w : ToSet(<<w>>) = {w}
        BY DEF ToSet
      <4> QED
        BY <4>1, <4>2
    <3> HIDE DEF flat
    <3>5. \A i \in DOMAIN flat : flat[i] \in Floats \cup {NoWord}
      BY <3>3, <3>4 DEF ToSet
    <3>6. \A i \in DOMAIN flat : Strip[flat[i]] = flat[i]
      BY <3>5, WordsAssumption
    <3> QED
      BY <3>2, <3>3, <3>6, StrippedWords DEF flat
  <2> HIDE DEF v, default
  <2>4. Meaning(from[k]) = Val("list", v)
    BY <2>1 DEF Meaning, v
  <2>5. CASE v = <<Blank>> /\ Def[k].optional
    <3>1. default = Blank
      <4>1. Blank \in Seq(Words)
        BY BlankIsText DEF Text
      <4> QED
        BY <2>3, <2>5, <4>1, JoinedOne
    <3>2. Accepted(k, result) /\ result.val.type = "[]string" /\ result.val.v = v
      BY <1>5, <2>5, <3>1
    <3>3. Meaning(result.val) = Val("list", v)
      BY <3>2 DEF Meaning, Lists
    <3> QED
      BY <1>2, <2>4, <3>2, <3>3, <1>7 DEF Returned, result, items
  <2>6. CASE v # <<>> /\ \A i \in DOMAIN v : \E w \in Floats : v[i] = <<w>> /\ Near[w] = w
    <3>1. v \in Seq(Seq(Words)) /\ \A i \in DOMAIN v : Len(v[i]) = 1
      <4> DEFINE T == Seq(Words)
      <4>1. Text \subseteq T
        BY DEF Text
      <4> HIDE DEF T
      <4>2. v \in Seq(T)
        BY <2>2, <4>1
      <4> QED
        BY <2>6, <4>2 DEF T
    <3>2. /\ Len(default) = Len(v)
          /\ \A i \in DOMAIN v : default[i] = v[i][1] /\ v[i] = <<v[i][1]>>
      BY <2>3, <3>1, JoinedSingles
    <3>3. DOMAIN default = DOMAIN v
      BY <1>2, <2>2, <3>2
    <3>4. ASSUME NEW i \in DOMAIN v PROVE default[i] \in Floats /\ <<Near[default[i]]>> = v[i]
      BY <2>6, <3>2
    <3>5. ToSet(default) \subseteq Floats
      BY <3>3, <3>4 DEF ToSet
    <3>6. numbers = v
      <4>1. v = [i \in DOMAIN v |-> v[i]]
        BY <2>2
      <4> QED
        BY <3>3, <3>4, <4>1
    <3> HIDE DEF numbers
    <3>7. result.ok = TRUE /\ result.val.type = "[]float64" /\ result.val.v = v
      BY <1>4, <3>5, <3>6 DEF Parsed, Val
    <3>8. Accepted(k, result)
      BY <3>7 DEF Accepted, ValidType, ValidValue
    <3>9. Meaning(result.val) = Val("list", v)
      BY <3>7 DEF Meaning, Lists
    <3> QED
      BY <1>2, <2>4, <3>8, <3>9, <1>7 DEF Returned, result, items
  <2> QED
    BY <2>1, <2>5, <2>6 DEF v
<1> QED
  BY <1>6, <1>7

LEMMA KeyReturns ==
    ASSUME PlainSchema, ListedOnce, NEW k, NEW from, Uploaded(k, from)
    PROVE  Returned(k, from)
<1>1. Def[k].type \in {"string", "bool", "int64", "float64", "list_str", "list_float"}
  BY DefAssumption DEF Uploaded
<1> QED
  BY <1>1, TextReturns, NumberReturns, TruthReturns, ListReturns, NumbersReturn

\* An unedited form of a valid record is accepted with what the record says.
LEMMA FormReturns ==
    ASSUME PlainSchema, ListedOnce, FormInv(page), ~page.edited,
           page.from # None, Valid(page.from), Fillable(page.from), Short(page.from)
    PROVE  LET result == ProcessForm(Posted(page.items))
           IN  /\ result.ok /\ Valid(result.rec)
               /\ \A k \in DOMAIN page.from :
                     k \in DOMAIN result.rec /\ Meaning(result.rec[k]) = Meaning(page.from[k])
<1> DEFINE from == page.from
           result == ProcessForm(Posted(page.items))
           posted == {k \in Keys : page.items[k] # <<>>}
<1>1. JsonRecord(from)
  BY DEF FormInv, Source
<1>2. ASSUME NEW k \in Keys
      PROVE  /\ k \in DOMAIN from =>
                   k \in posted /\ Meaning(ParseValue(Def[k].type, page.items[k]).val) = Meaning(from[k])
             /\ k \in posted => Accepted(k, ParseValue(Def[k].type, page.items[k]))
  <2>1. Uploaded(k, from)
    <3>1. k \in DOMAIN from \/ Def[k].optional
      BY DEF Valid, Mandatory
    <3> QED
      BY <1>1, <3>1 DEF Uploaded, Valid
  <2>2. Returned(k, from)
    BY <2>1, KeyReturns
  <2>3. page.items[k] = Entry(k, from).items
    BY DEF FormInv
  <2> QED
    BY <2>2, <2>3 DEF Returned
<1>3. /\ DOMAIN result.rec = posted
      /\ \A k \in posted : result.rec[k] = ParseValue(Def[k].type, page.items[k]).val
      /\ result.ok = \A k \in posted : ParseValue(Def[k].type, page.items[k]).ok \/ Def[k].optional
  BY FormResult
<1> HIDE DEF result
<1>4. result.ok
  BY <1>2, <1>3 DEF Accepted
<1>5. DOMAIN from \subseteq posted
  BY <1>1, <1>2 DEF JsonRecord
<1>6. Valid(result.rec)
  <2>1. Mandatory \subseteq DOMAIN result.rec
    BY <1>3, <1>5 DEF Valid
  <2>2. \A k \in DOMAIN result.rec : ValidType(Def[k].type, result.rec[k]) /\ ValidValue(Def[k], result.rec[k])
    BY <1>2, <1>3 DEF Accepted
  <2> QED
    BY <2>1, <2>2 DEF Valid
<1>7. \A k \in DOMAIN from : k \in DOMAIN result.rec /\ Meaning(result.rec[k]) = Meaning(from[k])
  BY <1>2, <1>3, <1>5
<1> QED
  BY <1>4, <1>6, <1>7 DEF result

\* A JSON file the API would take comes back with all its values from the
\* form it fills, if the form can hold them (Fillable) and its integers are
\* printed without an exponent (Short), and so does a record that was saved
\* from a confirmation, any number of times: for every schema whose listed
\* values are single words, listed once, and which lists none for texts.
THEOREM PrefillReturns ==
    ASSUME PlainSchema, ListedOnce
    PROVE  Spec => []PrefillKeeps
<1>1. Init => PrefillKeeps
  BY DEF Init, PrefillKeeps, Refilled, SaysTheSame, Confirm
<1>2. WInv /\ PrefillKeeps /\ [Next]_vars => PrefillKeeps'
  <2> SUFFICES ASSUME WInv, PrefillKeeps, [Next]_vars PROVE PrefillKeeps'
    OBVIOUS
  <2>1. CASE page' = page
    BY <2>1 DEF PrefillKeeps, Refilled, SaysTheSame
  <2>2. ASSUME NEW from, page' = Form(from) PROVE PrefillKeeps'
    <3>1. page'.kind = "form"
      BY <2>2 DEF Form
    <3> QED
      BY <3>1 DEF PrefillKeeps, Refilled, SaysTheSame
  <2>3. ASSUME NEW k \in Keys, NEW items, FillIn(k, items) PROVE PrefillKeeps'
    <3>1. page' = [page EXCEPT !.items[k] = items, !.edited = TRUE] /\ FormInv(page) /\ page.kind = "form"
      BY <2>3 DEF FillIn, WInv, PageInv
    <3>2. page'.kind = "form"
      BY <3>1 DEF FormInv
    <3> QED
      BY <3>2 DEF PrefillKeeps, Refilled, SaysTheSame
  <2>4. ASSUME NEW late \in BOOLEAN, SubmitForm(late) PROVE PrefillKeeps'
    <3> DEFINE result == ProcessForm(Posted(page.items))
    <3>1. PICK old, new : old = page /\ new = page'
      OBVIOUS
    <3>2. FormInv(old)
      BY <2>4, <3>1 DEF SubmitForm, WInv, PageInv
    <3>3. /\ result.ok /\ Valid(result.rec) =>
                \/ new = Confirm(result.rec, "inserted", old.from, old.edited)
                \/ new = UpdatePage(result.rec, Stamps, None, "failed", old.from, old.edited)
          /\ \E answer, stamps : \/ new = Confirm(result.rec, answer, old.from, old.edited)
                                 \/ new = UpdatePage(result.rec, stamps, None, answer, old.from, old.edited)
      BY <2>4, <3>1, Zenon DEF SubmitForm
    <3>4. ASSUME old.from # None, ~old.edited, Valid(old.from), Fillable(old.from), Short(old.from)
          PROVE  /\ result.ok /\ Valid(result.rec)
                 /\ \A k \in DOMAIN old.from :
                       k \in DOMAIN result.rec /\ Meaning(result.rec[k]) = Meaning(old.from[k])
      BY <3>1, <3>2, <3>4, FormReturns
    <3> HIDE DEF result
    <3>5. new.from = old.from /\ new.edited = old.edited /\ new.rec = result.rec
      BY <3>3 DEF Confirm, UpdatePage
    <3>6. ASSUME new.from # None, ~new.edited, Valid(new.from), Fillable(new.from), Short(new.from)
          PROVE  /\ new.answer \in {"inserted", "failed"}
                 /\ \A k \in DOMAIN new.from : k \in DOMAIN new.rec /\ Meaning(new.rec[k]) = Meaning(new.from[k])
      <4>1. \/ new = Confirm(result.rec, "inserted", old.from, old.edited)
            \/ new = UpdatePage(result.rec, Stamps, None, "failed", old.from, old.edited)
        BY <3>3, <3>4, <3>5, <3>6
      <4>2. new.answer \in {"inserted", "failed"}
        BY <4>1 DEF Confirm, UpdatePage
      <4> QED
        BY <3>4, <3>5, <3>6, <4>2
    <3> QED
      BY <3>1, <3>6 DEF PrefillKeeps, Refilled, SaysTheSame
  <2>5. ASSUME NEW n \in Names, OpenRecord(n) PROVE PrefillKeeps'
    <3>1. page'.from = None
      BY <2>5 DEF OpenRecord, UpdatePage
    <3> QED
      BY <3>1 DEF PrefillKeeps, Refilled, SaysTheSame
  <2>6. CASE SubmitUpdate
    <3>1. page'.from = None
      BY <2>6 DEF SubmitUpdate, Confirm
    <3> QED
      BY <3>1 DEF PrefillKeeps, Refilled, SaysTheSame
  <2> QED
    BY <2>1, <2>2, <2>3, <2>4, <2>5, <2>6 DEF Next, OpenForm, UploadJson, UploadSaved, ApiSubmit, vars
<1> QED
  BY <1>1, <1>2, WInvariant, PTL DEF Spec
=============================================================================
