----------------------------- MODULE FmtGrammar -----------------------------
(***************************************************************************)
(* What a format string means, from the grammar of std::format that fmt    *)
(* follows: every way to split the string into characters and fields, and  *)
(* for each field every way to split its specifiers. Nothing here scans:   *)
(* the definitions say which strings are words and what they stand for.    *)
(***************************************************************************)
EXTENDS FmtParse, FiniteSetsExt

After(s, t) == SubSeq(s, Len(t) + 1, Len(s))

AllDigits(s) == s # <<>> /\ \A i \in DOMAIN s : s[i] \in digit
Number(s) == FoldLeft(LAMBDA n, d : 10 * n + DigitValue[d], 0, s)
IsIndex(s) == AllDigits(s) /\ (s[1] = "0" => Len(s) = 1)
IsName(s) == /\ s # <<>> /\ s[1] \in name_start
             /\ \A i \in DOMAIN s : s[i] \in name_start \/ s[i] \in digit

(* The id that the text s gives: none, a number or a name. *)
IdOf(s) == IF IsIndex(s) THEN [by |-> "index", id |-> Min({Number(s), IntMax})]
           ELSE IF IsName(s) THEN [by |-> "name", id |-> s]
           ELSE [by |-> "next", id |-> 0]
IsId(s) == s = <<>> \/ IsIndex(s) \/ IsName(s)

(* A count is absent, a number, or the id of an argument in braces. *)
Counts(s) ==
  IF AllDigits(s) THEN {[how |-> "given", value |-> Number(s)]}
  ELSE IF Len(s) >= 2 /\ s[1] = "{" /\ s[Len(s)] = "}" /\ IsId(SubSeq(s, 2, Len(s) - 1))
       THEN {[how |-> "argument", value |-> IdOf(SubSeq(s, 2, Len(s) - 1))]}
       ELSE {}

Optional(s, chars) == {t \in Prefixes(s) : Len(t) = 0 \/ (Len(t) = 1 /\ t[1] \in chars)}
Fills(s) == {t \in Prefixes(s) :
               \/ t = <<>>
               \/ Len(t) = 1 /\ parse_align(t[1]) # align.none
               \/ /\ Len(t) >= 2 /\ t[1] \notin {"{", "}"}
                  /\ parse_align(t[Len(t)]) # align.none
                  /\ Len(t) - 1 = code_point_length(t[1])}
Widths(s) == {t \in Prefixes(s) : t = <<>> \/ (Counts(t) # {} /\ t[1] # "0")}
Precisions(s) == {t \in Prefixes(s) : t = <<>> \/ (t[1] = "." /\ Counts(Tail(t)) # {})}
Letters == DOMAIN presentation \union DOMAIN upper \union {"?"}

None == [how |-> "none", value |-> 0]

(* [[fill]align][sign][#][0][width][.precision][L][type] *)
Specs(s) ==
  UNION {UNION {UNION {UNION {UNION {UNION {UNION {
    {[fill |-> SubSeq(fa, 1, Len(fa) - 1), align |-> Last(<<"">> \o fa), sign |-> sg, alt |-> h,
      zero |-> z, width |-> IF w = <<>> THEN None ELSE CHOOSE c \in Counts(w) : TRUE,
      precision |-> IF pr = <<>> THEN None ELSE CHOOSE c \in Counts(Tail(pr)) : TRUE,
      locale |-> lo, type |-> ty] :
       ty \in {t \in Optional(After(s, fa \o sg \o h \o z \o w \o pr \o lo), Letters) :
                 Len(fa \o sg \o h \o z \o w \o pr \o lo \o t) = Len(s)}} :
    lo \in Optional(After(s, fa \o sg \o h \o z \o w \o pr), {"L"})} :
    pr \in Precisions(After(s, fa \o sg \o h \o z \o w))} :
    w \in Widths(After(s, fa \o sg \o h \o z))} :
    z \in Optional(After(s, fa \o sg \o h), {"0"})} :
    h \in Optional(After(s, fa \o sg), {"#"})} :
    sg \in Optional(After(s, fa), {"+", "-", " "})} :
    fa \in Fills(s)}

(* One item at the start of s: a character, a doubled brace, or a field.    *)
FirstItems(s) ==
  {t \in Prefixes(s) \ {<<>>} :
     \/ Len(t) = 1 /\ t[1] \notin {"{", "}"}
     \/ t \in {<<"{", "{">>, <<"}", "}">>}
     \/ /\ t[1] = "{" /\ t[Len(t)] = "}"
        /\ \E id \in Prefixes(SubSeq(t, 2, Len(t) - 1)) :
             /\ IsId(id)
             /\ LET rest == After(SubSeq(t, 2, Len(t) - 1), id)
                IN  rest = <<>> \/ rest[1] = ":"}

RECURSIVE Splits(_)
(* Every way to take s for a sequence of items. *)
Splits(s) ==
  IF s = <<>> THEN {<<>>}
  ELSE UNION {{<<t>> \o rest : rest \in Splits(After(s, t))} : t \in FirstItems(s)}

(* What an item means: itself, or a field with an id and specifiers.        *)
Readings(t) ==
  IF t \in {<<"{", "{">>, <<"}", "}">>} \/ Len(t) = 1 THEN {[text |-> t[1]]}
  ELSE LET inner == SubSeq(t, 2, Len(t) - 1)
           ids == {id \in Prefixes(inner) :
                     IsId(id) /\ (After(inner, id) = <<>> \/ After(inner, id)[1] = ":")}
       IN  UNION {IF After(inner, id) = <<>> THEN {[id |-> IdOf(id), specs |-> <<>>]}
                  ELSE {[id |-> IdOf(id), specs |-> <<r>>] : r \in Specs(Tail(After(inner, id)))} :
                  id \in ids}

(* The ids of a reading in the order in which they are given out: a field's *)
(* own, then those of its width and precision.                              *)
IdsOf(r) ==
  IF "text" \in DOMAIN r THEN <<>>
  ELSE <<r.id>> \o
       FlattenSeq([i \in DOMAIN r.specs |->
                     LET s == r.specs[i]
                     IN  (IF s.width.how = "argument" THEN <<s.width.value>> ELSE <<>>) \o
                         (IF s.precision.how = "argument" THEN <<s.precision.value>> ELSE <<>>)])

(* Ids are all given by hand or all automatic; names come after automatic   *)
(* ones, which they end.                                                    *)
ConsistentIds(ids) ==
  \A i, j \in DOMAIN ids :
    i < j => /\ ~(ids[i].by \in {"index", "name"} /\ ids[j].by = "next")
             /\ ~(ids[i].by = "next" /\ ids[j].by = "index" /\
                  ~\E k \in i .. j : ids[k].by = "name")

(* The argument that an id names: the k-th automatic id is k - 1.           *)
Resolved(ids, k) ==
  CASE ids[k].by = "index" -> ids[k].id
    [] ids[k].by = "next" -> Cardinality({j \in 1 .. k - 1 : ids[j].by = "next"})
    [] OTHER -> IF \E i \in DOMAIN args : args[i].name = ids[k].id
                THEN (CHOOSE i \in DOMAIN args : args[i].name = ids[k].id) - 1
                ELSE Len(args)

(* May an argument of type t have these specifiers?                         *)
Fit(t, s) ==
  LET letter == IF s.type = <<>> THEN "" ELSE IF s.type[1] \in DOMAIN upper THEN upper[s.type[1]]
                ELSE s.type[1]
      number == t \in integral_set \union float_set
  IN  /\ s.sign # <<>> => t \in sint_set \union float_set
      /\ s.alt # <<>> => number
      /\ s.zero # <<>> => number
      /\ s.locale # <<>> => number
      /\ s.precision.how # "none" => t \in float_set \union string_set \union cstring_set
      /\ letter \in {"d", "x", "o", "b", "c"} => t \in integral_set
      /\ letter = "c" => t # "bool_type"
      /\ letter \in {"e", "f", "g", "a"} => t \in float_set
      /\ letter = "s" => t \in bool_set \union string_set \union cstring_set
      /\ letter = "p" => t \in pointer_set \union cstring_set
      /\ letter = "?" => t \in char_set \union string_set \union cstring_set
      /\ (t = "char_type" /\ letter \in {"", "c", "?"}) =>
            /\ s.sign \in {<<>>, <<"-">>} /\ s.alt = <<>>
            /\ s.zero = <<>> \/ s.align # ""

(* A C string that is null can only be shown as a pointer.                  *)
Showable(a, letter) == a.type \in cstring_set /\ a.address = 0 => letter = "p"

(* The value of a count when the argument behind it is a.                   *)
CountOk(c, a) == /\ c.how = "given" => c.value <= IntMax
                 /\ c.how = "argument" => /\ a.type \in sint_set \union uint_set
                                          /\ a.value \in 0 .. IntMax

(* What is written for a reading whose ids resolve to the arguments as: the *)
(* argument with the specifiers one by one, or nothing when it is an error. *)
Shown(r, as) ==
  IF "text" \in DOMAIN r THEN <<r>>
  ELSE IF r.specs = <<>>
  THEN IF ~Showable(as[1], "") THEN <<>>
       ELSE <<[arg |-> as[1], fill |-> <<" ">>, align |-> align.none,
                                    sign |-> sign.none, alt |-> 0, locale |-> 0, upper |-> 0,
                                    type |-> 0, width |-> 0, precision |-> -1]>>
  ELSE LET s == r.specs[1]
           width == as[IF s.width.how = "argument" THEN 2 ELSE 1]
           precision == as[Len(as)]
           zero == s.zero # <<>> /\ s.align = ""
           letter == IF s.type = <<>> THEN "" ELSE s.type[1]
       IN  IF Fit(as[1].type, s) /\ Showable(as[1], letter) /\ CountOk(s.width, width) /\ CountOk(s.precision, precision)
           THEN <<[arg |-> as[1],
                 fill |-> IF s.fill # <<>> THEN s.fill ELSE IF zero THEN <<"0">> ELSE <<" ">>,
                 align |-> IF zero THEN align.numeric
                           ELSE IF s.align = "" THEN align.none ELSE parse_align(s.align),
                 sign |-> IF s.sign = <<"+">> THEN sign.plus
                          ELSE IF s.sign = <<" ">> THEN sign.space ELSE sign.none,
                 alt |-> Len(s.alt), locale |-> Len(s.locale),
                 upper |-> IF letter \in DOMAIN upper THEN 1 ELSE 0,
                 type |-> IF letter = "" THEN 0
                          ELSE IF letter = "?" THEN presentation_type.debug
                          ELSE presentation_type[presentation[IF letter \in DOMAIN upper
                                                              THEN upper[letter] ELSE letter].as],
                 width |-> CASE s.width.how = "none" -> 0
                             [] s.width.how = "given" -> s.width.value
                             [] OTHER -> width.value,
                 precision |-> CASE s.precision.how = "none" -> -1
                                 [] s.precision.how = "given" -> s.precision.value
                                 [] OTHER -> precision.value]>>
           ELSE <<>>

RECURSIVE OneOfEach(_)
(* All sequences with one element of each set of the sequence of sets.      *)
OneOfEach(sets) ==
  IF sets = <<>> THEN {<<>>}
  ELSE {<<e>> \o rest : e \in Head(sets), rest \in OneOfEach(Tail(sets))}

(* The readings of the whole string that are right for the arguments, each  *)
(* as what it writes.                                                       *)
Outcomes ==
  LET readings == UNION {OneOfEach([i \in DOMAIN split |-> Readings(split[i])]) : split \in Splits(fmt)}
      ids(r) == FlattenSeq([i \in DOMAIN r |-> IdsOf(r[i])])
      before(r, i) == Len(ids(SubSeq(r, 1, i - 1)))
      shown(r) == [i \in DOMAIN r |->
                     Shown(r[i], [k \in 1 .. Len(IdsOf(r[i])) |->
                                    args[Resolved(ids(r), before(r, i) + k) + 1]])]
      good == {r \in readings : /\ ConsistentIds(ids(r))
                                /\ \A k \in DOMAIN ids(r) : Resolved(ids(r), k) < Len(args)}
      right == {w \in {shown(r) : r \in good} : \A i \in DOMAIN w : w[i] # <<>>}
  IN  {FlattenSeq(w) : w \in right}

=============================================================================
