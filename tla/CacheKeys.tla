------------------------------- MODULE CacheKeys -------------------------------
(***************************************************************************)
(* How the @cache decorator (src/app/core/utils/cache.py) derives the keys *)
(* it fills and deletes from its arguments and from the keyword arguments  *)
(* of a request.                                                           *)
(*                                                                         *)
(* A template such as "user_{user_id}_time_logs" is a sequence of tokens,  *)
(* a formatted string the sequence of their texts.  Texts are split the    *)
(* same way everywhere, at ":" and around values.  A step that raises in   *)
(* the code has an operator that says when it does not.                    *)
(***************************************************************************)
EXTENDS Naturals, Sequences
LOCAL INSTANCE FiniteSetsExt

Lit(s) == [kind |-> "lit", text |-> s]
Arg(n) == [kind |-> "arg", text |-> n]

NoName == ""      \* resource_id_name is None
Star == "*"       \* the wildcard of a Redis pattern

(* The argument names in use that contain the letters "id".                *)
NamesWithId == {"id", "user_id", "item_id", "resource_id"}

-----------------------------------------------------------------------------
(* kwargs: a sequence of [name, type, value], in the order of the dict.    *)

Named(kw, n) == \E i \in DOMAIN kw : kw[i].name = n

ValueOf(kw, n) == kw[CHOOSE i \in DOMAIN kw : kw[i].name = n].value

(* _infer_resource_id: an int counts when its name says so, a str always,  *)
(* and with a tuple of types nothing does.                                 *)
IsId(a, type) ==
  /\ a.type = type
  /\ type = "int" => a.name \in NamesWithId
  /\ type \in {"int", "str"}

CanIdentify(e, kw) ==
  IF e.ridName # NoName THEN Named(kw, e.ridName)
                        ELSE \E i \in DOMAIN kw : IsId(kw[i], e.ridType)

ResourceId(e, kw) ==
  IF e.ridName # NoName
    THEN ValueOf(kw, e.ridName)
    ELSE kw[Max({i \in DOMAIN kw : IsId(kw[i], e.ridType)})].value

(* _format_prefix                                                          *)
CanFormat(t, kw) == \A i \in DOMAIN t : t[i].kind = "arg" => Named(kw, t[i].text)

Format(t, kw) ==
  [i \in DOMAIN t |-> IF t[i].kind = "arg" THEN ValueOf(kw, t[i].text) ELSE t[i].text]

(* Mutant of OwnKey: the id is left out of the key.                        *)
OwnKeyWithoutId(e, kw) == Format(e.prefix, kw) \o <<":">>

OwnKey(e, kw) == Format(e.prefix, kw) \o <<":", ResourceId(e, kw)>>

-----------------------------------------------------------------------------
(* _format_extra_data: a sequence of [prefix, id], the items of the dict.  *)
(* The first bracketed name of id is looked up.                            *)

FirstArg(t) == t[Min({i \in DOMAIN t : t[i].kind = "arg"})].text

CanFormatExtra(extra, kw) ==
  \A i \in DOMAIN extra :
    /\ CanFormat(extra[i].prefix, kw)
    /\ \E j \in DOMAIN extra[i].id : extra[i].id[j].kind = "arg"
    /\ Named(kw, FirstArg(extra[i].id))

(* Of items whose prefixes format alike the last one stays in the dict.    *)
ExtraKeys(extra, kw) ==
  LET prefix(i) == Format(extra[i].prefix, kw)
      kept == {i \in DOMAIN extra :
                 \A j \in DOMAIN extra : j > i => prefix(j) # prefix(i)}
  IN {prefix(i) \o <<":", ValueOf(kw, FirstArg(extra[i].id))>> : i \in kept}

-----------------------------------------------------------------------------
(* Mutant of PatternOf: the arguments in a pattern match anything.         *)
PatternOfAny(p, kw) ==
  [i \in DOMAIN p |-> IF p[i].kind = "arg" THEN Star ELSE p[i].text] \o <<Star>>

PatternOf(p, kw) == Format(p, kw) \o <<Star>>

(* Where in k the first i texts of p may end, the ones before in from.     *)
Onward(p, k, i, from) ==
  {j \in 0..Len(k) : \E h \in from : \/ p[i] = Star /\ h <= j
                                     \/ j = h + 1 /\ p[i] = k[j]}

(* Redis: the whole key matches, a star any text, the empty one included.  *)
Matches(p, k) ==
  LET ends[i \in 0..Len(p)] ==
        IF i = 0 THEN {0} ELSE Onward(p, k, i, ends[i - 1])
  IN Len(k) \in ends[Len(p)]

-----------------------------------------------------------------------------
(* What the decorator does for a request with arguments kw to endpoint e.  *)

(* It gets as far as the key, and a GET names nothing to invalidate.       *)
Keyed(e, kw) ==
  /\ CanIdentify(e, kw)
  /\ CanFormat(e.prefix, kw)
  /\ e.method = "GET" => e.extra = <<>> /\ e.patterns = <<>>

(* It gets through all invalidations.                                      *)
Completes(e, kw) ==
  /\ CanFormatExtra(e.extra, kw)
  /\ \A i \in DOMAIN e.patterns : CanFormat(e.patterns[i], kw)

(* Mutant of Deleted: the extra keys are formatted and forgotten.          *)
DeletedWithoutExtra(e, kw) == {OwnKey(e, kw)}

(* The keys it deletes by name, until the first error if any: its own, and *)
(* the extra ones once all of them are formatted.                          *)
Deleted(e, kw) ==
  {OwnKey(e, kw)} \cup
    IF CanFormatExtra(e.extra, kw) THEN ExtraKeys(e.extra, kw) ELSE {}

(* Those of keys that match a pattern it gets to, in order.  Which of them *)
(* SCAN returns, and the decorator deletes, is not settled: the first      *)
(* cursor is -1, which Redis did not hand out, and only a scan from 0 is   *)
(* said to return every key.                                               *)
Matched(e, kw, keys) ==
  LET reached(i) == \A j \in 1..i : CanFormat(e.patterns[j], kw)
  IN {k \in keys : /\ CanFormatExtra(e.extra, kw)
                   /\ \E i \in DOMAIN e.patterns :
                        reached(i) /\ Matches(PatternOf(e.patterns[i], kw), k)}
=============================================================================
