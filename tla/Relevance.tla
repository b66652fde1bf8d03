----------------------------- MODULE Relevance ------------------------------
(***************************************************************************)
(* core/relevance: whether a marketplace's result is what a saved search   *)
(* asked for.  Two pure functions of a query and a listing: the legacy     *)
(* engine (evaluate_relevance), which also judges the historical cleanup,  *)
(* and the lexical one (evaluate_relevance_v2).                            *)
(*                                                                         *)
(* Texts are what tokenize and stem_token return.  A token is a sequence   *)
(* of parts, so that "gsb18v" is <<"gsb", "18v">> and putting tokens       *)
(* together is concatenation.  A query is a sequence of chunks, the words  *)
(* between its blanks, each a sequence of tokens.  The vocabularies are    *)
(* parameters; the engines run on whatever is registered.                  *)
(***************************************************************************)
EXTENDS Integers, Sequences, FiniteSets, SequencesExt

CONSTANTS
    Letters, Digits,     \* per part, how many of its characters are letters, digits
    Brands,              \* per phrase of brands.py, the brand it names
    Accessories,         \* the phrases of accessories.py
    ExtraAccessories,    \* the words engine_v2 adds to them
    Families,            \* families.py: records with core, strong, related
    LegacyInclusion, Inclusion, Conjunctions, Compatibility, StopWords,
    ForSale,             \* "for" followed by "sale" is no marker of compatibility
    Quantities,          \* tokens is_quantity takes for a count
    Initialisms,         \* per sequence of words, the token their initials make
    MinScore             \* relevance_min_score

Part == DOMAIN Letters
Token == Seq(Part)

\* What the catalogs have in common: no brand's name begins inside a brand's name,
\* and a family is known by its own name, which register_family sees to.
ASSUME RelevanceAssumption ==
    /\ DOMAIN Brands \subseteq Seq(Token) \ {<<>>}
    /\ \A p, q \in DOMAIN Brands : \A k \in DOMAIN p :
          (\A i \in DOMAIN q : k + i - 1 <= Len(p) => p[k + i - 1] = q[i]) => p = q /\ k = 1
    /\ Accessories \subseteq Seq(Token)
    /\ \A f \in Families : f.core \in f.strong
    /\ MinScore \in Int

-----------------------------------------------------------------------------
(* text.py, query.py, families.py *)

Occurs(phrase, at, tokens) ==
    /\ at + Len(phrase) - 1 <= Len(tokens)
    /\ SubSeq(tokens, at, at + Len(phrase) - 1) = phrase

Mentions(tokens, phrase) == \E at \in DOMAIN tokens : Occurs(phrase, at, tokens)

MatchesIn(tokens, phrases) == {p \in phrases : Mentions(tokens, p)}

BrandsIn(tokens) == {Brands[p] : p \in MatchesIn(tokens, DOMAIN Brands)}

Without(tokens, positions) ==
    LET kept[i \in 0..Len(tokens)] ==
            IF i = 0 THEN <<>>
            ELSE IF i \in positions THEN kept[i - 1] ELSE Append(kept[i - 1], tokens[i])
    IN  kept[Len(tokens)]

BrandPositions(tokens) ==
    {i \in DOMAIN tokens : \E p \in DOMAIN Brands, at \in DOMAIN tokens :
                              Occurs(p, at, tokens) /\ i \in at..(at + Len(p) - 1)}

CoreTokens(query) ==
    LET tokens == FlattenSeq(query) IN Without(tokens, BrandPositions(tokens))

\* find_family: the one named by all of the tokens, or by the first that
\* names any; a set of at most one.
FamilyOf(tokens) ==
    LET named(i) == {f \in Families : f.core = <<tokens[i]>>}
        naming == {i \in DOMAIN tokens : named(i) # {}}
    IN  IF \E f \in Families : f.core = tokens THEN {f \in Families : f.core = tokens}
        ELSE IF naming = {} THEN {} ELSE named(Min(naming))

-----------------------------------------------------------------------------
(* evaluator.py *)

Verdict(relevant, score, reason) == [relevant |-> relevant, score |-> score, reason |-> reason]

Clamp(score) == Max({0, Min({100, score})})

\* _title_accessory_matches: "with a case" sells no case.
TitleAccessories(title) ==
    {p \in Accessories : \E at \in DOMAIN title :
        /\ Occurs(p, at, title)
        /\ \A m \in DOMAIN title : title[m] \in LegacyInclusion => at \notin (m + 1)..(m + 4)}

NoMatch == [score |-> 0, unambiguous |-> FALSE]

\* _match_query_accessory_phrase: the longest accessory the query names, the
\* first of several.
AccessoryMatch(core, asked, title) ==
    LET longest == {p \in asked : \A o \in asked : Len(o) <= Len(p)}
        start(p) == Min({at \in DOMAIN core : Occurs(p, at, core)})
        target == CHOOSE p \in longest : \A o \in longest : start(p) <= start(o)
    IN  IF Mentions(title, target) THEN [score |-> 55, unambiguous |-> TRUE] ELSE NoMatch

\* _score_core_match, on the title only.
CoreMatch(core, title) ==
    LET asked == MatchesIn(core, Accessories)
        family == FamilyOf(core)
        strong == UNION {MatchesIn(title, f.strong) : f \in family}
        related == UNION {MatchesIn(title, f.related) : f \in family}
        shared == {t \in Range(core) : Contains(title, t)}
        found(score, phrases) == [score |-> score, unambiguous |-> \E p \in phrases : Len(p) > 1]
    IN  CASE strong # {} -> found(55, strong)
          [] strong = {} /\ related # {} -> found(35, related)
          [] strong \cup related = {} /\ asked # {} -> AccessoryMatch(core, asked, title)
          [] strong \cup related \cup asked = {} /\ family # {} -> NoMatch
          [] asked \cup family = {} ->
                IF Cardinality(shared) >= Min({Len(core), 2}) THEN [score |-> 55, unambiguous |-> FALSE]
                ELSE NoMatch

\* evaluate_relevance.  Only the brands are looked for in the description too.
EvaluateLegacy(query, listing) ==
    LET wanted == BrandsIn(FlattenSeq(query))
        named == BrandsIn(listing.title \o listing.description)
        brand == IF wanted \cap named # {} THEN 30 ELSE 0
        core == CoreTokens(query)
        match == CoreMatch(core, listing.title)
        penalty == IF /\ TitleAccessories(listing.title) # {} /\ ~match.unambiguous
                      /\ MatchesIn(core, Accessories) = {}
                   THEN 45 ELSE 0
        score == Clamp(brand + match.score - penalty)
    IN  IF wanted # {} /\ ~named \subseteq wanted THEN Verdict(FALSE, 15, "brand_conflict")
        ELSE IF core = <<>>
             THEN IF brand > 0 THEN Verdict(TRUE, brand + 55, "")
                  ELSE Verdict(FALSE, 0, "brand_only_query_not_mentioned")
        ELSE IF match.score > 0 /\ score >= 50 THEN Verdict(TRUE, score, "")
        ELSE Verdict(FALSE, score, IF penalty > 0 THEN "accessory_without_core_product_match"
                                   ELSE IF match.score = 0 THEN "no_core_product_match"
                                   ELSE "low_relevance_score")

-----------------------------------------------------------------------------
(* engine_v2.py: parse_query_v2 *)

Total(f, parts) == FoldLeft(LAMBDA sum, p : sum + f[p], 0, parts)

HasDigit(token) == Total(Digits, token) > 0

\* A chunk with a digit in it is one identifier, any other a word per token.
IsIdentifier(chunk) == \E t \in Range(chunk) : HasDigit(t)

ItemsOf(chunk) ==
    IF IsIdentifier(chunk) THEN <<[token |-> FlattenSeq(chunk), id |-> TRUE]>>
    ELSE [t \in DOMAIN chunk |-> [token |-> chunk[t], id |-> FALSE]]

Items(query) == FlattenSeq([k \in DOMAIN query |-> ItemsOf(query[k])])

\* _find_brands: from the left, the longest phrase first, without overlaps.
BrandSpans(tokens) ==
    LET from[i \in 1..(Len(tokens) + 1)] ==
            LET here == {p \in DOMAIN Brands : i <= Len(tokens) /\ Occurs(p, i, tokens)}
                longest == CHOOSE p \in here : \A o \in here : Len(o) <= Len(p)
            IN  IF i > Len(tokens) THEN {}
                ELSE IF here = {} THEN from[i + 1]
                ELSE {[brand |-> Brands[longest], at |-> i..(i + Len(longest) - 1)]}
                        \cup from[i + Len(longest)]
    IN  from[1]

Named(tokens) == {span.brand : span \in BrandSpans(tokens)}

Parse(query) ==
    LET items == Items(query)
        spans == {span \in BrandSpans([i \in DOMAIN items |-> items[i].token]) :
                     \A i \in span.at : ~items[i].id}
        words == {i \in DOMAIN items : ~items[i].id}
        stops == {i \in words : items[i].token \in StopWords /\ Cardinality(words) > 1}
    IN  [brands |-> {span.brand : span \in spans},
         terms |-> Without(items, stops \cup UNION {span.at : span \in spans})]

Strong(token) == Total(Letters, token) >= 2 /\ Total(Digits, token) >= 2

Weight(term) == IF ~term.id THEN 1 ELSE IF Strong(term.token) THEN 3 ELSE 2

WeightOf(terms, positions) ==
    LET sum[i \in 0..Len(terms)] ==
            IF i = 0 THEN 0
            ELSE IF i \in positions THEN sum[i - 1] + Weight(terms[i]) ELSE sum[i - 1]
    IN  sum[Len(terms)]

-----------------------------------------------------------------------------
(* engine_v2.py: evaluate_relevance_v2 *)

Windows(title) ==
    {FlattenSeq(SubSeq(title, i, Min({i + n, Len(title)}))) : i \in DOMAIN title, n \in 0..3}

\* Mutant: an identifier must be one token of the title.
HitByWord(term, title) == Contains(title, term.token)

Hit(term, title) ==
    IF term.id THEN term.token \in Windows(title) ELSE Contains(title, term.token)

\* _related_family_phrases
RelatedHit(term, title) ==
    ~term.id /\ \E f \in FamilyOf(<<term.token>>) :
                   \E p \in f.related \ {<<term.token>>} : Mentions(title, p)

\* _rescue_split_forms: an identifier written in one with its neighbours, and
\* initials.
Rescued(terms, title) ==
    LET run(i, j) == [k \in 1..(j - i + 1) |-> terms[i + k - 1].token]
        identifies(i, j) == /\ j \in (i + 1)..(i + 3)
                            /\ \E k \in i..j : terms[k].id
                            /\ FlattenSeq(run(i, j)) \in Windows(title)
        abbreviates(i, j) == /\ j \in (i + 2)..(i + 4)
                             /\ \A k \in i..j : ~terms[k].id
                             /\ run(i, j) \in DOMAIN Initialisms
                             /\ Contains(title, Initialisms[run(i, j)])
    IN  {k \in DOMAIN terms : \E i \in 1..k, j \in k..Len(terms) :
            identifies(i, j) \/ abbreviates(i, j)}

\* Of n plain words so many may be missing.
Allowed(n) == IF n = 0 THEN 0 ELSE (n - 1) \div 3

\* round(), which takes a half to the even side.
Round(a, b) ==
    LET q == a \div b
        r == 2 * (a % b)
    IN  IF r > b \/ (r = b /\ q % 2 = 1) THEN q + 1 ELSE q

\* The points for the product: matched is in tenths, for a related product's 0.6.
ProductPoints(matched, total) == Round(70 * matched, 10 * total)

\* _phrase_bonus, given where each matched word first occurs.
PhraseBonus(terms, places, title) ==
    IF Cardinality(DOMAIN places) < Len(terms) THEN 0
    ELSE IF Len(terms) = 1 THEN 10
    ELSE IF Mentions(title, [i \in DOMAIN terms |-> terms[i].token]) THEN 15
    ELSE IF Max(Range(places)) - Min(Range(places)) <= Len(terms) + 1 THEN 8 ELSE 0

\* _accessory_stems
AccessoryWords == ExtraAccessories \cup {p[1] : p \in {a \in Accessories : Len(a) = 1}}

\* _unrequested_accessories: neither included, nor counted, nor listed after
\* one that is.
SellsAccessory(title, requested) ==
    LET odd == {i \in DOMAIN title : title[i] \in AccessoryWords \ requested}
        exempt[i \in DOMAIN title] ==
            /\ i \in odd
            /\ \/ \E m \in 1..(i - 1) : title[m] \in Inclusion /\ i <= m + 4
               \/ i > 1 /\ title[i - 1] \in Quantities
               \/ i > 2 /\ title[i - 1] \in Conjunctions /\ exempt[i - 2]
    IN  \E i \in odd : ~exempt[i]

\* Everything that was asked for comes after "for" or "fits".
OnlyCompatible(title, places) ==
    LET markers == {i \in DOMAIN title :
                      title[i] \in Compatibility /\ SubSeq(title, i, Min({i + 1, Len(title)})) # ForSale}
    IN  /\ markers # {} /\ DOMAIN places # {}
        /\ \A place \in Range(places) : place > Min(markers)

\* What the title says about the terms.
Coverage(terms, title) ==
    LET hits == {i \in DOMAIN terms : Hit(terms[i], title)}
        related == {i \in (DOMAIN terms) \ hits : RelatedHit(terms[i], title)}
        lost == (DOMAIN terms) \ (hits \cup related)
        missing == lost \ Rescued(terms, title)
        saved == {i \in lost : \A k \in missing : terms[k] # terms[i]}
        placed == {terms[i].token : i \in {h \in hits : ~terms[h].id}}
    IN  [missing |-> missing, related |-> related,
         matched |-> 10 * WeightOf(terms, hits \cup saved) + 6 * WeightOf(terms, related),
         places |-> [t \in placed |-> Min({k \in DOMAIN title : title[k] = t})]]

EvaluateTerms(parsed, title, brand) ==
    LET terms == parsed.terms
        plain == {i \in DOMAIN terms : ~terms[i].id}
        found == Coverage(terms, title)
        product == ProductPoints(found.matched, WeightOf(terms, DOMAIN terms))
        accessory == IF SellsAccessory(title, {terms[i].token : i \in DOMAIN terms}) THEN 50 ELSE 0
        compatibility == IF OnlyCompatible(title, found.places) THEN 50 ELSE 0
        score == Clamp(product + PhraseBonus(terms, found.places, title) + brand
                          - accessory - compatibility)
    IN  IF ~found.missing \subseteq plain
        THEN Verdict(FALSE, product + brand,
                     IF \E i \in found.missing \ plain : Strong(terms[i].token)
                     THEN "missing_model_identifier" ELSE "missing_required_terms")
        ELSE IF Cardinality(found.missing) > Allowed(Cardinality(plain))
             THEN Verdict(FALSE, product + brand, "missing_required_terms")
        ELSE IF score >= MinScore THEN Verdict(TRUE, score, "")
        ELSE Verdict(FALSE, score, IF accessory > 0 THEN "accessory_mismatch"
                                   ELSE IF compatibility > 0 THEN "compatibility_target_only"
                                   ELSE "low_relevance_score")

EvaluateV2(query, listing) ==
    LET parsed == Parse(query)
        inTitle == Named(listing.title) \cap parsed.brands
        inText == inTitle \cup (Named(listing.description) \cap parsed.brands)
    IN  IF parsed.terms = <<>> /\ parsed.brands = {} THEN Verdict(FALSE, 0, "empty_query")
        ELSE IF listing.title = <<>> THEN Verdict(FALSE, 0, "missing_title")
        ELSE IF parsed.brands # {} /\ Named(listing.title) # {} /\ inTitle = {}
             THEN Verdict(FALSE, 15, "brand_conflict")
        ELSE IF parsed.terms = <<>>
             THEN IF inText = {} THEN Verdict(FALSE, 0, "brand_only_not_mentioned")
                  ELSE Verdict(TRUE, IF inTitle # {} THEN 85 ELSE 60, "")
        ELSE EvaluateTerms(parsed, listing.title, IF parsed.brands = {} \/ inTitle # {} THEN 15 ELSE 8)

-----------------------------------------------------------------------------
\* service.py: shadow decides as legacy, and anything unknown is legacy.
Evaluate(engine, query, listing) ==
    IF engine = "v2" THEN EvaluateV2(query, listing) ELSE EvaluateLegacy(query, listing)

-----------------------------------------------------------------------------
(* What the engines are to agree on: a listing whose title is the query,   *)
(* word by word, is what was asked for.                                    *)

Engines == {"legacy", "v2"}

\* What a query says, as its tokens, and a listing that says no more.
SaidBy(query) == FlattenSeq(query)
Untold(title) == [title |-> title, description |-> <<>>]

BrandWords == UNION {Range(p) : p \in DOMAIN Brands}

\* The words of a query that engine_v2 is sure to look for.
Asked(query) ==
    {t \in UNION {Range(query[k]) : k \in {k \in DOMAIN query : ~IsIdentifier(query[k])}} :
        t \notin StopWords \cup BrandWords}

\* Some queries are beyond one of the engines.
PlainlyPut(query) ==
    LET said == SaidBy(query)
        core == CoreTokens(query)
    IN  \* no word is said twice, and some word is no stop word;
        /\ IsInjective(said)
        /\ \E t \in Range(said) : t \notin StopWords
        \* no brand is part of an accessory's name, nor stands inside one or inside
        \* the name of a family;
        /\ \A p \in Accessories : Mentions(core, p) <=> Mentions(said, p)
        /\ \A f \in Families : f.core = core => Mentions(said, core)
        \* an accessory is a word of the query, not of an identifier or a brand;
        /\ Range(said) \cap AccessoryWords \subseteq Asked(query)
        \* an identifier has up to four tokens;
        /\ \A k \in DOMAIN query : IsIdentifier(query[k]) => Len(query[k]) <= 4
        \* before a marker of compatibility there is a word that is asked for.
        /\ \A i \in DOMAIN said : said[i] \in Compatibility => \E k \in 1..(i - 1) : said[k] \in Asked(query)

AskedFor(query) == \A engine \in Engines : Evaluate(engine, query, Untold(SaidBy(query))).relevant
=============================================================================
