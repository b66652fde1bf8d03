---------------------------- MODULE MCMaintenance ----------------------------
(***************************************************************************)
(* Instances of Maintenance and Relevance for TLC.  A behaviour has one    *)
(* theme: the cleanup, the metadata passes, the owners, the preferences,   *)
(* or, with no steps at all, one query and one listing to be judged.       *)
(***************************************************************************)
EXTENDS Maintenance, Relevance

CONSTANTS s1, s2, q1, q2, q3, u1, u2, a, b, c, m1, m2, f1, f2, j1, j2

VARIABLES theme, sample
mcvars == <<vars, theme, sample>>

-----------------------------------------------------------------------------
(* A vocabulary. *)

W(word) == <<word>>      \* the token of a word
Parts == {"drill", "makita", "bosch", "impact", "driver", "battery", "holder", "for", "sale", "with",
          "and", "yo", "gsb", "18v", "55", "2"}
MCLetters == [p \in Parts |-> CASE p \in {"55", "2"} -> 0 [] p = "18v" -> 1 [] OTHER -> 3]
MCDigits == [p \in Parts |-> CASE p \in {"55", "18v"} -> 2 [] p = "2" -> 1 [] OTHER -> 0]
MCBrands == [p \in {<<W("makita")>>, <<W("bosch")>>} |-> p[1][1]]
MCAccessories == {<<W("battery")>>, <<W("holder")>>, <<W("battery"), W("holder")>>}
MCExtraAccessories == {}
MCFamilies ==
    {[core |-> <<W("drill")>>, strong |-> {<<W("drill")>>, <<W("driver"), W("drill")>>},
      related |-> {<<W("impact"), W("driver")>>, <<W("driver")>>}]}
MCLegacyInclusion == {W("with")}
MCInclusion == {W("with")}
MCConjunctions == {W("and")}
MCCompatibility == {W("for")}
MCStopWords == {W("for"), W("with"), W("and")}
MCForSale == <<W("for"), W("sale")>>
MCQuantities == {W("2"), W("55")}
MCInitialisms == (<<W("driver"), W("impact"), W("yo")>> :> W("diy"))

-----------------------------------------------------------------------------
(* Three things to ask for, and three goods. *)

QueryOf == (q1 :> <<<<W("makita")>>, <<W("drill")>>>>) @@ (q2 :> <<<<W("driver")>>>>)
        @@ (q3 :> <<<<W("driver")>>>>)
AskedOn == (q1 :> {m1, m2}) @@ (q2 :> {m1, m2}) @@ (q3 :> {m2})

\* The second names the brand in its description only.
OfferOf == (a :> [title |-> <<W("makita"), W("drill")>>, description |-> <<>>])
        @@ (b :> [title |-> <<W("impact"), W("driver")>>, description |-> <<W("makita")>>])
        @@ (c :> [title |-> <<W("driver"), W("drill")>>, description |-> <<>>])

Offered == (a :> m1) @@ (b :> m1) @@ (c :> m2)
ByScan == {p \in Ask \X Good : Evaluate("legacy", QueryOf[p[1]], OfferOf[p[2]]).relevant}
ByCleanup ==
    {p \in Ask \X Good :
        EvaluateLegacy(QueryOf[p[1]], [OfferOf[p[2]] EXCEPT !.description = <<>>]).relevant}

-----------------------------------------------------------------------------
(* Queries and listings to be judged. *)

Chunks == {<<W(w)>> : w \in {"drill", "makita", "battery", "holder", "for", "yo"}}
          \cup {<<<<"gsb", "18v">>>>, <<W("18v"), W("55")>>, <<W("2"), W("2"), W("2"), W("2"), W("55")>>}

\* Every query of up to four words, with the listing that has it for a title.
Echoes == {[query |-> q, listing |-> Untold(FlattenSeq(q))] : q \in BoundedSeq(Chunks, 4) \ {<<>>}}

\* Queries of up to three words with listings that miss, reorder and add some.
Words == {<<W(w)>> : w \in {"drill", "makita", "impact", "yo"}} \cup {<<<<"gsb", "18v">>>>}
Titles == BoundedSeq({W("drill"), W("driver"), W("bosch"), W("impact"), W("battery"), W("yo"),
                      <<"gsb">>, <<"18v">>}, 3)
Mixed == [query : BoundedSeq(Words, 2) \ {<<>>}, listing : {Untold(t) : t \in Titles}]
   \cup [query : {<<<<W("yo")>>, <<W("sale")>>, <<W("impact")>>, <<W("drill")>>>>},
         listing : {Untold(t) : t \in Titles}]

Themes == {"cleanup", "metadata", "owners", "choices", "grading"}

MCInit ==
    /\ Init
    /\ theme \in Themes
    /\ sample \in IF theme = "grading" THEN Echoes \cup Mixed ELSE {<<>>}
    /\ search[s1].ask = q1
    /\ CASE theme = "metadata" -> Len(listing) = 2 /\ \A r \in DOMAIN listing : listing[r].field[f2] = 0
         [] theme = "cleanup" -> Len(listing) = 1 /\ listing[1].good # b /\ listing[1].field = [f \in Field |-> 0]
         [] theme = "owners" -> Len(listing) = 1 /\ listing[1].field = [f \in Field |-> 0]
         [] OTHER -> listing = <<>>

-----------------------------------------------------------------------------
CleaningUp ==
    \/ \E s \in Search : DeleteSearch(s)
    \/ \E s \in Search, ask \in Ask : Edit(s, ask)
    \/ Signup(u1) \/ CreateSearch(u1, s2, q2)
    \/ \E j \in Job : (Running("scan") = {} /\ StartScan(j)) \/ FinishScan(j, b, Field)
    \/ \E j \in Job : StartCleanup(j) \/ Judge(j) \/ RemoveRows(j) \/ Abort(j)

Filling ==
    \/ \E status \in Terminal : (\E j \in Job : job[j] = Idle) /\ Reset(status)
    \/ \E j \in Job :
          \/ \E unset \in SUBSET Lookup : StartPass(j, unset)
          \/ Enrich(j) \/ Abort(j)
          \/ StartCleanup(j) \/ Judge(j) \/ RemoveRows(j)

\* Of one listing, which both searches want.
Migrating ==
    \/ \E u \in User : Signup(u) \/ \E s \in Search : CreateSearch(u, s, q2)
    \/ \E s \in Search : DeleteSearch(s)
    \/ \E j \in Job : StartScan(j) \/ FinishScan(j, b, Field)
    \/ \E j \in Job :
          \/ \E u \in User : StartCutover(j, u)
          \/ Assign(j) \/ StartLink(j) \/ Link(j) \/ StartStamp(j) \/ Stamp(j) \/ Abort(j)

Choosing ==
    \/ \E u \in User : Signup(u) \/ SetChat(u) \/ Promote(u) \/ \E j \in Job : StartPrefer(j, u)
    \/ \E j \in Job : Prefer(j) \/ Abort(j)

MCNext ==
    /\ \/ theme = "cleanup" /\ CleaningUp
       \/ theme = "metadata" /\ Filling
       \/ theme = "owners" /\ Migrating
       \/ theme = "choices" /\ Choosing
    /\ UNCHANGED <<theme, sample>>

Sessions == Permutations(Job)

MCSpec == MCInit /\ [][MCNext]_mcvars

-----------------------------------------------------------------------------
(* A property of the engines. *)

\* A listing whose title is what was asked for, word by word, is relevant to
\* either engine (evaluator.py, evaluate_relevance; engine_v2.py,
\* evaluate_relevance_v2).
AskedForIsFound ==
    theme = "grading" /\ sample.listing = Untold(SaidBy(sample.query)) /\ PlainlyPut(sample.query)
    => \A engine \in Engines : Evaluate(engine, sample.query, sample.listing).relevant
=============================================================================
