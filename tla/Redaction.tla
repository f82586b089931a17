------------------------------ MODULE Redaction ------------------------------
(***************************************************************************)
(* From what the detectors find on a page to what is left of it in the     *)
(* exported file: boxes (pipeline/extract.py), merging of overlapping      *)
(* findings (pipeline/merge.py, run.py), burn-in and the integrity check   *)
(* (pipeline/export.py, services/export_service.py).                       *)
(*                                                                         *)
(* A page is a sequence of words on lines.  The extracted text joins all   *)
(* words by a space; the text the integrity check searches has a line      *)
(* break at the end of each line.  A word is one character wide and high,  *)
(* and so is the space around it; no word is a part of another.  A scanned *)
(* page is one image without a text layer: its text is what OCR reads.     *)
(*                                                                         *)
(* PrimaryBox, NextInLine and SearchesOriginal are plausible bugs in the   *)
(* definitions that follow them.                                           *)
(***************************************************************************)
EXTENDS Naturals, Sequences, FiniteSetsExt

CONSTANTS Texts,       \* the words of the page, in reading order
          PerLine,     \* words on a line
          Scans,       \* what OCR may read on a scan of the page
          Spans,       \* <<start, end>> in the extracted text that may be found
          Policies,    \* <<confidence, code>> that rules and the model attach
          Allowlist,   \* texts that the rules exclude
          Quotes,      \* texts that the model may quote
          NoCode,      \* no exemption code
          MaxFindings  \* findings on the page

ASSUME ConstantsAssumption ==
  /\ Texts \in Seq(STRING) /\ Len(Texts) > 0
  /\ PerLine \in Nat \ {0} /\ MaxFindings \in Nat \ {0}
  /\ \A s \in Scans : s \in Seq(STRING) /\ Len(s) = Len(Texts)
  /\ \A s \in Spans : s[1] \in Nat /\ s[2] \in Nat /\ s[1] < s[2]
  /\ Quotes # {} /\ \A q \in Quotes : q \in Seq(STRING) /\ q # <<>>

VARIABLES
  ocr,       \* what OCR read; <<>> on a page that has a text layer
  stage,     \* what has been done with the page
  found,     \* what the detectors return, in their order
  kept,      \* the candidates that remain
  approved,  \* those a reviewer approves
  gone       \* the words that are not in the exported file

vars == <<ocr, stage, found, kept, approved, gone>>

-----------------------------------------------------------------------------
(* Words and boxes                                                          *)

Words == DOMAIN Texts

LineOf(i) == (i - 1) \div PerLine

Scanned == ocr # <<>>

\* What the detectors work on: the text layer, or what Textract, or Tesseract
\* when that fails, reads; both give every word a box in points of the page.
PageText == IF Scanned THEN ocr ELSE Texts

\* _words_and_text: where word i is in the extracted text.
Start(i) == 2 * (i - 1)
End(i) == Start(i) + 1

WordBox(i) ==
  LET x == 2 * ((i - 1) % PerLine)
      y == 2 * LineOf(i)
  IN  [x0 |-> x, y0 |-> y, x1 |-> x + 1, y1 |-> y + 1]

Bounding(boxes) ==
  [x0 |-> Min({b.x0 : b \in boxes}), y0 |-> Min({b.y0 : b \in boxes}),
   x1 |-> Max({b.x1 : b \in boxes}), y1 |-> Max({b.y1 : b \in boxes})]

Covering(span) == {i \in Words : Start(i) < span[2] /\ End(i) > span[1]}

\* span_to_bbox
BoxOf(f) == Bounding({WordBox(i) : i \in Covering(f.span)})

\* A text is the words it is made of, each with its distance from the first.
TextOf(span) ==
  LET S == Covering(span) IN {<<i - Min(S), PageText[i]>> : i \in S}

\* The text is what is read on the page from word i on.
ReadFrom(i, text) == \A p \in text : i + p[1] \in Words /\ PageText[i + p[1]] = p[2]

Overlap(a, b) ==
  LET x0 == Max({a.x0, b.x0})  y0 == Max({a.y0, b.y0})
      x1 == Min({a.x1, b.x1})  y1 == Min({a.y1, b.y1})
  IN  IF x1 <= x0 \/ y1 <= y0 THEN 0 ELSE (x1 - x0) * (y1 - y0)

Area(b) == (b.x1 - b.x0) * (b.y1 - b.y0)

\* _iou(a, b) > 0.5
Similar(a, b) == 2 * Overlap(a, b) > Area(a) + Area(b) - Overlap(a, b)

-----------------------------------------------------------------------------
(* Detection                                                                *)

\* The rules' findings come first, then the contextual ones; a span that meets
\* no word is skipped.
Detect(f) ==
  /\ stage = "extracted" /\ Len(found) < MaxFindings
  /\ Covering(f.span) # {}
  /\ \A k \in DOMAIN found : found[k].origin = "llm" => f.origin = "llm"
  /\ found' = Append(found, f)
  /\ UNCHANGED <<ocr, stage, kept, approved, gone>>

\* _evaluate_exclusions
Excluded(span) == TextOf(span) \in Allowlist

\* detect_page, with what run_rule returns
DetectByRule(span, policy) ==
  /\ ~Excluded(span)
  /\ Detect([span |-> span, text |-> TextOf(span), origin |-> "deterministic",
             confidence |-> policy[1], code |-> policy[2]])

\* best_fuzzy_span: an exact quote is grounded where it occurs first; one that is
\* a little different somewhere near what it means; any other is dropped.
Grounded(text) ==
  LET places == {i \in Words : ReadFrom(i, text)}
  IN  IF places = {} THEN Spans
      ELSE {<<Start(Min(places)), End(Min(places) + Max({p[1] : p \in text}))>>}

Quoted(q) == {<<k - 1, q[k]>> : k \in DOMAIN q}

\* detect_page_contextual: a code the organization does not have drops the finding.
DetectByModel(q, policy) ==
  /\ policy[2] # NoCode
  /\ \E span \in Grounded(Quoted(q)) :
       Detect([span |-> span, text |-> Quoted(q), origin |-> "llm",
               confidence |-> policy[1], code |-> policy[2]])

-----------------------------------------------------------------------------
(* Merging                                                                  *)

\* merge_overlapping: each finding joins the first one that is similar to it
\* and has not joined another.
Anchor ==
  LET a[k \in DOMAIN found] ==
        LET earlier == {j \in 1..(k - 1) :
                          a[j] = j /\ Similar(BoxOf(found[j]), BoxOf(found[k]))}
        IN  IF earlier = {} THEN k ELSE Min(earlier)
  IN  a

Clusters == {{k \in DOMAIN found : Anchor[k] = j} : j \in {Anchor[i] : i \in DOMAIN found}}

\* _ORIGIN_PRIORITY, then _CONFIDENCE_RANK.
Rank(f) ==
  4 * (IF f.origin = "llm" THEN 2 ELSE 1)
    + (CASE f.confidence = "high" -> 3 [] f.confidence = "medium" -> 2 [] OTHER -> 1)

\* The order of the cluster after its (stable) sort.
Precedes(j, k) ==
  Rank(found[j]) > Rank(found[k]) \/ (Rank(found[j]) = Rank(found[k]) /\ j < k)

FirstOf(C) == CHOOSE j \in C : \A k \in C \ {j} : Precedes(j, k)

\* Bug: the union is computed and not stored.
PrimaryBox(C) == BoxOf(found[FirstOf(C)])

UnionBox(C) == Bounding({BoxOf(found[k]) : k \in C})

\* Bug: compares with the next of the cluster only.
NextInLine(C) ==
  LET primary == FirstOf(C)
      rest == C \ {primary}
  IN  IF rest # {} /\ found[FirstOf(rest)].code \notin {NoCode, found[primary].code}
        THEN found[FirstOf(rest)].code ELSE NoCode

\* alternative_exemption_code_id: the first of the others that cites another.
Alternative(C) ==
  LET primary == FirstOf(C)
      others == {k \in C \ {primary} : found[k].code \notin {NoCode, found[primary].code}}
  IN  IF others = {} THEN NoCode ELSE found[FirstOf(others)].code

Survivor(C) ==
  [from |-> C, text |-> found[FirstOf(C)].text, code |-> found[FirstOf(C)].code,
   box |-> UnionBox(C), alternative |-> Alternative(C)]

\* _merge_and_group
Merge ==
  /\ stage = "extracted" /\ found # <<>>
  /\ kept' = {Survivor(C) : C \in Clusters}
  /\ stage' = "merged"
  /\ UNCHANGED <<ocr, found, approved, gone>>

-----------------------------------------------------------------------------
(* Review and export                                                        *)

\* The reviewers decide on every candidate; an approved one has a code, which
\* they may have to supply (DocumentReview).
Review(S) ==
  /\ stage = "merged"
  /\ approved' = S
  /\ stage' = "reviewed"
  /\ UNCHANGED <<ocr, found, kept, gone>>

WordsUnder(b) == {i \in Words : Overlap(WordBox(i), b) > 0}

\* burn_in_redactions: an image that a box meets is removed as a whole.
BurntIn ==
  IF Scanned /\ approved # {} THEN Words
  ELSE UNION {WordsUnder(r.box) : r \in approved}

\* Bug: the file as it was is searched.
SearchesOriginal(text, without) == \E i \in Words : ReadFrom(i, text)

\* "text in full_text": the words of the text follow one another on a line; of
\* a scanned page there is no text to search.
FoundIn(text, without) ==
  ~Scanned /\ \E i \in Words :
    /\ ReadFrom(i, text)
    /\ \A p \in text : i + p[1] \notin without /\ LineOf(i + p[1]) = LineOf(i)

\* verify_integrity: nothing is left inside a box, and no redacted text anywhere.
Passed(without) ==
  \A r \in approved :
    /\ Scanned \/ WordsUnder(r.box) \subseteq without
    /\ ~FoundIn(r.text, without)

\* create_export
Export ==
  /\ stage = "reviewed"
  /\ IF Passed(BurntIn)
       THEN stage' = "exported" /\ gone' = BurntIn
       ELSE stage' = "blocked" /\ UNCHANGED gone
  /\ UNCHANGED <<ocr, found, kept, approved>>

-----------------------------------------------------------------------------
Init ==
  /\ ocr \in {<<>>} \cup Scans
  /\ stage = "extracted" /\ found = <<>>
  /\ kept = {} /\ approved = {} /\ gone = {}

\* run_rule, of every active rule
RulePass == \E policy \in Policies, span \in Spans : DetectByRule(span, policy)

\* run_contextual_pass
ContextualPass == \E policy \in Policies, q \in Quotes : DetectByModel(q, policy)

Next ==
  \/ RulePass \/ ContextualPass
  \/ Merge
  \/ \E S \in SUBSET kept : Review(S)
  \/ Export

Spec == Init /\ [][Next]_vars

-----------------------------------------------------------------------------
(* Properties                                                               *)

\* Whatever was found, merged away or not, is not in the exported file once
\* the candidate that stands for it is approved: of a scanned page, too, which
\* the integrity check cannot read.
ApprovedIsGone ==
  stage = "exported" =>
    \A k \in DOMAIN found :
      (\E r \in approved : k \in r.from) => Covering(found[k].span) \subseteq gone

\* When detectors cite different exemptions for what becomes one candidate, the
\* reviewer is told of one that it does not carry.
DisagreementIsShown ==
  \A r \in kept : \A k \in r.from :
    found[k].code \notin {NoCode, r.code} => r.alternative \notin {NoCode, r.code}

\* An export is blocked only when a redacted text can still be read where no
\* approved box is: the reviewers can unblock it by approving that, too.
BlockedByLeftover ==
  stage = "blocked" =>
    \E r \in approved, i \in Words :
      /\ ReadFrom(i, r.text)
      /\ \A p \in r.text, q \in approved : i + p[1] \notin WordsUnder(q.box)

\* Known deviation: "full-document text search for every redacted span's exact
\* text (and normalized variants: case, whitespace, hyphenation) -> zero hits".
RedactedTextIsGone ==
  stage = "exported" =>
    \A r \in approved :
      ~\E i \in Words : ReadFrom(i, r.text) /\ \A p \in r.text : i + p[1] \notin gone

-----------------------------------------------------------------------------
(* The inductive invariant for the three properties                         *)

\* Every finding has a box: a span that meets no word is skipped.
FindingsMeetWords ==
  /\ found \in Seq({found[k] : k \in DOMAIN found})
  /\ \A k \in DOMAIN found : Covering(found[k].span) # {}

\* A candidate is what merging made of findings that are still the same, and
\* each finding is in one.
KeptInv ==
  /\ stage = "extracted" => kept = {}
  /\ stage # "extracted" => \A k \in DOMAIN found : \E r \in kept : k \in r.from
  /\ \A r \in kept : r.from \subseteq DOMAIN found /\ r = Survivor(r.from)

ReviewInv ==
  /\ approved \subseteq kept
  /\ stage = "exported" => gone = BurntIn

RedactionInv == FindingsMeetWords /\ KeptInv /\ ReviewInv /\ BlockedByLeftover

=============================================================================
