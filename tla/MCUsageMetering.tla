-------------------------- MODULE MCUsageMetering --------------------------
\* An instance of UsageMetering for TLC.
EXTENDS UsageMetering

CONSTANTS w1, w2

\* Requests overlap with each other, and with a scheduler's worker that runs each
\* job now and then.
Duties == [w \in Workers |-> IF w = w1 THEN {"request"} ELSE {"request", "report", "notify"}]

\* The provider knows an organization whose cap is monthly, or lowered to 0, and
\* does not know one whose cap is a pilot's, or none.
Agencies ==
  {[plan |-> "growth", override |-> None, customer |-> TRUE],
   [plan |-> "enterprise", override |-> 0, customer |-> TRUE],
   [plan |-> "pilot", override |-> None, customer |-> FALSE],
   [plan |-> "enterprise", override |-> None, customer |-> FALSE]}

\* An archive of two documents and what is refused, and a file refused whole: an
\* upload that fails to extract one of the two stands for an upload of one.
SomeFiles == {[kind |-> "zip", parts |-> <<"pdf", "zip", "office", "pdf">>],
              [kind |-> "infected", parts |-> <<>>]}

=============================================================================
