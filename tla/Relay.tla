------------------------------- MODULE Relay -------------------------------
(***************************************************************************)
(* How the relay in Iran follows redirects.  A chain of responses is what  *)
(* the origins answer, one after the other: "answer", "redirect", "nowhere"*)
(* (a redirect without a location) or "forbidden" (one to a location that  *)
(* is not allowed); after the last, they answer.                           *)
(***************************************************************************)
EXTENDS Integers, Sequences

CONSTANT MaxHops   \* requests that are sent at most: 3

ASSUME RelayAssumption == MaxHops \in Nat \ {0}

Response(chain, n) == IF n \in DOMAIN chain THEN chain[n] ELSE "answer"

\* Mutant of Follows: the limit is on the redirects that were followed.
MutantOneMore(hops) == hops <= MaxHops

\* There is another request to send after hops redirects.
Follows(hops) == hops < MaxHops

\* relay_stream: which response it passes on and whether that is still open; a location that
\* is not allowed is an error.
Follow(chain) ==
  LET after[hops \in 0..MaxHops + 1] ==
        LET r == Response(chain, hops + 1) IN
        IF ~Follows(hops) THEN [passes |-> hops, open |-> FALSE]
        ELSE IF r = "forbidden" THEN [passes |-> 0, open |-> FALSE]
        ELSE IF r = "redirect" THEN after[hops + 1]
        ELSE [passes |-> hops + 1, open |-> TRUE]
  IN  after[0]

\* The first answer of the chain is passed on if fewer redirects than the limit come before
\* it, and then from an open response; with more, the last redirect is passed on, closed.
AnswersAreRelayed(chain) ==
  LET r == Follow(chain)
      first == CHOOSE n \in 1..Len(chain) + 1 :
                 /\ Response(chain, n) # "redirect"
                 /\ \A k \in 1..n - 1 : chain[k] = "redirect"
  IN  /\ r.passes <= MaxHops
      /\ first <= MaxHops /\ Response(chain, first) # "forbidden" =>
           r.passes = first /\ r.open
      /\ r.open => r.passes = first
      /\ first > MaxHops => r.passes = MaxHops /\ chain[r.passes] = "redirect"
=============================================================================
