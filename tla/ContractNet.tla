---------------------------- MODULE ContractNet ----------------------------
(***************************************************************************)
(* One call for proposals on claudebus: cfp, bid and award are messages    *)
(* with its correlation id, and nothing else is stored.  An award is made  *)
(* by a process of the issuer, the cfp command itself when its --window    *)
(* closes or an award command, in four statements that are no transaction: *)
(* find the cfp, look for an award, read the bids, insert the award.       *)
(* Messages have ids in the order of insertion; prune removes the oldest.  *)
(* What a message says (task, score, winner) is left out.                  *)
(***************************************************************************)
EXTENDS Naturals, Sequences, FiniteSets

CONSTANTS
    Bidder,       \* sessions that bid
    Awarder,      \* the issuer's processes that may award
    MaxMessages,  \* bound on the messages of the call
    Undivided     \* TRUE: no prune falls between the statements of an award

ASSUME ContractNetAssumption ==
    IsFiniteSet(Awarder) /\ MaxMessages \in Nat /\ Undivided \in BOOLEAN

VARIABLES
    msgs,      \* the messages of this call, by id
    pruned,    \* prune removed those up to this id
    bidding,   \* bidders that found the cfp and have not inserted their bid
    step       \* where each awarding process is

vars == <<msgs, pruned, bidding, step>>

TypeOK ==
    /\ msgs \in Seq({"cfp", "bid", "award"}) /\ Len(msgs) <= MaxMessages
    /\ pruned \in 0..Len(msgs)
    /\ bidding \in SUBSET Bidder
    /\ step \in [Awarder -> {"out", "check", "bids", "insert"}]

Init ==
    /\ msgs = << >> /\ pruned = 0 /\ bidding = {}
    /\ step = [a \in Awarder |-> "out"]

OfKind(kind) == {m \in pruned + 1..Len(msgs) : msgs[m] = kind}

Insert(kind) ==
    /\ Len(msgs) < MaxMessages
    /\ msgs' = Append(msgs, kind)

(* cfp: the broadcast, once (its id is a fresh uuid).                      *)
Announce ==
    /\ msgs = << >> /\ Insert("cfp")
    /\ UNCHANGED <<pruned, bidding, step>>

(* bid: two statements, neither of which looks for an award.               *)
FindCfp(b) ==
    /\ OfKind("cfp") # {} /\ b \notin bidding
    /\ bidding' = bidding \union {b}
    /\ UNCHANGED <<msgs, pruned, step>>

Bid(b) ==
    /\ b \in bidding /\ Insert("bid")
    /\ bidding' = bidding \ {b}
    /\ UNCHANGED <<pruned, step>>

(* _do_award, statement by statement.                                      *)
FindAnything == Len(msgs) > 0                          \* seeded fault
CfpFound == OfKind("cfp") # {}

FindOwnCfp(a) ==
    /\ step[a] = "out" /\ CfpFound
    /\ step' = [step EXCEPT ![a] = "check"]
    /\ UNCHANGED <<msgs, pruned, bidding>>

CheckAwarded(a) ==
    /\ step[a] = "check"
    /\ step' = [step EXCEPT ![a] = IF OfKind("award") = {} THEN "bids" ELSE "out"]
    /\ UNCHANGED <<msgs, pruned, bidding>>

(* Without bids there is an award only to the session named by --to.       *)
ReadBids(a, named) ==
    /\ step[a] = "bids"
    /\ step' = [step EXCEPT ![a] =
                   IF named \/ OfKind("bid") # {} THEN "insert" ELSE "out"]
    /\ UNCHANGED <<msgs, pruned, bidding>>

Award(a) ==
    /\ step[a] = "insert" /\ Insert("award")
    /\ step' = [step EXCEPT ![a] = "out"]
    /\ UNCHANGED <<pruned, bidding>>

(* An awarding process or a bidder is killed.                              *)
Kill ==
    /\ \/ \E a \in Awarder : step' = [step EXCEPT ![a] = "out"] /\ UNCHANGED bidding
       \/ \E b \in Bidder : bidding' = bidding \ {b} /\ UNCHANGED step
    /\ UNCHANGED <<msgs, pruned>>

PruneOver(cut) ==                                      \* seeded fault
    /\ cut \in pruned..Len(msgs) + 1
    /\ pruned' = cut
    /\ UNCHANGED <<msgs, bidding, step>>
Prune(cut) ==
    /\ cut \in pruned..Len(msgs)
    /\ Undivided => \A a \in Awarder : step[a] = "out"
    /\ pruned' = cut
    /\ UNCHANGED <<msgs, bidding, step>>

Next ==
    \/ Announce
    \/ \E b \in Bidder : FindCfp(b) \/ Bid(b)
    \/ \E a \in Awarder : \/ FindOwnCfp(a) \/ CheckAwarded(a) \/ Award(a)
                          \/ \E named \in BOOLEAN : ReadBids(a, named)
    \/ Kill
    \/ \E cut \in 0..MaxMessages : Prune(cut)

Spec == Init /\ [][Next]_vars

-----------------------------------------------------------------------------
Awards == {m \in 1..Len(msgs) : msgs[m] = "award"}

(* A process that starts after an award sees it as long as it sees the     *)
(* cfp, whatever was pruned and whatever was bid late: only processes that *)
(* were under way together can each make an award.                         *)
AwardPerAwarder == Cardinality(Awards) <= Cardinality(Awarder)

(* "One award per cfp" (_do_award).  Two awarding processes break it.      *)
OneAward == Cardinality(Awards) <= 1
=============================================================================
