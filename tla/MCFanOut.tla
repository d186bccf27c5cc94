------------------------------ MODULE MCFanOut ------------------------------
(***************************************************************************)
(* Instances of FanOut, and with it of Submission, for TLC.                *)
(***************************************************************************)
EXTENDS FanOut, TLC

AllHalfOrMore == {None, <<1, 2>>, <<3, 2>>}
ActorSymmetry == Permutations(Threads) \cup Permutations(Workers)

\* Keys and fan-outs meet in the ids alone, so the instance explores one or
\* the other: children come only while the clock stands at 1 and one job was
\* submitted with a key.
OneAspect ==
  (\E t \in Threads : gathered[t] # NoFan) \/ (\E j \in Jobs : tag[j] # 0)
    => /\ clock = 1
       /\ \A t \in Threads : key[t] = None
       /\ Cardinality({j \in Jobs : status[j] # "absent" /\ tag[j] = 0}) = 1

\* No action reads the verdict, and VerdictStands compares a final one on a
\* parent that nothing disturbed with the next one of the same threshold: after
\* any other verdict the instance goes no further than it does without it.
VerdictsMatter ==
  \/ verdict = NoVerdict
  \/ /\ verdict.is \in {"succeeded", "failed"} /\ disturbed = {}
     /\ poll = NoPoll \/ poll.th = verdict.th
=============================================================================
