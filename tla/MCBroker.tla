------------------------------ MODULE MCBroker ------------------------------
(***************************************************************************)
(* A finite instance of Broker: one neighbourhood, and signals that accept *)
(* each other, of a user who has logged in through Telegram before and one *)
(* who is new to the broker.                                               *)
(***************************************************************************)
EXTENDS Broker

CONSTANTS ann, ben

MCCell == {"here"}
MCText == MCCell
MCCellFromString == [t \in MCText |-> t]
MCString == [x \in MCCell |-> x]
MCDistance == [xy \in MCCell \X MCCell |-> 0]
MCMeasurable == MCCell \X MCCell

anybody == [locationH3 |-> "here", gender |-> "F", seeking |-> "any",
            age |-> 30, ageMin |-> 25, ageMax |-> 50]

MCProfiles == {anybody}

\* The broker has its bot at first.
MCStart ==
  /\ BrokerInit
  /\ bot
  /\ users = {ann} /\ telegramID[ann] = "chat"

MCFairSpec ==
  /\ MCStart
  /\ [][BrokerNext]_brokerVars
  /\ SF_brokerVars(SchedulerSweeps)
  /\ SF_brokerVars(SchedulerRetries)

=============================================================================
