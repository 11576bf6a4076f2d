------------------------------- MODULE MCRecords -------------------------------
(* Three records that outlive a run, each with tables of its own: what the      *)
(* broker posts, what the trades add up to, and what the weekly mail said.      *)
EXTENDS ActivityLedger, TradeBook, WeeklyMail, TLC

(* Two rows of one account on two days; three threads of two processes.       *)
MCActivities == {"a1", "a2"}
MCAccountOf == [x \in MCActivities |-> "acct"]
MCDayOf == [x \in MCActivities |-> IF x = "a1" THEN 0 ELSE 1]
MCProcessOf == [t \in {"t1", "t2", "t3"} |-> IF t = "t3" THEN "email" ELSE "rebalance"]

(* A holding that reports on a mail's own day.                               *)
Calendar == [t \in Holdings |-> IF t = "reports" THEN {7} ELSE {}]
Findings == {{}, {"dipped"}, {"broken", "dipped"}, {"dipped", "over"}}

VARIABLES which

LedgerThread(t) == which = "ledger" /\ ThreadStep(t) /\ UNCHANGED <<which, tradeVars, mailVars>>
LedgerWorld ==
    /\ which = "ledger" /\ (NextDay \/ (\E x \in Activities : Post(x)) \/ (\E a \in BrokerAccounts : Rename(a)))
    /\ UNCHANGED <<which, tradeVars, mailVars>>
TradeStep == which = "trades" /\ TradeNext /\ UNCHANGED <<which, ledgerVars, mailVars>>
MailStep == which = "mail" /\ MailNext /\ UNCHANGED <<which, ledgerVars, tradeVars>>
RecordsNext ==
    LedgerWorld \/ (\E t \in Threads : LedgerThread(t)) \/ TradeStep \/ MailStep

recordVars == <<which, ledgerVars, tradeVars, mailVars>>
RecordsInit ==
    /\ LedgerInit /\ TradeInit /\ MailInit
    /\ which \in {"ledger", "trades", "mail"}
RecordsSpec ==
    /\ RecordsInit
    /\ [][RecordsNext]_recordVars
    /\ \A t \in Threads : WF_recordVars(LedgerThread(t))

(* Shares and options, over all years, add up to the cash that moved, and a   *)
(* loss sold on the harvest list's word is no wash sale (tax_planner,          *)
(* tax_harvest).                                                            *)
TaxesAddUp == which = "trades" => EstimatesAddUp /\ HarvestIsClean

(* Whoever asks for the ledger gets it, with or without the broker.           *)
ReadersAllRead == which = "ledger" => EveryReaderReads
================================================================================
