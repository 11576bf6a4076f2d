------------------------------- MODULE MCFilings -------------------------------
(* What is read of filings: the sweep over its items and the week of its mails  *)
(* (the second sees the first as one step, so a behaviour is one or the       *)
(* other's), and the moonshot basket, which lives from their figures.         *)
EXTENDS MCFilingSweep, EveningAlerts, MoonshotBasket

(* A quarterly report of two share classes, a 13D by one holding on another,  *)
(* and a headline; from a Friday to the Monday.                            *)
CONSTANTS report, activist, headline

Kinds == [f \in Papers |-> CASE f = report -> "periodic" [] f = activist -> "activist" [] OTHER -> "news"]
Parties == [f \in Papers |-> CASE f = report -> {"goog", "googl"} [] f = activist -> {"goog", "oklo"}
                               [] OTHER -> {"oklo"}]
Subjects == [f \in Papers |-> IF f = report THEN "googl" ELSE "oklo"]
TheBook == <<"goog", "googl", "oklo">>

(* Two of a trade, one of them and another biotech, and one of no known trade. *)
MCIndustryOf == [c \in Companies |-> CASE c \in {"bio", "drug"} -> "pharma" [] c = "chip" -> "optics" [] OTHER -> ""]
MCCapOf == [c \in Companies |-> CASE c = "bio" -> 1 [] c = "chip" -> 2 [] c = "odd" -> 3 [] OTHER -> 4]
(* A company as the screen seeks it, and what may become of it.               *)
Young ==
    [revenue |-> 40, revenue1 |-> 30, revenue2 |-> 20, margin |-> -10, gross |-> 50, gross1 |-> 45, flow |-> -10, cash |-> 40,
     last |-> 5, before |-> 20, splits |-> {}, doubt |-> FALSE, facts |-> TRUE, shares |-> 0, shares1 |-> 0, shares2 |-> 0]
MCReports ==
    {Young, [Young EXCEPT !.doubt = TRUE], [Young EXCEPT !.cash = 15], [Young EXCEPT !.cash = 5], [Young EXCEPT !.cash = Unknown],
     [Young EXCEPT !.last = 20], [Young EXCEPT !.revenue = 20, !.revenue2 = 40], [Young EXCEPT !.facts = FALSE],
     [Young EXCEPT !.splits = {[day |-> 400, ratio |-> 2], [day |-> 740, ratio |-> 3]}]}
    \cup {[Young EXCEPT !.splits = {[day |-> d, ratio |-> 2]}] : d \in {50, 710, 770}}
MCUnknown == -999

VARIABLES which

SweepFile == which = "sweep" /\ (Start \/ Exit \/ \E i \in Issuers : File(i)) /\ UNCHANGED <<which, alertVars, basketVars>>
SweepReading == which = "sweep" /\ Reading /\ UNCHANGED <<which, alertVars, basketVars>>
AlertStep == which = "alerts" /\ AlertNext /\ UNCHANGED <<which, vars, basketVars>>
BasketStep == which = "basket" /\ BasketNext /\ UNCHANGED <<which, vars, alertVars>>

filingVars == <<which, vars, alertVars, basketVars>>
FilingsInit ==
    /\ which \in {"sweep", "alerts", "basket"}
    /\ Init /\ AlertInit /\ BasketInit /\ filing = [c \in Companies |-> Young]
FilingsSpec ==
    /\ FilingsInit
    /\ [][SweepFile \/ SweepReading \/ AlertStep \/ BasketStep]_filingVars
    /\ WF_filingVars(SweepReading)
===============================================================================
