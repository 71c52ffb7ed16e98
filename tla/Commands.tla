------------------------------ MODULE Commands ------------------------------
(***************************************************************************)
(* The command line (cli.py): an invocation runs one command, on state of  *)
(* its own.  The components that share no state with another one are       *)
(* checked together, each in the behaviours whose command is its own.      *)
(***************************************************************************)
EXTENDS Book, PaperBroker, Learning, Holdout, Backtest, Validation, Studies, Factory

VARIABLE command

commandVars ==
  <<command, bookVars, paperVars, learnVars, holdoutVars,
    backtestVars, validationVars, studyVars, factoryVars>>

Init ==
  /\ command \in {"book", "paper", "learn", "holdout", "simulate", "validate", "study", "sweep"}
  /\ BookInit /\ PaperInit /\ LearnInit /\ HoldoutInit
  /\ BacktestInit /\ ValidationInit /\ StudyInit /\ FactoryInit

Next ==
  \/ /\ command = "book" /\ BookNext
     /\ UNCHANGED <<command, paperVars, learnVars, holdoutVars, backtestVars,
                    validationVars, studyVars, factoryVars>>
  \/ /\ command = "paper" /\ PaperNext
     /\ UNCHANGED <<command, bookVars, learnVars, holdoutVars, backtestVars,
                    validationVars, studyVars, factoryVars>>
  \/ /\ command = "learn" /\ LearnNext
     /\ UNCHANGED <<command, bookVars, paperVars, holdoutVars, backtestVars,
                    validationVars, studyVars, factoryVars>>
  \/ /\ command = "holdout" /\ HoldoutNext
     /\ UNCHANGED <<command, bookVars, paperVars, learnVars, backtestVars,
                    validationVars, studyVars, factoryVars>>
  \/ /\ command = "simulate" /\ BacktestNext
     /\ UNCHANGED <<command, bookVars, paperVars, learnVars, holdoutVars,
                    validationVars, studyVars, factoryVars>>
  \/ /\ command = "validate" /\ ValidationNext
     /\ UNCHANGED <<command, bookVars, paperVars, learnVars, holdoutVars,
                    backtestVars, studyVars, factoryVars>>
  \/ /\ command = "study" /\ StudyNext
     /\ UNCHANGED <<command, bookVars, paperVars, learnVars, holdoutVars,
                    backtestVars, validationVars, factoryVars>>
  \/ /\ command = "sweep" /\ FactoryNext
     /\ UNCHANGED <<command, bookVars, paperVars, learnVars, holdoutVars,
                    backtestVars, validationVars, studyVars>>

Spec == Init /\ [][Next]_commandVars

TypeOK ==
  /\ BookTypeOK /\ PaperTypeOK /\ LearnTypeOK /\ HoldoutTypeOK
  /\ BacktestTypeOK /\ ValidationTypeOK /\ StudyTypeOK /\ FactoryTypeOK
=============================================================================
