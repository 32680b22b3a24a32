------------------------------- MODULE Screen -------------------------------
(***************************************************************************)
(* What AppController promises its pages: the state they are shown by and  *)
(* whether the vault behind them is open.  AppController implements it     *)
(* (ScreenSpec there); module Pages is built on it.                        *)
(***************************************************************************)
VARIABLES
  state,  \* AppController::state
  open    \* ~m_vault.isLocked()

screen == <<state, open>>

States == {"setup", "login", "twofactor", "locked", "unlocked"}

FirstStates == {"setup", "login", "locked"}
Booted    == state \in FirstStates /\ open = FALSE
Restarted == state' \in FirstStates /\ open' = FALSE

Configure == state \in {"setup", "login"} /\ state' = "login" /\ UNCHANGED open

AskCode == state # "setup" /\ state' = "twofactor" /\ UNCHANGED open

(* The vault opens on the unlocked page and nowhere else.                    *)
OpenVault == state # "setup" /\ state' = "unlocked" /\ open' = TRUE

(* Locking leaves no vault page; an answer that does not parse or missing    *)
(* KDF parameters change the page over a vault that may stay open.           *)
CloseVault == state # "setup" /\ state' \in {"locked", "login"} /\ open' = FALSE
SwitchPage == state # "setup" /\ state' \in {"locked", "login"} /\ UNCHANGED open

(* The auto-lock timer fires behind another page.                            *)
CloseBehind == state \notin {"setup", "unlocked"} /\ open' = FALSE /\ UNCHANGED state

ScreenMoves ==
  \/ Configure \/ AskCode \/ OpenVault \/ CloseVault \/ SwitchPage \/ CloseBehind

ScreenSpec == Booted /\ [][ScreenMoves \/ Restarted]_screen
=============================================================================
