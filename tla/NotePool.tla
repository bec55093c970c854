------------------------------- MODULE NotePool -------------------------------
(***************************************************************************)
(* What the corridor promises, without trees, proofs, servers or browsers: *)
(* a set of coins backed by an escrow.  Money enters as a new coin, a coin *)
(* is split into two of the same total value, and a coin is redeemed for   *)
(* exactly its value.  A coin that was spent never comes back.             *)
(***************************************************************************)
EXTENDS Integers

CONSTANTS
  Coin,    \* every coin there can be: records with a field `value`
  Unit     \* escrowed sub-units behind one unit of value

VARIABLES
  coins,   \* coins that can be spent
  spent,   \* coins that were spent
  escrow   \* what is held against the coins

noteVars == <<coins, spent, escrow>>

Fresh(c) == c \in Coin \ (coins \cup spent)

Empty == coins = {} /\ spent = {} /\ escrow = 0

Mint(c) ==
  /\ Fresh(c)
  /\ coins' = coins \cup {c}
  /\ escrow' = escrow + c.value * Unit
  /\ UNCHANGED spent

Retire(c) ==
  /\ c \in coins
  /\ spent' = spent \cup {c}

Split(c) ==
  /\ Retire(c)
  /\ \E a, b \in Coin :
       /\ Fresh(a) /\ Fresh(b) /\ a # b
       /\ a.value + b.value = c.value
       /\ coins' = (coins \ {c}) \cup {a, b}
  /\ UNCHANGED escrow

Redeem(c) ==
  /\ Retire(c)
  /\ coins' = coins \ {c}
  /\ escrow' = escrow - c.value * Unit

Move == \E c \in Coin : Mint(c) \/ Split(c) \/ Redeem(c)

Ledger == Empty /\ [][Move]_noteVars
=============================================================================
