----------------------------- MODULE BlockWrite -----------------------------
(***************************************************************************)
(* What rewriting a flash promises, whatever the commands it is made of:   *)
(* the erase blocks of the target area take their new contents from the    *)
(* first to the last, one at a time.  However often the writer stops and   *)
(* is started again, the area is the new image up to some block and the    *)
(* old contents after it; the rest of the flash is never touched; success  *)
(* is reported only when every block holds the image.                      *)
(***************************************************************************)
EXTENDS Integers

VARIABLES area,     \* area[b]: the cells of block b of the target area
          rest,     \* the cells of the flash outside it
          orig,     \* the area before the first run
          goal,     \* goal[b]: the cells the image has for block b
          status    \* "running", "ok" or "ended"

blockVars == <<area, rest, orig, goal, status>>

Good(b) == \A i \in DOMAIN goal[b] : area[b][i] = goal[b][i]

Init == area = orig /\ status = "ended"

Begin ==
  /\ status # "running" /\ status' \in {"running", "ended"}
  /\ UNCHANGED <<area, rest, orig, goal>>

\* An erase or a program, possibly one that a killed run has left behind.
Change(b) ==
  /\ \A c \in DOMAIN area : c < b => Good(c)
  /\ \A c \in DOMAIN area : c > b => area[c] = orig[c]
  /\ DOMAIN area' = DOMAIN area
  /\ \A c \in DOMAIN area \ {b} : area'[c] = area[c]
  /\ UNCHANGED <<rest, orig, goal, status>>

Succeed ==
  /\ status = "running" /\ \A b \in DOMAIN area : Good(b)
  /\ status' = "ok"
  /\ UNCHANGED <<area, rest, orig, goal>>

Stop ==
  /\ status = "running" /\ status' = "ended"
  /\ UNCHANGED <<area, rest, orig, goal>>

Next == Begin \/ Succeed \/ Stop \/ \E b \in DOMAIN area : Change(b)

Spec == Init /\ [][Next]_blockVars
=============================================================================
