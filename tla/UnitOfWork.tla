----------------------------- MODULE UnitOfWork -----------------------------
(***************************************************************************)
(* What a SQLAlchemy session with autoflush=False does to one row at       *)
(* commit (database.py:19).  The session compares each column with the     *)
(* value it loaded and sends an UPDATE for the columns that differ; the    *)
(* other columns keep what the row holds by then.  There is no version     *)
(* column and no SELECT ... FOR UPDATE anywhere in the program, so nothing *)
(* notices that the row has changed in between.                            *)
(***************************************************************************)

(* The row after the commit of a session that loaded `old' and left `new'. *)
Written(row, old, new) ==
    [c \in DOMAIN row |-> IF new[c] # old[c] THEN new[c] ELSE row[c]]

=============================================================================
