--------------------------- MODULE MigrationStack ---------------------------
(* What the migrator promises about a database: migrations are undone in the  *)
(* reverse order of their application, and none is applied while it, or one   *)
(* it collides with, is.  The promise can be broken by what the migrator does *)
(* not guard against; dropping every table mends it.                          *)
(* src/migrations/MigratorFactory.ts.                                         *)
EXTENDS Naturals, Sequences

CONSTANTS Migrations, Collides

VARIABLES
    stack,
    intact   \* nothing has befallen the database since it was last empty

On == {stack[k] : k \in DOMAIN stack}

Init == stack = <<>> /\ intact = TRUE

Apply(m) ==
    /\ m \notin On
    /\ \A n \in On : <<m, n>> \notin Collides
    /\ stack' = Append(stack, m)

Undo == stack # <<>> /\ stack' = SubSeq(stack, 1, Len(stack) - 1)

Work == intact = TRUE /\ intact' = TRUE /\ ((\E m \in Migrations : Apply(m)) \/ Undo)

Broken == intact' = FALSE /\ stack' \in Seq(Migrations)

\* fresh() has dropped every table
Mended == intact = FALSE /\ intact' = TRUE /\ stack' = <<>>

Next == Work \/ Broken \/ Mended

Spec == Init /\ [][Next]_<<stack, intact>>
=============================================================================
