------------------------------ MODULE SqlLogic ------------------------------
(***************************************************************************)
(* The three-valued logic of Spark SQL and PostgreSQL expressions.  The    *)
(* data-quality rules of services/processing/app/main.py are SQL strings,  *)
(* so what they decide about an event is decided by this logic: a          *)
(* comparison with NULL is NULL, and NULL is neither TRUE nor FALSE.       *)
(***************************************************************************)

CONSTANT Null   \* the SQL NULL

Truth == {"true", "false", "null"}

\* A two-valued condition (IS NULL, IS NOT NULL) as a SQL value.
Sql(b) == IF b THEN "true" ELSE "false"

Not3(x) == CASE x = "true"  -> "false"
             [] x = "false" -> "true"
             [] OTHER       -> "null"

And3(x, y) == IF "false" \in {x, y} THEN "false"
              ELSE IF "null" \in {x, y} THEN "null"
              ELSE "true"

Or3(x, y) == IF "true" \in {x, y} THEN "true"
             ELSE IF "null" \in {x, y} THEN "null"
             ELSE "false"
=============================================================================
