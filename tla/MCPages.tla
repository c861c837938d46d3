------------------------------ MODULE MCPages ------------------------------
EXTENDS Pages

CONSTANTS c1, c2, s1, s2, s3, x, y, k1, k2

MCConnectionOf == (s1 :> c1) @@ (s2 :> c1) @@ (s3 :> c2)
MCMaxClicks == [home |-> 2, connections |-> 3, sessions |-> 2, settings |-> 2]
MCColumns == <<x, y>>
MCDefaults == [auth_key |-> k1, theme_color |-> DEFAULT_RED,
               dark_mode |-> FALSE]
=============================================================================
