---------------------------- MODULE MCLintCaches ----------------------------
EXTENDS LintCachesProperties, TLC

CONSTANTS a, b, config, old, new
MCSources == <<a, b>>
\* a uses b while it is new, and b the configuration file.
MCImports == [p \in {a, b, config} |-> [c \in Contents \cup {Missing} |->
               IF c # new THEN {} ELSE CASE p = a -> {b} [] p = b -> {config} [] OTHER -> {}]]
MCTree == (a :> new) @@ (b :> new) @@ (config :> Missing)

Symmetry == Permutations(Runs)
=============================================================================
