--------------------------- MODULE MCConfigReload ---------------------------
EXTENDS ConfigReload, TLC

CONSTANTS d1, own, main

\* A linked worktree looks in its own directory, then in the main one, where
\* there is a configuration to begin with.
Linked == d1 :> <<own, main>>

Events(g, o, m, l, f) ==
    [there |-> {Global, main},
     budget |-> [edits |-> (Global :> g) @@ (own :> o) @@ (main :> m),
                 losses |-> l, failures |-> f]]

\* Changes that the watcher reports, and changes that it does not.
Apart ==
    {Events(2, 0, 0, 0, 0), Events(1, 0, 1, 0, 0), Events(1, 0, 0, 1, 0),
     Events(0, 0, 1, 1, 1), Events(0, 1, 0, 0, 1)}

\* One change that it reports and one that it does not: the main configuration
\* is deleted and created again, or the global one edited and another created.
Mixed == {Events(0, 0, 2, 0, 0), Events(1, 1, 0, 0, 0)}
=============================================================================
