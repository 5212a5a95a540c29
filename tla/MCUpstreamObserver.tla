-------------------------- MODULE MCUpstreamObserver --------------------------
(* The audited commit with one before it, one after it and one beside it.  *)
EXTENDS UpstreamObserver

CONSTANTS before, audited, after, beside

MCCommits == {before, audited, after, beside}
MCAncestors == {<<c, c>> : c \in MCCommits} \cup
               {<<before, audited>>, <<before, after>>, <<before, beside>>,
                <<audited, after>>}
=============================================================================
