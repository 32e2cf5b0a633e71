---------------------------- MODULE MCExemplars ----------------------------
EXTENDS Exemplars

\* Eight directions of three dimensions, of squared length 6: among them pairs
\* whose cosine is exactly the gate's one half, and opposites.
MCEmbeddings == {<<2, 1, 1>>, <<1, 2, 1>>, <<1, 2, -1>>, <<-1, 2, 1>>, <<-2, 1, -1>>,
                 <<1, -1, 2>>, <<-2, -1, -1>>, <<-1, -1, 2>>}
=============================================================================
