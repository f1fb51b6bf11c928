------------------------- MODULE MCKubernetesRuntime -------------------------
EXTENDS KubernetesRuntime

\* A timed request with credentials, and requests in pool mode: one for manual
\* cleanup, whose credentials are not used, and one with volumes.
Mixed ==
  {[NoShape EXCEPT !.expire = 1, !.auth = TRUE],
   [NoShape EXCEPT !.auth = TRUE, !.pool = TRUE],
   [NoShape EXCEPT !.pool = TRUE, !.volumes = TRUE]}

Timed == {[NoShape EXCEPT !.expire = 1]}
=============================================================================
