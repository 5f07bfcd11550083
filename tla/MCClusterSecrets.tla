-------------------------- MODULE MCClusterSecrets --------------------------
EXTENDS ClusterSecrets

\* Each name in some form, each form for some name, and a repair of a bad one.
MCUserSecrets ==
  {<<"ca", "pair">>, <<"cca", "certOnly">>, <<"ca", "malformed">>, <<"token", "malformed">>}
=============================================================================
