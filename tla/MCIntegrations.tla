--------------------------- MODULE MCIntegrations ---------------------------
EXTENDS Integrations, TLC

\* A range of one page, and one of three, the last one short.
MCRanges == {<<0, 1>>, <<0, 5>>}
=============================================================================
