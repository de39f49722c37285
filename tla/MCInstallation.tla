--------------------------- MODULE MCInstallation ---------------------------
EXTENDS Installation
CONSTANTS l1, l2
MCLines == {l1, l2}
MCVersions == << "0.8", "0.9" >>
MCProvider == [llm |-> "unreachable", budget |-> "warning"]
=============================================================================
