------------------------------ MODULE MCCpeFlow ------------------------------
EXTENDS CpeFlow

OnePort == {800}
=============================================================================
