------------------------------ MODULE MCLogger ------------------------------
EXTENDS Logger

CONSTANT p1
=============================================================================
