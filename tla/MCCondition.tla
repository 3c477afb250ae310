---- MODULE MCCondition ----
EXTENDS Condition
====
