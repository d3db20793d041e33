\* DIV of the most negative word by -1, at a four-bit word.
CONSTANT Width = 4
SPECIFICATION Spec
INVARIANT SimulatorSurvives
