------------------------------ MODULE MCMealOrder ------------------------------
\* MealOrder on a small instance; the days are alike.
EXTENDS MealOrder, TLC

DaysAreAlike == Permutations(Days)
=============================================================================
