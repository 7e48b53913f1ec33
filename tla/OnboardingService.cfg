SPECIFICATION Spec
CONSTANTS
  Thread = {t1}
  Loop = loop
  Page = {g1, g2}
  CACHE_TTL = 1
INVARIANTS OnboardingTypeOK StepIsEarned RefusedOnlyLast CacheIsRecent
