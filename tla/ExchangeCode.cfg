SPECIFICATION FairSpec
CONSTANTS
  Commanders = {c1, c2}
  Sessions = {s1, s2, s3}
  Who <- TwoAndOther
  c1 = c1 c2 = c2 s1 = s1 s2 = s2 s3 = s3
  InitialQuotas <- CreatedQuotas
  Quotas <- EditedQuotas
  MaxMails = 1
  MaxEdits = 1
INVARIANTS QuotaConserved RewardedOnce RedeemAccounted
PROPERTIES LimitedStaysLimited RedeemSettles
