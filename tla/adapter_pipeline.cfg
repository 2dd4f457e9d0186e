CONSTANTS
  lib = lib
  app = app
  m = m
  g = g
  p = p
  run = run
  q = q
  cb = cb
  v = v
  n = n
  h = h
  w = w
  elsewhere = elsewhere
  name = name
  s1 = s1
  s2 = s2
  s3 = s3
  s4 = s4
  s5 = s5
  s6 = s6
  s7 = s7
  s8 = s8
  t1 = t1
  t2 = t2
  t3 = t3
  t4 = t4
  t5 = t5
  t6 = t6
  t7 = t7
  t8 = t8
  t9 = t9
  Unset = Unset
  Orders <- MCOrders
  Structure <- MCStructure
  KindOf <- MCKindOf
  Parameters <- MCParameters
  UseSites <- MCUseSites
  Answers <- MCAnswers
  Healths = {"ok", "degraded", "unreadable"}
SPECIFICATION Spec
INVARIANTS CountersDescribeEdges AnswersKeepTheirSites PassFollowsItsFacts StatusCoversAnswers
CHECK_DEADLOCK FALSE
