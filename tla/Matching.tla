------------------------------ MODULE Matching ------------------------------
(***************************************************************************)
(* How a CV is scored against a posting: its skills, its years and its     *)
(* degrees, weighted into a total from which the priority, the automatic   *)
(* status and the words shown to the recruiter are derived.                *)
(*                                                                         *)
(* The score is a function; the state is one CV that grows.  A skill is    *)
(* the sequence of its words, so that one text occurs in another when one  *)
(* sequence does; case and punctuation are left out.  The total is counted *)
(* in tenths of a point: for every combination of part scores it meets the *)
(* thresholds and rounds as the code's floating point does.  The share of  *)
(* the skills asked for falls, as a floating-point number, short of some   *)
(* halves (285 of 1000 comes out just below 28.5): which is a constant.    *)
(***************************************************************************)
EXTENDS Integers, FiniteSets, SequencesExt

CONSTANTS
    Words,          \* what the names of skills are made of
    Entries,        \* the skills CVs may name
    Alias,          \* the catalogue: from names and aliases to labels
    Postings,       \* the postings considered
    ShortOfHalf,    \* the sums, with the number of skills, whose share falls short of a half
    MaxSkills,      \* bound: skills of a CV
    MaxYears        \* bound: years of experience

Levels == {"Internship", "Junior", "Mid", "Senior", "Lead", "Manager"}
\* A doctorate counts as a master's degree does.
Degrees == {"bachelor", "master", "other"}

Text == Seq(Words)

ASSUME PostingAssumption ==
    \A p \in Postings : p.level \in Levels /\ IsFiniteSet(p.skills) /\ p.skills \subseteq Text
ASSUME TextAssumption ==
    /\ {"expert", "advanced", "proficient"} \subseteq Words
    /\ Entries \subseteq Text /\ \A n \in DOMAIN Alias : Alias[n] \in Text
ASSUME BoundsAssumption == MaxSkills \in Nat /\ MaxYears \in Nat

VARIABLES
    posting,
    cv,             \* an uploaded CV or an online profile
    match           \* what it was scored

matchVars == <<posting, cv, match>>

\* Rounded to the nearest integer, halves upwards.
Nearest(a, b) == (2 * a + b) \div (2 * b)

-----------------------------------------------------------------------------
(* Skills                                                                  *)

Known(skill) == skill \in DOMAIN Alias

ResolveCanonicalSkill(skill) == IF Known(skill) THEN Alias[skill] ELSE skill

\* The labels of the skills of an uploaded CV that the catalogue knows.
NormalizeExtractedSkills(skills) ==
    FoldLeft(LAMBDA labels, s :
                IF ~Known(s) \/ Contains(labels, Alias[s]) THEN labels
                ELSE Append(labels, Alias[s]),
             <<>>, skills)

\* An uploaded file is parsed, an online profile is taken as it is.
ParseResume(c) ==
    [skills |-> c.skills, normalizedSkills |-> NormalizeExtractedSkills(c.skills)]
MapCvProfileToParsedData(c) == [skills |-> c.skills, normalizedSkills |-> <<>>]

\* The labels stand for the CV if there are any.
CandidateSkills(c) ==
    LET data == IF c.source = "upload" THEN ParseResume(c) ELSE MapCvProfileToParsedData(c)
    IN IF data.normalizedSkills # <<>> THEN data.normalizedSkills ELSE data.skills

OccursIn(s, t) == \E i \in 0 .. Len(t) - Len(s) : SubSeq(t, i + 1, i + Len(s)) = s

IsSkillMatch(candidate, required) ==
    OccursIn(candidate, required) \/ OccursIn(required, candidate)

Matched(required, skills) ==
    \E s \in ToSet(skills) :
        IsSkillMatch(ResolveCanonicalSkill(s), ResolveCanonicalSkill(required))

\* The text of all skills is searched, whichever entries the words are from.
DetermineProficiency(required, skills) ==
    LET text == FlattenSeq(skills)
        Before(word) == OccursIn(<<word>> \o required, text)
        Behind(word) == OccursIn(required \o <<word>>, text)
    IN
    IF Before("expert") \/ Behind("expert") THEN 100
    ELSE IF Before("advanced") \/ Behind("advanced") \/ Before("proficient") THEN 85
    ELSE 70

\* A share that is a half, and falls short of it, is rounded down.
ScorePercentage(total, n) ==
    IF (2 * total + n) % (2 * n) = 0 /\ <<total, n>> \in ShortOfHalf
    THEN Nearest(total, n) - 1 ELSE Nearest(total, n)

CalculateSkillsMatch(skills, required) ==
    LET Score(r) == IF Matched(r, skills) THEN DetermineProficiency(r, skills) ELSE 0
        total == MapThenSumSet(Score, required)
    IN
    IF required = {} THEN 0 ELSE ScorePercentage(total, Cardinality(required))

-----------------------------------------------------------------------------
(* Experience and education                                                *)

Scale ==
    [Internship |-> [min |-> 0, ideal |-> 0, max |-> 1],
     Junior |-> [min |-> 1, ideal |-> 2, max |-> 3],
     Mid |-> [min |-> 2, ideal |-> 3, max |-> 5],
     Senior |-> [min |-> 4, ideal |-> 6, max |-> 10],
     Lead |-> [min |-> 5, ideal |-> 8, max |-> 15],
     Manager |-> [min |-> 6, ideal |-> 10, max |-> 20]]

\* Mutant: the way from the least to the ideal years starts from nothing.
ExperienceFromNothing(years, level) ==
    LET s == Scale[level] IN
    IF years < s.min THEN Nearest(50 * years, s.min)
    ELSE IF s.min < s.ideal /\ years <= s.ideal
    THEN Nearest(100 * (years - s.min), s.ideal - s.min)
    ELSE IF years <= s.max THEN 100
    ELSE IF years - s.max > 7 THEN 85 ELSE 100 - 2 * (years - s.max)

\* A level whose least years are none has no years below it.
CalculateExperienceScore(years, level) ==
    LET s == Scale[level] IN
    IF years < s.min THEN Nearest(50 * years, s.min)
    ELSE IF s.min < s.ideal /\ years <= s.ideal
    THEN Nearest(50 * (s.ideal - s.min) + 50 * (years - s.min), s.ideal - s.min)
    ELSE IF years <= s.max THEN 100
    ELSE IF years - s.max > 7 THEN 85 ELSE 100 - 2 * (years - s.max)

\* A CV that names no education is neither credited nor blamed.
CalculateEducationScore(degrees, level) ==
    LET advanced == "master" \in degrees
        bachelor == "bachelor" \in degrees
        Graded(high, low, none) ==
            IF advanced THEN high ELSE IF bachelor THEN low ELSE none
    IN
    CASE degrees = {} -> 50
      [] degrees # {} /\ level = "Internship" -> Graded(100, 100, 75)
      [] degrees # {} /\ level = "Junior" -> Graded(100, 100, 60)
      [] degrees # {} /\ level = "Mid" -> IF bachelor THEN 90 ELSE Graded(100, 90, 50)
      [] degrees # {} /\ level = "Senior" -> Graded(100, 80, 40)
      [] degrees # {} /\ level \in {"Lead", "Manager"} -> Graded(100, 70, 30)

-----------------------------------------------------------------------------
(* The total and what follows from it                                      *)

CalculateMatch(c, p) ==
    LET skills == CalculateSkillsMatch(CandidateSkills(c), p.skills)
        experience == CalculateExperienceScore(c.years, p.level)
        education == CalculateEducationScore(c.degrees, p.level)
    IN
    [skills |-> skills, education |-> education,
     total |-> 5 * skills + 3 * experience + 2 * education]

\* The class of a score in tenths.
Class(tenths) ==
    IF tenths >= 850 THEN "EXCELLENT" ELSE IF tenths >= 700 THEN "HIGH"
    ELSE IF tenths >= 500 THEN "MEDIUM" ELSE "LOW"

\* Mutant: the threshold itself is not enough.
PriorityAbove(total) == Class(total - 1)

DeterminePriority(total) == Class(total)

GenerateRecommendation(total) == Class(total)

\* Mutant: the score shown is rounded up.
ScoreRoundedUp(total) == (total + 9) \div 10

MatchingScore(total) == Nearest(total, 10)

\* The words of the summary go by the rounded score.
GenerateSummary(total) == Class(10 * MatchingScore(total))

DetermineAutoStatus(total, skillsScore) ==
    IF total >= 850 /\ skillsScore >= 70 THEN "APPROVED"
    ELSE IF total < 300 /\ skillsScore < 30 THEN "REJECTED"
    ELSE "REVIEWING"

-----------------------------------------------------------------------------
(* A CV grows                                                              *)

MatchInit ==
    /\ posting \in Postings
    /\ cv \in [source : {"upload", "online"}, skills : {<<>>}, years : {0}, degrees : {{}}]
    /\ match = CalculateMatch(cv, posting)

\* Every CV is scored anew.
Scored == match' = CalculateMatch(cv', posting) /\ UNCHANGED posting

AddSkill(s) ==
    /\ Len(cv.skills) < MaxSkills
    /\ cv' = [cv EXCEPT !.skills = Append(@, s)]
    /\ Scored

GainYear ==
    /\ cv.years < MaxYears
    /\ cv' = [cv EXCEPT !.years = @ + 1]
    /\ Scored

AddDegree(d) ==
    /\ d \notin cv.degrees
    /\ cv' = [cv EXCEPT !.degrees = @ \cup {d}]
    /\ Scored

MatchNext ==
    \/ \E s \in Entries : AddSkill(s)
    \/ GainYear
    \/ \E d \in Degrees : AddDegree(d)

MatchSpec == MatchInit /\ [][MatchNext]_matchVars

-----------------------------------------------------------------------------
(* Properties                                                              *)

\* What the code means to count against a candidate, and three surprises: the
\* first skill the catalogue knows hides those it does not, a bachelor's degree
\* takes points from a master's at mid level, and from Senior upwards an
\* education without a degree is worth less than none.
KnownSkillsTakeOver ==
    /\ cv.source = "upload"
    /\ NormalizeExtractedSkills(cv.skills) = <<>> /\ cv'.skills # cv.skills
    /\ \E s \in ToSet(cv'.skills) : Known(s)
OverQualified == cv'.years > cv.years /\ cv'.years > Scale[posting.level].max
BachelorAtMidLevel ==
    posting.level = "Mid" /\ "master" \in cv.degrees /\ "bachelor" \in cv'.degrees
EducationWithoutDegree ==
    cv.degrees = {} /\ cv'.degrees = {"other"} /\ posting.level \in {"Senior", "Lead", "Manager"}

\* A further skill, year or degree never lowers the score, whatever else the
\* CV holds, but in those four cases (calculateMatch).
GainsNeverLower ==
    [][\/ match'.total >= match.total
       \/ KnownSkillsTakeOver \/ OverQualified
       \/ BachelorAtMidLevel \/ EducationWithoutDegree]_matchVars

\* A candidate who has every skill asked for, if only plainly, the ideal years
\* and the best education is excellent and would be approved: the three weights
\* reach the threshold exactly (SCORE_THRESHOLDS, AUTO_STATUS_RULES).
FitIsExcellent ==
    (/\ posting.skills # {}
     /\ \A r \in posting.skills : Matched(r, CandidateSkills(cv))
     /\ cv.years \in Scale[posting.level].ideal .. Scale[posting.level].max
     /\ match.education = 100)
    => /\ DeterminePriority(match.total) = "EXCELLENT"
       /\ DetermineAutoStatus(match.total, match.skills) = "APPROVED"

\* The summary a recruiter reads and the priority the list is sorted by differ
\* only over a score rounded up to a threshold, the recommendation and the
\* priority never; approval goes with excellence, and a candidate with every
\* skill asked for is not rejected (generateSummary, determinePriority,
\* generateRecommendation, determineAutoStatus).
VerdictsAgree ==
    LET status == DetermineAutoStatus(match.total, match.skills)
        shown == MatchingScore(match.total)
    IN
    /\ \/ GenerateSummary(match.total) = DeterminePriority(match.total)
       \/ shown \in {50, 70, 85} /\ 10 * shown - match.total \in 1 .. 5
    /\ GenerateRecommendation(match.total) = DeterminePriority(match.total)
    /\ status = "APPROVED" => DeterminePriority(match.total) = "EXCELLENT"
    /\ status = "REJECTED" =>
          \/ posting.skills = {}
          \/ \E r \in posting.skills : ~Matched(r, CandidateSkills(cv))
=============================================================================
